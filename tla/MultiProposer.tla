--------------------------- MODULE MultiProposer ---------------------------
(***************************************************************************)
(* The proposer of package multipaxos, without Live Replacement: the       *)
(* cases of its event loop, each one atomic step of its goroutine.         *)
(*                                                                         *)
(* It keeps its proposals across rounds: slots[s].Proposal is the last     *)
(* Accept it made for s or the vote it found in a Promise, and the next    *)
(* Phase 1 only replaces it by a vote of a higher round.                   *)
(***************************************************************************)
EXTENDS Paxos, Sequences

CONSTANTS
    Alpha,            \* config "alpha": slots that may be open at once
    ResendThreshold,  \* resendsBeforeRestartingPhaseOne (10 in the code)
    Requests,         \* the commands clients send to each proposer
    MaxQueue          \* bound on the request queue

ASSUME AlphaAssumption ==
    /\ Alpha \in Nat \ {0}
    /\ ResendThreshold \in Nat \ {0}
    /\ Requests \in [Proposer -> SUBSET Value]
    /\ MaxQueue \in Nat

VARIABLES
    leader,        \* the leader this proposer trusts
    crnd,          \* crnd.Rnd; its owner is the proposer itself
    adu,           \* all-decided-up-to
    nextSlot,      \* next slot for an Accept
    proposal,      \* slots[s].Proposal
    sentCount,     \* slots[s].SentCount
    reqQueue,      \* client requests not yet proposed
    p1Promises,    \* phaseOnePromises
    phaseOneDone   \* has Phase 1 of crnd completed?

propVars == <<leader, crnd, adu, nextSlot, proposal, sentCount, reqQueue,
              p1Promises, phaseOneDone>>

(* A nil Proposal.  A proposal copied from a vote has slot 0, for only its *)
(* Rnd and Val are set.                                                    *)
NoProposal == [rnd |-> ZeroRound, slot |-> 0, val |-> None]

Proposal == [rnd : OwnedRound, slot : 0..MaxSlot, val : Value]

PropTypeOK ==
    /\ leader \in [Proposer -> Proposer]
    /\ crnd \in [Proposer -> Nat]
    /\ \A p \in Proposer : crnd[p] \in 1..MaxRnd[p]
    /\ adu \in [Proposer -> 0..MaxSlot]
    /\ nextSlot \in [Proposer -> 1..(MaxSlot + 1)]
    /\ proposal \in [Proposer -> [Slot -> Proposal \cup {NoProposal}]]
    /\ sentCount \in [Proposer -> [Slot -> 0..ResendThreshold]]
    /\ reqQueue \in [Proposer -> Seq(Value)]
    /\ p1Promises \in [Proposer -> SUBSET promises]
    /\ phaseOneDone \in [Proposer -> BOOLEAN]

(* Every node starts with the leader its detector computes when nobody is  *)
(* suspected: the proposer with the highest PaxosID.                       *)
PropInit ==
    /\ \E top \in Proposer :
           /\ \A q \in Proposer : q <= top
           /\ leader = [p \in Proposer |-> top]
    /\ crnd = [p \in Proposer |-> 1]
    /\ adu = [p \in Proposer |-> 0]
    /\ nextSlot = [p \in Proposer |-> 1]
    /\ proposal = [p \in Proposer |-> [s \in Slot |-> NoProposal]]
    /\ sentCount = [p \in Proposer |-> [s \in Slot |-> 0]]
    /\ reqQueue = [p \in Proposer |-> << >>]
    /\ p1Promises = [p \in Proposer |-> {}]
    /\ phaseOneDone = [p \in Proposer |-> FALSE]

IsLeaderAndPhaseOneComplete(p) == leader[p] = p /\ phaseOneDone[p]

(* inAlphaRange, and the bug of counting the adu itself as an open slot.   *)
InAlphaRangeOffByOne(s, ad) == s <= ad + Alpha + 1
InAlphaRange(s, ad) == s <= ad + Alpha

(* The slots with an Accept of the current round that is not yet decided.  *)
AlphaWindow(p) == {s \in Slot : adu[p] < s /\ s < nextSlot[p]}

-----------------------------------------------------------------------------
(* Phase 1.                                                                *)

(* startPhaseOne and updateStatePrePhaseOne, but for the request queue and *)
(* the SentCounts, which their callers treat differently.                  *)
StartPhaseOne(p) ==
    /\ crnd[p] < MaxRnd[p]
    /\ crnd' = [crnd EXCEPT ![p] = @ + 1]
    /\ phaseOneDone' = [phaseOneDone EXCEPT ![p] = FALSE]
    /\ p1Promises' = [p1Promises EXCEPT ![p] = {}]
    /\ prepares' = prepares \cup
         {[id |-> p, crnd |-> <<crnd[p] + 1, p>>, slot |-> adu[p]]}

(* startPhaseOne(true): also forget the queued requests.                   *)
StartPhaseOneClear(p) ==
    /\ StartPhaseOne(p)
    /\ reqQueue' = [reqQueue EXCEPT ![p] = << >>]
    /\ sentCount' = [sentCount EXCEPT ![p] =
         [s \in Slot |-> IF s \in AlphaWindow(p) THEN 0 ELSE @[s]]]

(* The votes reported for slot s by a set of promises, and the bug of not  *)
(* looking at them.                                                        *)
ReportedIgnored(proms, s) == {as \in {} : as.id = s}
Reported(proms, s) ==
    {as \in UNION {m.accslots : m \in proms} : as.id = s}

(* A vote of the highest round.  (Two votes of one round carry the same    *)
(* value, so the order in which the code scans them does not matter.)      *)
TopVote(votes) ==
    CHOOSE v \in votes : \A w \in votes : ~RoundLess(v.vrnd, w.vrnd)

(* A bug: the retained proposal wins without a comparison of rounds.       *)
SetStateKeepRetained(p, proms) ==
    [s \in Slot |->
        LET votes == Reported(proms, s)
            top == TopVote(votes)
        IN  IF s <= adu[p] \/ votes = {} \/ proposal[p][s] # NoProposal
            THEN proposal[p][s]
            ELSE [rnd |-> top.vrnd, slot |-> 0, val |-> top.vval]]

(* setStateFromPromises: for each slot above adu, the retained proposal    *)
(* unless a promise reports a vote of a higher round.                      *)
SetStateFromPromises(p, proms) ==
    [s \in Slot |->
        LET votes == Reported(proms, s)
            top == TopVote(votes)
        IN  IF \/ s <= adu[p]
               \/ votes = {}
               \/ /\ proposal[p][s] # NoProposal
                  /\ ~RoundLess(proposal[p][s].rnd, top.vrnd)
            THEN proposal[p][s]
            ELSE [rnd |-> top.vrnd, slot |-> 0, val |-> top.vval]]

-----------------------------------------------------------------------------
(* Phase 2.                                                                *)

(* The slots from ns to s that have no proposal: each takes one request.   *)
Fresh(prop, ns, s) == {t \in ns..s : prop[t] = NoProposal}

(* genAccept: the retained proposal's value, or else the next request of   *)
(* the queue q, whose front goes to the first slot without a proposal.     *)
AcceptVal(prop, ns, q, s) ==
    IF prop[s] # NoProposal THEN prop[s].val
                            ELSE q[Cardinality(Fresh(prop, ns, s))]

(* The slots the loop of sendAccept reaches: in the alpha range of adu ad, *)
(* and with a proposal or a request for it and each slot before it.        *)
Sendable(prop, ad, ns, q) ==
    {s \in ns..MaxSlot : /\ InAlphaRange(s, ad)
                         /\ Cardinality(Fresh(prop, ns, s)) <= Len(q)}

(* sendAccept, starting at slot ns: broadcast and retain an Accept of the  *)
(* current round for each sendable slot.                                   *)
SendAccept(p, prop, ad, ns, q) ==
    \E last \in (ns - 1)..MaxSlot :
        /\ Sendable(prop, ad, ns, q) = ns..last
        /\ nextSlot' = [nextSlot EXCEPT ![p] = last + 1]
        /\ proposal' = [proposal EXCEPT ![p] =
             [s \in Slot |->
                IF s \in ns..last
                THEN [rnd |-> <<crnd[p], p>>, slot |-> s,
                      val |-> AcceptVal(prop, ns, q, s)]
                ELSE prop[s]]]
        /\ reqQueue' = [reqQueue EXCEPT ![p] =
             SubSeq(q, Cardinality(Fresh(prop, ns, last)) + 1, Len(q))]
        /\ accepts' = accepts \cup
             {[id |-> p, rnd |-> <<crnd[p], p>>, slot |-> s,
               val |-> AcceptVal(prop, ns, q, s)] : s \in ns..last}

-----------------------------------------------------------------------------
(* The cases of the event loop.                                            *)

(* A bug: the slot that comes into the window is not proposed.             *)
HandleNewDcdSilent(p) ==
    /\ adu' = [adu EXCEPT ![p] = @ + 1]
    /\ UNCHANGED <<nextSlot, proposal, reqQueue, leader, crnd, sentCount,
                   p1Promises, phaseOneDone, netVars>>

(* <-newDcdChan: the server has executed one more slot.                    *)
HandleNewDcd(p) ==
    /\ adu' = [adu EXCEPT ![p] = @ + 1]
    /\ IF IsLeaderAndPhaseOneComplete(p)
       THEN SendAccept(p, proposal[p], adu[p] + 1, nextSlot[p], reqQueue[p])
       ELSE UNCHANGED <<nextSlot, proposal, reqQueue, accepts>>
    /\ UNCHANGED <<leader, crnd, sentCount, p1Promises, phaseOneDone,
                   prepares, promises, learns, creqs, cresps>>

(* <-propChan: a client request, dropped unless this node leads.           *)
HandleProposal(p, v) ==
    LET q == Append(reqQueue[p], v)
    IN  /\ v \in Requests[p]
        /\ leader[p] = p
        /\ Len(reqQueue[p]) < MaxQueue
        /\ IF phaseOneDone[p]
           THEN SendAccept(p, proposal[p], adu[p], nextSlot[p], q)
           ELSE /\ reqQueue' = [reqQueue EXCEPT ![p] = q]
                /\ UNCHANGED <<nextSlot, proposal, accepts>>
        /\ UNCHANGED <<leader, crnd, adu, sentCount, p1Promises,
                       phaseOneDone, prepares, promises, learns, creqs,
                       cresps>>

(* <-trust: a change of leader; a change to this node starts Phase 1.      *)
HandleTrust(p, id) ==
    /\ leader[p] # id
    /\ leader' = [leader EXCEPT ![p] = id]
    /\ IF id = p
       THEN StartPhaseOneClear(p)
       ELSE UNCHANGED <<crnd, sentCount, reqQueue, p1Promises,
                        phaseOneDone, prepares>>
    /\ UNCHANGED <<adu, nextSlot, proposal, promises, accepts, learns,
                   creqs, cresps>>

(* Where Phase 2 of a new round starts, and the bug of carrying on where   *)
(* the previous round stopped.                                             *)
FirstSlotOfOldRound(p) == nextSlot[p]
FirstSlotOfRound(p) == adu[p] + 1

(* <-promiseChan: handleProm, and once it reports a quorum the end of      *)
(* Phase 1.  Whether this node still leads is not checked.                 *)
HandlePromise(p, m) ==
    LET proms == p1Promises[p] \cup {m}
    IN  /\ ~phaseOneDone[p]
        /\ m.rnd = <<crnd[p], p>>
        /\ \A n \in p1Promises[p] : n.id # m.id
        /\ p1Promises' = [p1Promises EXCEPT ![p] = proms]
        /\ IF IsQuorum(proms)
           THEN /\ phaseOneDone' = [phaseOneDone EXCEPT ![p] = TRUE]
                /\ SendAccept(p, SetStateFromPromises(p, proms), adu[p],
                              FirstSlotOfRound(p), reqQueue[p])
           ELSE UNCHANGED <<phaseOneDone, nextSlot, proposal, reqQueue,
                            accepts>>
        /\ UNCHANGED <<leader, crnd, adu, sentCount, prepares, promises,
                       learns, creqs, cresps>>

(* <-phaseOneTimer.C: retry Phase 1 in a higher round.                     *)
PhaseOneTimeout(p) ==
    /\ leader[p] = p
    /\ ~phaseOneDone[p]
    /\ StartPhaseOneClear(p)
    /\ UNCHANGED <<leader, adu, nextSlot, proposal, promises, accepts,
                   learns, creqs, cresps>>

(* The Accepts retained for a set of slots, as they are broadcast again.   *)
Retained(p, S) ==
    {[id |-> p, rnd |-> proposal[p][s].rnd, slot |-> proposal[p][s].slot,
      val |-> proposal[p][s].val] : s \in S}

(* <-phaseTwoTimer.C, no slot at its limit: resendAcceptsIfNecessary sends *)
(* the retained Accepts of the window again.  Each is a message the        *)
(* network already holds, unless the proposal was not sent in this form.   *)
ResendAccepts(p) ==
    /\ IsLeaderAndPhaseOneComplete(p)
    /\ AlphaWindow(p) # {}
    /\ \A s \in AlphaWindow(p) : sentCount[p][s] < ResendThreshold
    /\ sentCount' = [sentCount EXCEPT ![p] =
         [s \in Slot |-> IF s \in AlphaWindow(p) THEN @[s] + 1 ELSE @[s]]]
    /\ accepts' = accepts \cup Retained(p, AlphaWindow(p))
    /\ UNCHANGED <<leader, crnd, adu, nextSlot, proposal, reqQueue,
                   p1Promises, phaseOneDone, prepares, promises, learns,
                   creqs, cresps>>

(* <-phaseTwoTimer.C, the first slot s at its limit: the slots below s are *)
(* resent, Phase 1 restarts (which resets every SentCount of the window),  *)
(* and the loop goes on to resend the slots above s.                       *)
ResendLimitReached(p) ==
    /\ IsLeaderAndPhaseOneComplete(p)
    /\ StartPhaseOne(p)
    /\ \E s \in AlphaWindow(p) :
        /\ sentCount[p][s] >= ResendThreshold
        /\ \A t \in AlphaWindow(p) :
               t < s => sentCount[p][t] < ResendThreshold
        /\ sentCount' = [sentCount EXCEPT ![p] =
             [t \in Slot |-> IF t \notin AlphaWindow(p) THEN @[t]
                             ELSE IF t > s THEN 1 ELSE 0]]
        /\ accepts' = accepts \cup Retained(p, AlphaWindow(p) \ {s})
    /\ UNCHANGED <<leader, adu, nextSlot, proposal, reqQueue, promises,
                   learns, creqs, cresps>>
=============================================================================
