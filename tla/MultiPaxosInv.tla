--------------------------- MODULE MultiPaxosInv ---------------------------
(***************************************************************************)
(* The inductive invariant from which the safety of MultiPaxos follows.    *)
(* A Learn is the public record of a vote.                                 *)
(***************************************************************************)
EXTENDS MultiPaxos

VotedFor(a, s, r, v) == [id |-> a, rnd |-> r, slot |-> s, val |-> v] \in learns

VotedIn(a, s, r) == \E v \in Value : VotedFor(a, s, r, v)

(* Acceptor a has not voted in round r for slot s and never will.          *)
WontVoteIn(a, s, r) == RoundLess(r, aRnd[a]) /\ ~VotedIn(a, s, r)

(* No value but v can ever be chosen for slot s below round r.             *)
SafeAt(s, r, v) ==
    \A c \in OwnedRound : RoundLess(c, r) =>
        \E Q \in SUBSET Acceptor :
            /\ IsQuorum(Q)
            /\ \A a \in Q : VotedFor(a, s, c, v) \/ WontVoteIn(a, s, c)

-----------------------------------------------------------------------------
(* A proposer sends one Prepare per round, in the rounds up to its own,    *)
(* and asks about the slots from an adu it had then.                       *)
PrepareInv ==
    \A q \in prepares :
        /\ q.crnd[2] = q.id
        /\ q.crnd[1] <= crnd[q.id]
        /\ q.slot <= adu[q.id]
        /\ \A q2 \in prepares : q2.crnd = q.crnd => q2 = q

(* A Promise answers a Prepare and binds its acceptor; it reports only     *)
(* votes, of lower rounds, and for every vote it or a later one.           *)
PromiseInv ==
    \A m \in promises :
        /\ ~RoundLess(aRnd[m.id], m.rnd)
        /\ \E q \in prepares : q.crnd = m.rnd
        /\ \A as \in m.accslots : as.id \in Slot =>
               /\ VotedFor(m.id, as.id, as.vrnd, as.vval)
               /\ RoundLess(as.vrnd, m.rnd)

(* An acceptor's slot holds its last vote, and MaxSeen covers it.          *)
VoteInv ==
    /\ \A a \in Acceptor, s \in Slot : RoundLess(ZeroRound, vrnd[a][s]) =>
           /\ VotedFor(a, s, vrnd[a][s], vval[a][s])
           /\ s <= maxSeen[a]
    /\ \A n \in learns :
           /\ ~RoundLess(vrnd[n.id][n.slot], n.rnd)
           /\ ~RoundLess(aRnd[n.id], n.rnd)
           /\ \E m \in accepts :
                  m.rnd = n.rnd /\ m.slot = n.slot /\ m.val = n.val

(* A proposer makes one Accept per slot and round, for its own rounds, and *)
(* none in the current one before its Phase 1 is complete.                 *)
AcceptInv ==
    \A m \in accepts :
        /\ m.rnd[2] = m.id
        /\ m.rnd[1] <= crnd[m.id]
        /\ m.rnd[1] = crnd[m.id] =>
               phaseOneDone[m.id] /\ m.slot < nextSlot[m.id]
        /\ SafeAt(m.slot, m.rnd, m.val)
        /\ \A m2 \in accepts :
               m2.rnd = m.rnd /\ m2.slot = m.slot => m2.val = m.val

(* The promises gathered for the current round.                            *)
GatherInv ==
    \A p \in Proposer :
        /\ \A m \in p1Promises[p] : m.rnd = <<crnd[p], p>>
        /\ \A m1, m2 \in p1Promises[p] : m1.id = m2.id => m1 = m2

(* Once Phase 1 is complete, each slot of the window retains an Accept of  *)
(* the current round.                                                      *)
WindowRetained ==
    \A p \in Proposer : phaseOneDone[p] =>
        \A s \in AlphaWindow(p) :
            /\ proposal[p][s] # NoProposal
            /\ proposal[p][s].rnd = <<crnd[p], p>>
            /\ proposal[p][s].slot = s

(* What the type invariant rests on.                                       *)
TypeInv == TypeOK /\ PassedSlotsLearned /\ WindowRetained

(* Whatever a proposer retains for a slot was sent in an Accept.  Once     *)
(* Phase 1 is complete, a slot not yet sent is free for the retained       *)
(* value, or for any value if none is retained.                            *)
ProposalInv ==
    \A p \in Proposer, s \in Slot :
        /\ proposal[p][s] # NoProposal =>
               /\ ~RoundLess(<<crnd[p], p>>, proposal[p][s].rnd)
               /\ \E m \in accepts : /\ m.rnd = proposal[p][s].rnd
                                     /\ m.slot = s
                                     /\ m.val = proposal[p][s].val
        /\ phaseOneDone[p] /\ nextSlot[p] <= s =>
               \A v \in Value :
                   proposal[p][s] = NoProposal \/ proposal[p][s].val = v
                       => SafeAt(s, <<crnd[p], p>>, v)

SafetyInv ==
    /\ TypeInv
    /\ PrepareInv
    /\ PromiseInv
    /\ PromiseComplete
    /\ VoteInv
    /\ AcceptInv
    /\ GatherInv
    /\ ProposalInv

-----------------------------------------------------------------------------
(* What the learners add.                                                  *)
LearnInv ==
    /\ \A l \in Learner, s \in Slot :
           \A a \in lslots[l][s].from : VotedIn(a, s, lslots[l][s].rnd)
    /\ \A m \in cresps : \A d \in m.vals : Chosen(d.slot, d.val)

WindowInv ==
    /\ \A m \in accepts : m.slot <= adu[m.id] + Alpha
    /\ \A p \in Proposer : adu[p] <= (IF p \in Learner THEN aru[p] ELSE 0)
    /\ \A l \in Learner : aru[l] < next[l]

FullInv ==
    /\ SafetyInv
    /\ LearnInv
    /\ LearnedIsChosen
    /\ WindowInv
=============================================================================
