----------------------- MODULE MultiPaxosSafetyProofs -----------------------
(***************************************************************************)
(* The safety of MultiPaxos: SafetyInv is inductive, and from it at most   *)
(* one value is chosen per slot; FullInv, which adds the learners, is      *)
(* inductive, and from it replicas agree, the window of alpha slots holds, *)
(* and the group implements the replicated log.                            *)
(***************************************************************************)
EXTENDS MultiPaxosTypeProofs

(* What a step of the group does to the votes: they are kept, rounds do    *)
(* not go down, and a new vote is not below the round promised before.     *)
VotesGrow ==
    /\ learns \subseteq learns'
    /\ \A a \in Acceptor : ~RoundLess(aRnd'[a], aRnd[a])
    /\ \A n \in learns' \ learns :
           n \in LearnMsg /\ ~RoundLess(n.rnd, aRnd[n.id])

(* What is safe stays safe.                                                *)
LEMMA SafeStable ==
    ASSUME AccTypeOK, AccTypeOK', VotesGrow,
           NEW s \in Slot, NEW r \in OwnedRound, NEW v \in Value,
           SafeAt(s, r, v)
    PROVE  SafeAt(s, r, v)'
<1> SUFFICES ASSUME NEW c \in OwnedRound, RoundLess(c, r)
             PROVE  \E Q \in SUBSET Acceptor :
                        /\ IsQuorum(Q)
                        /\ \A a \in Q : VotedFor(a, s, c, v)'
                                        \/ WontVoteIn(a, s, c)'
  BY DEF SafeAt
<1>1. PICK Q \in SUBSET Acceptor :
        /\ IsQuorum(Q)
        /\ \A a \in Q : VotedFor(a, s, c, v) \/ WontVoteIn(a, s, c)
  BY DEF SafeAt
<1>2. ASSUME NEW a \in Q
      PROVE  VotedFor(a, s, c, v)' \/ WontVoteIn(a, s, c)'
  <2>1. CASE VotedFor(a, s, c, v)
    BY <2>1 DEF VotedFor, VotesGrow
  <2>2. CASE WontVoteIn(a, s, c)
    <3>1. /\ aRnd[a] \in Round
          /\ aRnd'[a] \in Round
          /\ c \in Round
      BY OwnedRoundType DEF AccTypeOK, Round, ZeroRound
    <3>2. RoundLess(c, aRnd'[a])
      BY <2>2, <3>1, RoundOrder DEF WontVoteIn, VotesGrow
    <3>3. ASSUME NEW w \in Value, VotedFor(a, s, c, w)'
          PROVE  FALSE
      <4> DEFINE n == [id |-> a, rnd |-> c, slot |-> s, val |-> w]
      <4>1. n \in learns' \ learns
        BY <2>2, <3>3 DEF VotedFor, WontVoteIn, VotedIn
      <4>2. ~RoundLess(c, aRnd[a])
        BY <4>1 DEF VotesGrow
      <4> QED
        BY <2>2, <4>2 DEF WontVoteIn
    <3> QED
      BY <3>2, <3>3 DEF WontVoteIn, VotedIn
  <2> QED
    BY <1>1, <2>1, <2>2
<1> QED
  BY <1>1, <1>2

(* Votes for different values of one slot are of different rounds.         *)
LEMMA OneValuePerRound ==
    ASSUME VoteInv, AcceptInv,
           NEW a, NEW b, NEW s, NEW r, NEW v, NEW w,
           VotedFor(a, s, r, v), VotedFor(b, s, r, w)
    PROVE  v = w
<1>1. PICK m \in accepts : m.rnd = r /\ m.slot = s /\ m.val = v
  BY DEF VoteInv, VotedFor
<1>2. PICK k \in accepts : k.rnd = r /\ k.slot = s /\ k.val = w
  BY DEF VoteInv, VotedFor
<1> QED
  BY <1>1, <1>2 DEF AcceptInv

LEMMA VotersType ==
    ASSUME NetTypeOK, NEW s, NEW r, NEW v
    PROVE  /\ VotersFor(s, r, v) \in SUBSET Acceptor
           /\ \A a \in VotersFor(s, r, v) : VotedFor(a, s, r, v)
<1> SUFFICES ASSUME NEW n \in learns, n.slot = s, n.rnd = r, n.val = v
             PROVE  n.id \in Acceptor /\ VotedFor(n.id, s, r, v)
  BY DEF VotersFor
<1>1. n \in LearnMsg
  BY DEF NetTypeOK
<1>2. n = [id |-> n.id, rnd |-> n.rnd, slot |-> n.slot, val |-> n.val]
  BY <1>1 DEF LearnMsg
<1> QED
  BY <1>1, <1>2 DEF LearnMsg, VotedFor

(* Of two chosen values, the one chosen in the lower round is the only one *)
(* that was safe in the higher.                                            *)
LEMMA LowerRoundWins ==
    ASSUME NetTypeOK, VoteInv, AcceptInv,
           NEW s \in Slot, NEW v \in Value, NEW w \in Value,
           NEW c \in OwnedRound, NEW r \in OwnedRound,
           IsQuorum(VotersFor(s, c, v)), IsQuorum(VotersFor(s, r, w)),
           RoundLess(c, r) \/ c = r
    PROVE  v = w
<1>1. CASE c = r
  <2>1. PICK a \in Acceptor : a \in VotersFor(s, c, v) /\ a \in VotersFor(s, r, w)
    BY VotersType, QuorumsIntersect
  <2> QED
    BY <1>1, <2>1, VotersType, OneValuePerRound
<1>2. CASE RoundLess(c, r)
  <2>1. PICK b \in Acceptor : b \in VotersFor(s, r, w)
    BY VotersType, QuorumsIntersect
  <2>2. PICK m \in accepts : m.rnd = r /\ m.slot = s /\ m.val = w
    <3>1. VotedFor(b, s, r, w)
      BY <2>1, VotersType
    <3> QED
      BY <3>1 DEF VoteInv, VotedFor
  <2>3. SafeAt(s, r, w)
    BY <2>2 DEF AcceptInv
  <2>4. PICK Q \in SUBSET Acceptor :
          /\ IsQuorum(Q)
          /\ \A a \in Q : VotedFor(a, s, c, w) \/ WontVoteIn(a, s, c)
    BY <1>2, <2>3 DEF SafeAt
  <2>5. PICK a \in Acceptor : a \in VotersFor(s, c, v) /\ a \in Q
    BY <2>4, VotersType, QuorumsIntersect
  <2>6. VotedFor(a, s, c, v)
    BY <2>5, VotersType
  <2>7. VotedFor(a, s, c, w)
    BY <2>4, <2>5, <2>6 DEF WontVoteIn, VotedIn
  <2> QED
    BY <2>6, <2>7, OneValuePerRound
<1> QED
  BY <1>1, <1>2

LEMMA SafetyChosenUnique == SafetyInv => ChosenUnique
<1> SUFFICES ASSUME SafetyInv, NEW s \in Slot, NEW v \in Value, NEW w \in Value,
                    Chosen(s, v), Chosen(s, w)
             PROVE  v = w
  BY DEF ChosenUnique
<1>1. NetTypeOK /\ VoteInv /\ AcceptInv
  BY DEF SafetyInv, TypeInv, TypeOK
<1>2. PICK m \in learns : IsQuorum(VotersFor(s, m.rnd, v))
  BY DEF Chosen
<1>3. PICK n \in learns : IsQuorum(VotersFor(s, n.rnd, w))
  BY DEF Chosen
<1>4. m.rnd \in OwnedRound /\ n.rnd \in OwnedRound
  BY <1>1 DEF NetTypeOK, LearnMsg
<1>5. RoundLess(m.rnd, n.rnd) \/ m.rnd = n.rnd \/ RoundLess(n.rnd, m.rnd)
  BY <1>4, OwnedRoundType, RoundOrder
<1> QED
  BY <1>1, <1>2, <1>3, <1>4, <1>5, LowerRoundWins

-----------------------------------------------------------------------------
(* Phase 1.                                                                *)

(* The reports that name a slot are votes: the padding names slot 0.       *)
LEMMA ReportedVote ==
    ASSUME NEW as \in AcceptorSlot, as.id \in Slot
    PROVE  as.vrnd \in OwnedRound /\ as.vval \in Value
<1>1. 0 \notin Slot
  BY BoundAssumption DEF Slot
<1>2. ZeroSlot.id = 0
  BY DEF ZeroSlot
<1>3. as # ZeroSlot
  BY <1>1, <1>2
<1> QED
  BY <1>3 DEF AcceptorSlot

(* A quorum of promises, one per acceptor, comes from a quorum.            *)
LEMMA QuorumOfPromises ==
    ASSUME NetTypeOK, NEW proms \in SUBSET promises, IsQuorum(proms),
           \A m1, m2 \in proms : m1.id = m2.id => m1 = m2
    PROVE  LET ids == {m.id : m \in proms}
           IN  ids \in SUBSET Acceptor /\ IsQuorum(ids)
<1> DEFINE ids == {m.id : m \in proms}
           f == [m \in proms |-> m.id]
<1>1. ids \in SUBSET Acceptor
  BY DEF NetTypeOK, PromiseMsg
<1>2. f \in Injection(proms, ids)
  BY DEF Injection, IsInjective
<1> HIDE DEF ids, f
<1>3. IsFiniteSet(ids) /\ Cardinality(ids) \in Nat
  BY <1>1, NodeAssumption, FS_Subset, FS_CardinalityType
<1>4. IsFiniteSet(proms) /\ Cardinality(proms) <= Cardinality(ids)
  BY <1>2, <1>3, FS_Injection
<1>5. Cardinality(proms) \in Nat /\ Quorum \in Nat
  BY <1>4, NodeAssumption, FS_CardinalityType DEF Quorum
<1>6. IsQuorum(ids)
  BY <1>3, <1>4, <1>5 DEF IsQuorum
<1> QED
  BY <1>1, <1>6 DEF ids

(* An acceptor that promised round r and voted for slot s in a round c     *)
(* below r reported that vote or a later one.                              *)
LEMMA PromiseReports ==
    ASSUME PromiseComplete, PromiseInv, PrepareInv, NetTypeOK, PropTypeOK,
           NEW p \in Proposer, NEW m \in promises, m.rnd = <<crnd[p], p>>,
           NEW s \in Slot, adu[p] < s,
           NEW c \in OwnedRound, RoundLess(c, m.rnd), VotedIn(m.id, s, c)
    PROVE  \E as \in m.accslots : as.id = s /\ ~RoundLess(as.vrnd, c)
<1>1. PICK q \in prepares : q.crnd = m.rnd
  BY DEF PromiseInv
<1>2. q.slot <= s
  <2>1. q.id = p
    BY <1>1 DEF PrepareInv
  <2>2. q.slot <= adu[p] /\ q.slot \in Int /\ adu[p] \in Int /\ s \in Int
    BY <1>1, <2>1 DEF PrepareInv, PropTypeOK, NetTypeOK, PrepareMsg, Slot
  <2> QED
    BY <2>2
<1>3. PICK w \in Value : VotedFor(m.id, s, c, w)
  BY DEF VotedIn
<1> DEFINE n == [id |-> m.id, rnd |-> c, slot |-> s, val |-> w]
<1>4. n \in learns
  BY <1>3 DEF VotedFor
<1> QED
  BY <1>1, <1>2, <1>4 DEF PromiseComplete

(* A quorum of promises for round r that reports no vote for slot s: any   *)
(* value is safe.                                                          *)
LEMMA SafeWhenNoVote ==
    ASSUME PromiseComplete, PromiseInv, PrepareInv, TypeOK,
           NEW p \in Proposer, NEW proms \in SUBSET promises,
           IsQuorum(proms),
           \A m1, m2 \in proms : m1.id = m2.id => m1 = m2,
           \A m \in proms : m.rnd = <<crnd[p], p>>,
           NEW s \in Slot, adu[p] < s, Reported(proms, s) = {},
           NEW v \in Value
    PROVE  SafeAt(s, <<crnd[p], p>>, v)
<1> DEFINE ids == {m.id : m \in proms}
           r == <<crnd[p], p>>
<1> SUFFICES ASSUME NEW c \in OwnedRound, RoundLess(c, r)
             PROVE  \A a \in ids : WontVoteIn(a, s, c)
  <2>1. ids \in SUBSET Acceptor /\ IsQuorum(ids)
    BY QuorumOfPromises DEF TypeOK
  <2> QED
    BY <2>1 DEF SafeAt
<1> SUFFICES ASSUME NEW m \in proms PROVE WontVoteIn(m.id, s, c)
  OBVIOUS
<1>1. m \in promises /\ m.rnd = r
  OBVIOUS
<1>2. RoundLess(c, aRnd[m.id])
  <2>1. /\ ~RoundLess(aRnd[m.id], r)
        /\ m.id \in Acceptor
        /\ r \in OwnedRound
    BY <1>1 DEF PromiseInv, TypeOK, NetTypeOK, PromiseMsg
  <2>2. aRnd[m.id] \in Round
    BY <2>1, OwnedRoundType DEF TypeOK, AccTypeOK, Round, ZeroRound
  <2> QED
    BY <2>1, <2>2, OwnedRoundType, RoundOrder
<1>3. ~VotedIn(m.id, s, c)
  <2> SUFFICES ASSUME VotedIn(m.id, s, c) PROVE FALSE
    OBVIOUS
  <2>1. PICK as \in m.accslots : as.id = s
    BY <1>1, PromiseReports DEF TypeOK
  <2> QED
    BY <2>1 DEF Reported
<1> QED
  BY <1>2, <1>3 DEF WontVoteIn

(* A quorum of promises for round r, none of which reports a vote for slot *)
(* s above round k, and an Accept of round k < r: its value is safe.       *)
LEMMA SafeWhenTopVote ==
    ASSUME PromiseComplete, PromiseInv, PrepareInv, VoteInv, AcceptInv, TypeOK,
           NEW p \in Proposer, NEW proms \in SUBSET promises,
           IsQuorum(proms),
           \A m1, m2 \in proms : m1.id = m2.id => m1 = m2,
           \A m \in proms : m.rnd = <<crnd[p], p>>,
           NEW s \in Slot, adu[p] < s,
           NEW acc \in accepts, acc.slot = s,
           RoundLess(acc.rnd, <<crnd[p], p>>),
           \A as \in Reported(proms, s) : ~RoundLess(acc.rnd, as.vrnd)
    PROVE  SafeAt(s, <<crnd[p], p>>, acc.val)
<1> DEFINE ids == {m.id : m \in proms}
           r == <<crnd[p], p>>
           k == acc.rnd
           v == acc.val
<1>1. k \in OwnedRound /\ v \in Value
  BY DEF TypeOK, NetTypeOK, AcceptMsg
<1>2. SafeAt(s, k, v)
  BY DEF AcceptInv
<1>3. ids \in SUBSET Acceptor /\ IsQuorum(ids)
  BY QuorumOfPromises DEF TypeOK
<1> SUFFICES ASSUME NEW c \in OwnedRound, RoundLess(c, r)
             PROVE  \E Q \in SUBSET Acceptor :
                        /\ IsQuorum(Q)
                        /\ \A a \in Q : VotedFor(a, s, c, v) \/ WontVoteIn(a, s, c)
  BY DEF SafeAt
<1>4. CASE RoundLess(c, k)
  BY <1>2, <1>4 DEF SafeAt
<1>5. ASSUME ~RoundLess(c, k), NEW m \in proms
      PROVE  VotedFor(m.id, s, c, v) \/ WontVoteIn(m.id, s, c)
  <2>1. m \in promises /\ m.rnd = r
    OBVIOUS
  <2>2. RoundLess(c, aRnd[m.id])
    <3>1. /\ ~RoundLess(aRnd[m.id], r)
          /\ m.id \in Acceptor
          /\ r \in OwnedRound
      BY <2>1 DEF PromiseInv, TypeOK, NetTypeOK, PromiseMsg
    <3>2. aRnd[m.id] \in Round
      BY <3>1, OwnedRoundType DEF TypeOK, AccTypeOK, Round, ZeroRound
    <3> QED
      BY <3>1, <3>2, OwnedRoundType, RoundOrder
  <2>3. CASE c = k
    <3>1. ASSUME NEW w \in Value, VotedFor(m.id, s, c, w) PROVE w = v
      <4>1. PICK b \in accepts : b.rnd = c /\ b.slot = s /\ b.val = w
        BY <3>1 DEF VoteInv, VotedFor
      <4> QED
        BY <2>3, <4>1 DEF AcceptInv
    <3> QED
      BY <2>2, <3>1 DEF WontVoteIn, VotedIn
  <2>4. CASE RoundLess(k, c)
    <3> SUFFICES ASSUME VotedIn(m.id, s, c) PROVE FALSE
      BY <2>2 DEF WontVoteIn
    <3>1. PICK as \in m.accslots : as.id = s /\ ~RoundLess(as.vrnd, c)
      BY <2>1, PromiseReports DEF TypeOK
    <3>2. as \in Reported(proms, s)
      BY <3>1 DEF Reported
    <3>3. as.vrnd \in OwnedRound
      <4>1. as \in AcceptorSlot
        BY <2>1 DEF TypeOK, NetTypeOK, PromiseMsg
      <4> QED
        BY <3>1, <4>1, ReportedVote
    <3> QED
      BY <1>1, <2>4, <3>1, <3>2, <3>3, OwnedRoundType, RoundOrder
  <2> QED
    BY <1>1, <1>5, <2>3, <2>4, OwnedRoundType, RoundOrder
<1> QED
  BY <1>3, <1>4, <1>5

(* What setStateFromPromises leaves in slot s: a value that is safe in the *)
(* new round, or nothing when every value is; and whatever is there was    *)
(* sent in an Accept.                                                      *)
LEMMA SetStateSafe ==
    ASSUME SafetyInv, NEW p \in Proposer, ~phaseOneDone[p],
           NEW proms \in SUBSET promises, IsQuorum(proms),
           \A m1, m2 \in proms : m1.id = m2.id => m1 = m2,
           \A m \in proms : m.rnd = <<crnd[p], p>>,
           NEW s \in Slot, NEW new,
           new = SetStateFromPromises(p, proms)[s]
    PROVE  /\ new # NoProposal =>
                  /\ ~RoundLess(<<crnd[p], p>>, new.rnd)
                  /\ \E m \in accepts : /\ m.rnd = new.rnd
                                        /\ m.slot = s
                                        /\ m.val = new.val
           /\ adu[p] < s =>
                  \A v \in Value : new = NoProposal \/ new.val = v
                      => SafeAt(s, <<crnd[p], p>>, v)
<1> DEFINE r == <<crnd[p], p>>
           old == proposal[p][s]
           votes == Reported(proms, s)
           top == TopVote(votes)
<1>1. /\ TypeOK /\ PromiseComplete /\ PromiseInv /\ PrepareInv
      /\ VoteInv /\ AcceptInv /\ ProposalInv
  BY DEF SafetyInv, TypeInv
<1>2. /\ proms \subseteq PromiseMsg
      /\ r \in OwnedRound
      /\ old \in Proposal \cup {NoProposal}
      /\ adu[p] \in Int
  <2>1. proms \subseteq PromiseMsg
    BY <1>1 DEF TypeOK, NetTypeOK
  <2>2. /\ crnd[p] \in 1..MaxRnd[p]
        /\ proposal[p] \in [Slot -> Proposal \cup {NoProposal}]
        /\ adu[p] \in 0..MaxSlot
    BY <1>1 DEF TypeOK, PropTypeOK
  <2>3. r \in OwnedRound
    BY <2>2, MyRound
  <2> QED
    BY <2>1, <2>2, <2>3
<1>3. new = IF \/ s <= adu[p]
               \/ votes = {}
               \/ old # NoProposal /\ ~RoundLess(old.rnd, top.vrnd)
            THEN old
            ELSE [rnd |-> top.vrnd, slot |-> 0, val |-> top.vval]
  BY DEF SetStateFromPromises
<1>4. votes # {} =>
        /\ top \in votes
        /\ top.vrnd \in OwnedRound
        /\ top.vval \in Value
        /\ \A w \in votes : ~RoundLess(top.vrnd, w.vrnd)
  BY <1>2, TopVoteIsMax
<1>5. old # NoProposal =>
        /\ old.rnd \in OwnedRound
        /\ RoundLess(old.rnd, r)
        /\ \E m \in accepts : /\ m.rnd = old.rnd
                              /\ m.slot = s
                              /\ m.val = old.val
  <2> SUFFICES ASSUME old # NoProposal
               PROVE  /\ old.rnd \in OwnedRound
                      /\ RoundLess(old.rnd, r)
                      /\ \E m \in accepts : /\ m.rnd = old.rnd
                                            /\ m.slot = s
                                            /\ m.val = old.val
    OBVIOUS
  <2>1. PICK m \in accepts : m.rnd = old.rnd /\ m.slot = s /\ m.val = old.val
    <3>1. \A x \in Proposer, y \in Slot :
            proposal[x][y] # NoProposal =>
              \E m \in accepts : /\ m.rnd = proposal[x][y].rnd
                                 /\ m.slot = y
                                 /\ m.val = proposal[x][y].val
      BY <1>1, Zenon DEF ProposalInv
    <3> QED
      BY <3>1
  <2>2. old.rnd \in OwnedRound
    BY <1>2 DEF Proposal
  <2>3. old.rnd # r
    <3> SUFFICES ASSUME old.rnd = r PROVE FALSE
      OBVIOUS
    <3>1. m.rnd[1] = crnd[p] /\ m.rnd[2] = p
      BY <2>1
    <3> QED
      BY <1>1, <3>1 DEF AcceptInv
  <2>4. ~RoundLess(r, old.rnd)
    BY <1>1 DEF ProposalInv
  <2>5. RoundLess(old.rnd, r)
    BY <1>2, <2>2, <2>3, <2>4, OwnedRoundType, RoundOrder
  <2> QED
    BY <2>1, <2>2, <2>5
<1>6. votes # {} =>
        /\ RoundLess(top.vrnd, r)
        /\ \E m \in accepts : /\ m.rnd = top.vrnd
                              /\ m.slot = s
                              /\ m.val = top.vval
  <2> SUFFICES ASSUME votes # {}
               PROVE  /\ RoundLess(top.vrnd, r)
                      /\ \E m \in accepts : /\ m.rnd = top.vrnd
                                            /\ m.slot = s
                                            /\ m.val = top.vval
    OBVIOUS
  <2>1. PICK m \in proms : top \in m.accslots /\ top.id = s
    BY <1>4 DEF Reported
  <2>2. VotedFor(m.id, s, top.vrnd, top.vval) /\ RoundLess(top.vrnd, r)
    BY <1>1, <2>1 DEF PromiseInv
  <2> QED
    BY <1>1, <2>2 DEF VoteInv, VotedFor
<1> HIDE DEF top, votes, old, r
<1>7. new # NoProposal =>
         /\ ~RoundLess(r, new.rnd)
         /\ \E m \in accepts : m.rnd = new.rnd /\ m.slot = s /\ m.val = new.val
  BY <1>2, <1>3, <1>4, <1>5, <1>6, OwnedRoundType, RoundOrder
<1>8. ASSUME adu[p] < s, NEW v \in Value, new = NoProposal \/ new.val = v
      PROVE  SafeAt(s, r, v)
  <2>1. ~(s <= adu[p])
    BY <1>2, <1>8 DEF Slot
  <2>2. CASE old = NoProposal /\ votes = {}
    BY <1>1, <1>8, <2>2, SafeWhenNoVote DEF votes, r
  <2>3. ASSUME NEW acc \in accepts, acc.slot = s, acc.val = v,
               RoundLess(acc.rnd, r),
               \A as \in votes : ~RoundLess(acc.rnd, as.vrnd)
        PROVE  SafeAt(s, r, v)
    BY <1>1, <1>8, <2>3, SafeWhenTopVote DEF votes, r
  <2>4. CASE new = old /\ old # NoProposal
    <3>1. \A as \in votes : ~RoundLess(old.rnd, as.vrnd)
      <4> SUFFICES ASSUME NEW as \in votes PROVE ~RoundLess(old.rnd, as.vrnd)
        OBVIOUS
      <4>1. as.vrnd \in OwnedRound
        <5>1. PICK m \in proms : as \in m.accslots /\ as.id = s
          BY DEF votes, Reported
        <5>2. as \in AcceptorSlot
          BY <1>2, <5>1 DEF PromiseMsg
        <5> QED
          BY <5>1, <5>2, ReportedVote
      <4>2. ~RoundLess(old.rnd, top.vrnd)
        <5> SUFFICES ASSUME RoundLess(old.rnd, top.vrnd) PROVE FALSE
          OBVIOUS
        <5>1. new = [rnd |-> top.vrnd, slot |-> 0, val |-> top.vval]
          BY <1>3, <2>1
        <5>2. old.rnd = top.vrnd
          BY <2>4, <5>1
        <5> QED
          BY <1>5, <2>4, <5>2, OwnedRoundType, RoundOrder
      <4> QED
        BY <1>4, <1>5, <2>4, <4>1, <4>2, OwnedRoundType, RoundOrder
    <3>2. old.val = v
      BY <1>8, <2>4
    <3> QED
      BY <1>5, <2>3, <2>4, <3>1, <3>2
  <2>5. CASE new # old
    <3>1. /\ votes # {}
          /\ new = [rnd |-> top.vrnd, slot |-> 0, val |-> top.vval]
      BY <1>3, <2>5
    <3>2. new # NoProposal
      BY <1>4, <3>1, ValueAssumption DEF NoProposal
    <3>3. top.vval = v
      BY <1>8, <3>1, <3>2
    <3> QED
      BY <1>4, <1>6, <2>3, <3>1, <3>3
  <2>6. CASE new = old /\ old = NoProposal /\ votes # {}
    <3>1. new = [rnd |-> top.vrnd, slot |-> 0, val |-> top.vval]
      BY <1>3, <2>1, <2>6
    <3> QED
      BY <1>4, <2>6, <3>1, ValueAssumption DEF NoProposal
  <2> QED
    BY <2>2, <2>4, <2>5, <2>6
<1> QED
  BY <1>7, <1>8 DEF r

-----------------------------------------------------------------------------
(* Phase 2.                                                                *)

LEMMA SafeUnchanged ==
    ASSUME UNCHANGED <<learns, aRnd>>, NEW s, NEW r, NEW v
    PROVE  SafeAt(s, r, v)' <=> SafeAt(s, r, v)
BY DEF SafeAt, VotedFor, VotedIn, WontVoteIn

(* sendAccept keeps AcceptInv and ProposalInv, when it starts above every  *)
(* Accept of the current round and what it finds in the slots is safe.     *)
LEMMA SendAcceptSafe ==
    ASSUME TypeOK, AcceptInv, ProposalInv, NEW p \in Proposer,
           NEW prop \in [Slot -> Proposal \cup {NoProposal}],
           NEW ns \in 1..(MaxSlot + 1), NEW ad, NEW q \in Seq(Value),
           SendAccept(p, prop, ad, ns, q),
           UNCHANGED <<crnd, learns, aRnd>>,
           phaseOneDone'[p],
           \A x \in Proposer \ {p} : phaseOneDone'[x] = phaseOneDone[x],
           \A m \in accepts : m.rnd = <<crnd[p], p>> => m.slot < ns,
           \A s \in Slot : prop[s] # NoProposal =>
               /\ ~RoundLess(<<crnd[p], p>>, prop[s].rnd)
               /\ \E m \in accepts : /\ m.rnd = prop[s].rnd
                                     /\ m.slot = s
                                     /\ m.val = prop[s].val,
           \A s \in Slot : ns <= s =>
               \A v \in Value : prop[s] = NoProposal \/ prop[s].val = v
                   => SafeAt(s, <<crnd[p], p>>, v)
    PROVE  AcceptInv' /\ ProposalInv'
<1> DEFINE r == <<crnd[p], p>>
           val(s) == AcceptVal(prop, ns, q, s)
           acc(s) == [id |-> p, rnd |-> r, slot |-> s, val |-> val(s)]
<1>1. PICK last \in (ns - 1)..MaxSlot :
        /\ Sendable(prop, ad, ns, q) = ns..last
        /\ nextSlot' = [nextSlot EXCEPT ![p] = last + 1]
        /\ proposal' = [proposal EXCEPT ![p] =
             [s \in Slot |->
                IF s \in ns..last
                THEN [rnd |-> r, slot |-> s, val |-> val(s)]
                ELSE prop[s]]]
        /\ accepts' = accepts \cup {acc(s) : s \in ns..last}
  BY DEF SendAccept
<1>2. /\ ns \in Int /\ last \in Int /\ MaxSlot \in Int
      /\ ns <= last + 1
      /\ p \in Nat /\ crnd[p] \in Nat
      /\ r \in OwnedRound /\ r \in Round
  <2>1. ns \in Int /\ last \in Int /\ MaxSlot \in Int /\ ns <= last + 1
    BY BoundAssumption
  <2>2. p \in Nat /\ crnd[p] \in Nat /\ crnd[p] \in 1..MaxRnd[p]
    BY NodeAssumption DEF TypeOK, PropTypeOK
  <2>3. r \in OwnedRound
    BY <2>2, MyRound
  <2>4. r \in Round
    BY <2>3, OwnedRoundType
  <2> QED
    BY <2>1, <2>2, <2>3, <2>4
<1>3. ASSUME NEW s \in ns..last
      PROVE  s \in Slot /\ val(s) \in Value /\ SafeAt(s, r, val(s))'
  <2>1. s \in Slot /\ val(s) \in Value
    BY <1>1, <1>3, AcceptValType
  <2>2. prop[s] = NoProposal \/ prop[s].val = val(s)
    BY DEF AcceptVal
  <2>3. ns <= s
    BY <1>2
  <2>4. SafeAt(s, r, val(s))
    BY <2>1, <2>2, <2>3
  <2> QED
    BY <2>1, <2>4, SafeUnchanged
<1>4. ASSUME NEW m \in accepts
      PROVE  /\ m.rnd[2] = m.id /\ m.id \in Proposer
             /\ m.rnd[1] <= crnd'[m.id]
             /\ m.rnd[1] = crnd'[m.id] =>
                    phaseOneDone'[m.id] /\ m.slot < nextSlot'[m.id]
             /\ SafeAt(m.slot, m.rnd, m.val)'
  <2>1. /\ m.rnd[2] = m.id /\ m.id \in Proposer
        /\ m.rnd[1] <= crnd[m.id]
        /\ m.rnd[1] = crnd[m.id] =>
               phaseOneDone[m.id] /\ m.slot < nextSlot[m.id]
        /\ SafeAt(m.slot, m.rnd, m.val)
        /\ m.rnd \in OwnedRound /\ m.slot \in Int
    BY DEF AcceptInv, TypeOK, NetTypeOK, AcceptMsg, Slot
  <2>2. CASE m.id = p
    <3>1. m.rnd[1] = crnd[p] => m.rnd = r
      BY <2>1, <2>2, OwnedRoundType
    <3>2. nextSlot'[p] = last + 1
      BY <1>1 DEF TypeOK, PropTypeOK
    <3> QED
      BY <1>2, <2>1, <2>2, <3>1, <3>2, SafeUnchanged
  <2>3. CASE m.id # p
    <3>1. nextSlot'[m.id] = nextSlot[m.id]
      BY <1>1, <2>1, <2>3 DEF TypeOK, PropTypeOK
    <3> QED
      BY <2>1, <2>3, <3>1, SafeUnchanged
  <2> QED
    BY <2>2, <2>3
<1>5. ASSUME NEW s \in ns..last
      PROVE  /\ acc(s).rnd[2] = acc(s).id
             /\ acc(s).rnd[1] <= crnd'[acc(s).id]
             /\ phaseOneDone'[acc(s).id] /\ acc(s).slot < nextSlot'[acc(s).id]
             /\ SafeAt(acc(s).slot, acc(s).rnd, acc(s).val)'
  <2>1. nextSlot'[p] = last + 1
    BY <1>1 DEF TypeOK, PropTypeOK
  <2>2. s < last + 1
    BY <1>2
  <2> QED
    BY <1>2, <1>3, <2>1, <2>2
<1>6. ASSUME NEW m \in accepts', NEW k \in accepts',
             k.rnd = m.rnd, k.slot = m.slot
      PROVE  k.val = m.val
  <2>1. CASE m \in accepts /\ k \in accepts
    BY <1>6, <2>1 DEF AcceptInv
  <2>2. ASSUME NEW x \in accepts, NEW s \in ns..last,
               x.rnd = r, x.slot = s
        PROVE  FALSE
    BY <1>2, <2>2
  <2>3. \A s \in ns..last : acc(s).rnd = r /\ acc(s).slot = s
    OBVIOUS
  <2>4. ASSUME NEW s \in ns..last, m = acc(s) PROVE k.val = m.val
    <3>1. k.rnd = r /\ k.slot = s
      BY <1>6, <2>3, <2>4
    <3>2. PICK u \in ns..last : k = acc(u)
      BY <1>1, <2>2, <3>1
    <3>3. u = s
      BY <2>3, <3>1, <3>2
    <3> QED
      BY <2>4, <3>2, <3>3
  <2>5. ASSUME NEW u \in ns..last, k = acc(u) PROVE k.val = m.val
    <3>1. m.rnd = r /\ m.slot = u
      BY <1>6, <2>3, <2>5
    <3>2. m \notin accepts
      BY <2>2, <3>1
    <3>3. PICK s \in ns..last : m = acc(s)
      BY <1>1, <3>2
    <3> QED
      BY <2>4, <3>3
  <2> HIDE DEF acc
  <2> QED
    BY <1>1, <2>1, <2>4, <2>5
<1>7. AcceptInv'
  <2> SUFFICES ASSUME NEW m \in accepts'
               PROVE  /\ m.rnd[2] = m.id
                      /\ m.rnd[1] <= crnd'[m.id]
                      /\ m.rnd[1] = crnd'[m.id] =>
                             phaseOneDone'[m.id] /\ m.slot < nextSlot'[m.id]
                      /\ SafeAt(m.slot, m.rnd, m.val)'
    BY <1>6 DEF AcceptInv
  <2>1. CASE m \in accepts
    BY <1>4, <2>1
  <2>2. CASE \E s \in ns..last : m = acc(s)
    BY <1>5, <2>2
  <2> QED
    BY <1>1, <2>1, <2>2
<1>8. ProposalInv'
  <2> SUFFICES ASSUME NEW x \in Proposer, NEW s \in Slot
               PROVE
        /\ proposal'[x][s] # NoProposal =>
               /\ ~RoundLess(<<crnd'[x], x>>, proposal'[x][s].rnd)
               /\ \E m \in accepts' : /\ m.rnd = proposal'[x][s].rnd
                                      /\ m.slot = s
                                      /\ m.val = proposal'[x][s].val
        /\ phaseOneDone'[x] /\ nextSlot'[x] <= s =>
               \A v \in Value :
                   proposal'[x][s] = NoProposal \/ proposal'[x][s].val = v
                       => SafeAt(s, <<crnd[x], x>>, v)'
    BY DEF ProposalInv
  <2>1. CASE x # p
    <3>1. /\ proposal'[x] = proposal[x] /\ nextSlot'[x] = nextSlot[x]
          /\ phaseOneDone'[x] = phaseOneDone[x]
      BY <1>1, <2>1 DEF TypeOK, PropTypeOK
    <3>2. accepts \subseteq accepts'
      BY <1>1
    <3> QED
      BY <3>1, <3>2, SafeUnchanged DEF ProposalInv
  <2>2. CASE x = p /\ s \in ns..last
    <3>1. /\ proposal'[p][s] = [rnd |-> r, slot |-> s, val |-> val(s)]
          /\ nextSlot'[p] = last + 1
      BY <1>1, <2>2 DEF TypeOK, PropTypeOK
    <3>2. acc(s) \in accepts'
      BY <1>1, <2>2
    <3>3. ~(last + 1 <= s)
      BY <1>2, <2>2
    <3>4. ~RoundLess(r, r)
      BY <1>2, RoundOrder
    <3>5. \E m \in accepts' : m.rnd = r /\ m.slot = s /\ m.val = val(s)
      BY <3>2
    <3>6. proposal'[x][s].rnd = r /\ proposal'[x][s].val = val(s)
      BY <2>2, <3>1
    <3>7. <<crnd'[x], x>> = r /\ ~(nextSlot'[x] <= s)
      BY <2>2, <3>1, <3>3
    <3> HIDE DEF val, acc, r
    <3> QED
      BY <3>4, <3>5, <3>6, <3>7
  <2>3. CASE x = p /\ s \notin ns..last
    <3>1. proposal'[p][s] = prop[s] /\ nextSlot'[p] = last + 1
      BY <1>1, <2>3 DEF TypeOK, PropTypeOK
    <3>2. accepts \subseteq accepts'
      BY <1>1
    <3>3. last + 1 <= s => ns <= s
      BY <1>2 DEF Slot
    <3>4. \A v \in Value : SafeAt(s, r, v)' <=> SafeAt(s, r, v)
      BY SafeUnchanged
    <3>5. <<crnd'[x], x>> = r
      BY <2>3
    <3>6. proposal'[x][s] # NoProposal =>
            /\ ~RoundLess(<<crnd'[x], x>>, proposal'[x][s].rnd)
            /\ \E m \in accepts' : /\ m.rnd = proposal'[x][s].rnd
                                   /\ m.slot = s
                                   /\ m.val = proposal'[x][s].val
      BY <2>3, <3>1, <3>2, <3>5
    <3> QED
      BY <2>3, <3>1, <3>3, <3>4, <3>5, <3>6
  <2> QED
    BY <2>1, <2>2, <2>3
<1> QED
  BY <1>7, <1>8

-----------------------------------------------------------------------------
(* The steps of the proposer.                                              *)

(* A step that sends neither a Prepare nor a Promise nor a Learn.          *)
LEMMA QuietNetwork ==
    ASSUME SafetyInv, TypeInv',
           UNCHANGED <<prepares, promises, learns, accVars>>,
           accepts \subseteq accepts',
           \A x \in Proposer : crnd[x] <= crnd'[x] /\ adu[x] <= adu'[x]
    PROVE  PrepareInv' /\ PromiseInv' /\ PromiseComplete' /\ VoteInv'
<1>1. PrepareInv'
  <2> SUFFICES ASSUME NEW q \in prepares
               PROVE  q.crnd[1] <= crnd'[q.id] /\ q.slot <= adu'[q.id]
    BY DEF SafetyInv, PrepareInv
  <2>1. /\ q.crnd[1] <= crnd[q.id] /\ q.slot <= adu[q.id]
        /\ q.id \in Proposer /\ q.slot \in Int /\ q.crnd \in OwnedRound
    BY DEF SafetyInv, PrepareInv, TypeInv, TypeOK, NetTypeOK, PrepareMsg
  <2>2. /\ crnd[q.id] \in Int /\ crnd'[q.id] \in Int
        /\ adu[q.id] \in Int /\ adu'[q.id] \in Int
    BY <2>1 DEF SafetyInv, TypeInv, TypeOK, PropTypeOK
  <2>3. q.crnd[1] \in Int
    BY <2>1, OwnedRoundType DEF Round
  <2> QED
    BY <2>1, <2>2, <2>3
<1>2. PromiseInv'
  BY DEF SafetyInv, PromiseInv, VotedFor, accVars
<1>3. PromiseComplete'
  BY DEF SafetyInv, PromiseComplete
<1>4. VoteInv'
  BY DEF SafetyInv, VoteInv, VotedFor, accVars
<1> QED
  BY <1>1, <1>2, <1>3, <1>4

(* A step that leaves the Accepts and the proposals alone.                 *)
LEMMA QuietProposals ==
    ASSUME SafetyInv, TypeInv', VotesGrow,
           UNCHANGED <<accepts, proposal, nextSlot, crnd, phaseOneDone>>
    PROVE  AcceptInv' /\ ProposalInv'
<1>1. /\ AccTypeOK /\ AccTypeOK' /\ NetTypeOK /\ PropTypeOK
      /\ AcceptInv /\ ProposalInv
  BY DEF SafetyInv, TypeInv, TypeOK
<1>2. AcceptInv'
  <2> SUFFICES ASSUME NEW m \in accepts PROVE SafeAt(m.slot, m.rnd, m.val)'
    BY <1>1 DEF AcceptInv
  <2>1. m.slot \in Slot /\ m.rnd \in OwnedRound /\ m.val \in Value
    BY <1>1 DEF NetTypeOK, AcceptMsg
  <2>2. SafeAt(m.slot, m.rnd, m.val)
    BY <1>1 DEF AcceptInv
  <2> QED
    BY <1>1, <2>1, <2>2, SafeStable
<1>3. ProposalInv'
  <2> SUFFICES ASSUME NEW x \in Proposer, NEW s \in Slot, NEW v \in Value,
                      SafeAt(s, <<crnd[x], x>>, v)
               PROVE  SafeAt(s, <<crnd[x], x>>, v)'
    BY <1>1 DEF ProposalInv
  <2>1. <<crnd[x], x>> \in OwnedRound
    BY <1>1, MyRound DEF PropTypeOK
  <2> QED
    BY <1>1, <2>1, SafeStable
<1> QED
  BY <1>2, <1>3

(* startPhaseOne: nothing of the new round exists yet.                     *)
LEMMA StartPhaseOneSafe ==
    ASSUME SafetyInv, TypeInv', NEW p \in Proposer, StartPhaseOne(p),
           UNCHANGED <<accepts, promises, learns, adu, nextSlot, proposal,
                       accVars>>
    PROVE  SafetyInv'
<1> DEFINE new == [id |-> p, crnd |-> <<crnd[p] + 1, p>>, slot |-> adu[p]]
<1>1. /\ NetTypeOK /\ PropTypeOK /\ PrepareInv /\ PromiseInv
      /\ PromiseComplete /\ VoteInv /\ AcceptInv /\ GatherInv /\ ProposalInv
  BY DEF SafetyInv, TypeInv, TypeOK
<1>2. /\ prepares' = prepares \cup {new}
      /\ crnd' = [crnd EXCEPT ![p] = @ + 1]
      /\ phaseOneDone' = [phaseOneDone EXCEPT ![p] = FALSE]
      /\ p1Promises' = [p1Promises EXCEPT ![p] = {}]
  BY DEF StartPhaseOne
<1>3. /\ crnd'[p] = crnd[p] + 1 /\ crnd[p] \in Int
      /\ \A x \in Proposer : x # p => crnd'[x] = crnd[x]
      /\ ~phaseOneDone'[p]
      /\ \A x \in Proposer : x # p => phaseOneDone'[x] = phaseOneDone[x]
      /\ \A x \in Proposer : crnd[x] \in Int /\ adu[x] \in Int
  BY <1>1, <1>2 DEF PropTypeOK
<1>4. \A q \in prepares : /\ q.id \in Proposer /\ q.crnd \in OwnedRound
                          /\ q.crnd[1] \in Int
  BY <1>1, OwnedRoundType DEF NetTypeOK, PrepareMsg, Round
<1>5. \A q \in prepares : q.crnd # new.crnd
  <2> SUFFICES ASSUME NEW q \in prepares, q.crnd = new.crnd PROVE FALSE
    OBVIOUS
  <2>1. q.id = p /\ q.crnd[1] = crnd[p] + 1
    BY <1>1 DEF PrepareInv
  <2> QED
    BY <1>1, <1>3, <2>1 DEF PrepareInv
<1>6. PrepareInv'
  <2> SUFFICES ASSUME NEW q \in prepares'
               PROVE  /\ q.crnd[2] = q.id
                      /\ q.crnd[1] <= crnd'[q.id]
                      /\ q.slot <= adu[q.id]
                      /\ \A q2 \in prepares' : q2.crnd = q.crnd => q2 = q
    BY DEF PrepareInv
  <2>1. CASE q = new
    <3>1. \A q2 \in prepares' : q2.crnd = q.crnd => q2 = q
      BY <1>2, <1>5, <2>1
    <3> QED
      BY <1>3, <2>1, <3>1
  <2>2. CASE q \in prepares
    <3>1. \A q2 \in prepares' : q2.crnd = q.crnd => q2 = q
      BY <1>1, <1>2, <1>5, <2>2 DEF PrepareInv
    <3>2. q.crnd[1] <= crnd'[q.id]
      BY <1>1, <1>3, <1>4, <2>2 DEF PrepareInv
    <3> QED
      BY <1>1, <2>2, <3>1, <3>2 DEF PrepareInv
  <2> QED
    BY <1>2, <2>1, <2>2
<1>7. PromiseInv'
  BY <1>1, <1>2 DEF PromiseInv, VotedFor, accVars
<1>8. PromiseComplete'
  <2> SUFFICES ASSUME NEW m \in promises, NEW q \in prepares', NEW n \in learns,
                      q.crnd = m.rnd, n.id = m.id, q.slot <= n.slot,
                      RoundLess(n.rnd, m.rnd)
               PROVE  \E as \in m.accslots :
                          as.id = n.slot /\ ~RoundLess(as.vrnd, n.rnd)
    BY DEF PromiseComplete
  <2>1. q # new
    BY <1>1, <1>5 DEF PromiseInv
  <2> QED
    BY <1>1, <1>2, <2>1 DEF PromiseComplete
<1>9. VoteInv'
  BY <1>1 DEF VoteInv, VotedFor, accVars
<1>10. AcceptInv'
  <2> SUFFICES ASSUME NEW m \in accepts
               PROVE  /\ m.rnd[1] <= crnd'[m.id]
                      /\ m.rnd[1] = crnd'[m.id] =>
                             phaseOneDone'[m.id] /\ m.slot < nextSlot[m.id]
                      /\ SafeAt(m.slot, m.rnd, m.val)'
    BY <1>1 DEF AcceptInv
  <2>1. /\ m.rnd[1] <= crnd[m.id]
        /\ m.rnd[1] = crnd[m.id] =>
               phaseOneDone[m.id] /\ m.slot < nextSlot[m.id]
        /\ SafeAt(m.slot, m.rnd, m.val)
        /\ m.id \in Proposer /\ m.rnd \in OwnedRound
    BY <1>1 DEF AcceptInv, NetTypeOK, AcceptMsg
  <2>2. m.rnd[1] \in Int
    BY <2>1, OwnedRoundType DEF Round
  <2>3. SafeAt(m.slot, m.rnd, m.val)'
    BY <2>1, SafeUnchanged DEF accVars
  <2> QED
    BY <1>3, <2>1, <2>2, <2>3
<1>11. GatherInv'
  <2> SUFFICES ASSUME NEW x \in Proposer
               PROVE  /\ \A m \in p1Promises'[x] : m.rnd = <<crnd'[x], x>>
                      /\ \A m1, m2 \in p1Promises'[x] : m1.id = m2.id => m1 = m2
    BY DEF GatherInv
  <2>1. CASE x = p
    BY <1>1, <1>2, <2>1 DEF PropTypeOK
  <2>2. CASE x # p
    BY <1>1, <1>2, <1>3, <2>2 DEF PropTypeOK, GatherInv
  <2> QED
    BY <2>1, <2>2
<1>12. ProposalInv'
  <2> SUFFICES ASSUME NEW x \in Proposer, NEW s \in Slot
               PROVE
        /\ proposal'[x][s] # NoProposal =>
               /\ ~RoundLess(<<crnd'[x], x>>, proposal'[x][s].rnd)
               /\ \E m \in accepts' : /\ m.rnd = proposal'[x][s].rnd
                                      /\ m.slot = s
                                      /\ m.val = proposal'[x][s].val
        /\ phaseOneDone'[x] /\ nextSlot'[x] <= s =>
               \A v \in Value :
                   proposal'[x][s] = NoProposal \/ proposal'[x][s].val = v
                       => SafeAt(s, <<crnd[x], x>>, v)'
    BY DEF ProposalInv
  <2> SUFFICES
        /\ proposal[x][s] # NoProposal =>
               /\ ~RoundLess(<<crnd'[x], x>>, proposal[x][s].rnd)
               /\ \E m \in accepts : /\ m.rnd = proposal[x][s].rnd
                                     /\ m.slot = s
                                     /\ m.val = proposal[x][s].val
        /\ phaseOneDone'[x] /\ nextSlot[x] <= s =>
               \A v \in Value :
                   proposal[x][s] = NoProposal \/ proposal[x][s].val = v
                       => SafeAt(s, <<crnd[x], x>>, v)'
    OBVIOUS
  <2>1. CASE x # p
    <3>1. crnd'[x] = crnd[x] /\ phaseOneDone'[x] = phaseOneDone[x]
      BY <1>3, <2>1
    <3>2. \A v \in Value : SafeAt(s, <<crnd[x], x>>, v)
                             => SafeAt(s, <<crnd[x], x>>, v)'
      BY <3>1, SafeUnchanged DEF accVars
    <3> QED
      BY <1>1, <3>1, <3>2 DEF ProposalInv
  <2>2. CASE x = p
    <3>1. proposal[p][s] # NoProposal => proposal[p][s].rnd \in Round
      BY <1>1, OwnedRoundType DEF PropTypeOK, Proposal
    <3>2. /\ <<crnd[p], p>> \in Round /\ <<crnd'[p], p>> \in Round
          /\ RoundLess(<<crnd[p], p>>, <<crnd'[p], p>>)
      BY <1>1, <1>3, NodeAssumption DEF Round, RoundLess, PropTypeOK
    <3>3. proposal[p][s] # NoProposal =>
             ~RoundLess(<<crnd'[p], p>>, proposal[p][s].rnd)
      BY <1>1, <3>1, <3>2, RoundOrder DEF ProposalInv
    <3> QED
      BY <1>1, <1>3, <2>2, <3>3 DEF ProposalInv
  <2> QED
    BY <2>1, <2>2
<1> QED
  BY <1>6, <1>7, <1>8, <1>9, <1>10, <1>11, <1>12 DEF SafetyInv

(* What a resend broadcasts has been sent before.                          *)
LEMMA RetainedSent ==
    ASSUME SafetyInv, NEW p \in Proposer, phaseOneDone[p],
           NEW S \in SUBSET AlphaWindow(p)
    PROVE  Retained(p, S) \subseteq accepts
<1> SUFFICES ASSUME NEW s \in S
             PROVE  [id |-> p, rnd |-> proposal[p][s].rnd,
                     slot |-> proposal[p][s].slot,
                     val |-> proposal[p][s].val] \in accepts
  BY DEF Retained
<1>1. s \in AlphaWindow(p) /\ s \in Slot
  BY DEF AlphaWindow
<1>2. /\ proposal[p][s] # NoProposal
      /\ proposal[p][s].rnd = <<crnd[p], p>>
      /\ proposal[p][s].slot = s
  BY <1>1 DEF SafetyInv, TypeInv, WindowRetained
<1>3. PICK m \in accepts : /\ m.rnd = proposal[p][s].rnd
                           /\ m.slot = s
                           /\ m.val = proposal[p][s].val
  BY <1>1, <1>2 DEF SafetyInv, ProposalInv
<1>4. m.id = p
  BY <1>2, <1>3 DEF SafetyInv, AcceptInv
<1>5. m = [id |-> m.id, rnd |-> m.rnd, slot |-> m.slot, val |-> m.val]
  BY DEF SafetyInv, TypeInv, TypeOK, NetTypeOK, AcceptMsg
<1> QED
  BY <1>2, <1>3, <1>4, <1>5

(* A step that continues Phase 2 of the current round.                     *)
LEMMA ContinuePhaseTwo ==
    ASSUME SafetyInv, TypeInv', NEW p \in Proposer, phaseOneDone[p],
           NEW ad, NEW q \in Seq(Value),
           SendAccept(p, proposal[p], ad, nextSlot[p], q),
           UNCHANGED <<crnd, p1Promises, phaseOneDone, prepares, promises,
                       learns, accVars>>,
           \A x \in Proposer : adu[x] <= adu'[x]
    PROVE  SafetyInv'
<1>1. TypeOK /\ AcceptInv /\ ProposalInv /\ GatherInv
  BY DEF SafetyInv, TypeInv
<1>2. /\ proposal[p] \in [Slot -> Proposal \cup {NoProposal}]
      /\ nextSlot[p] \in 1..(MaxSlot + 1)
      /\ \A x \in Proposer : crnd[x] <= crnd'[x]
  BY <1>1 DEF TypeOK, PropTypeOK
<1>3. \A m \in accepts : m.rnd = <<crnd[p], p>> => m.slot < nextSlot[p]
  BY <1>1 DEF AcceptInv
<1>4. \A s \in Slot : proposal[p][s] # NoProposal =>
          /\ ~RoundLess(<<crnd[p], p>>, proposal[p][s].rnd)
          /\ \E m \in accepts : /\ m.rnd = proposal[p][s].rnd
                                /\ m.slot = s
                                /\ m.val = proposal[p][s].val
  BY <1>1 DEF ProposalInv
<1>5. \A s \in Slot : nextSlot[p] <= s =>
          \A v \in Value : proposal[p][s] = NoProposal \/ proposal[p][s].val = v
              => SafeAt(s, <<crnd[p], p>>, v)
  BY <1>1 DEF ProposalInv
<1>6. UNCHANGED <<crnd, learns, aRnd>>
  BY DEF accVars
<1>7. AcceptInv' /\ ProposalInv'
  BY <1>1, <1>2, <1>3, <1>4, <1>5, <1>6, SendAcceptSafe
<1>8. accepts \subseteq accepts'
  BY DEF SendAccept
<1>9. PrepareInv' /\ PromiseInv' /\ PromiseComplete' /\ VoteInv'
  BY <1>2, <1>8, QuietNetwork
<1>10. GatherInv'
  BY <1>1 DEF GatherInv
<1> QED
  BY <1>7, <1>9, <1>10 DEF SafetyInv

(* A step of the proposer that touches neither rounds nor proposals.       *)
LEMMA QuietProposer ==
    ASSUME SafetyInv, TypeInv',
           UNCHANGED <<crnd, nextSlot, proposal, p1Promises, phaseOneDone,
                       prepares, promises, accepts, learns, accVars>>,
           \A x \in Proposer : adu[x] <= adu'[x]
    PROVE  SafetyInv'
<1>1. /\ PropTypeOK /\ AccTypeOK /\ GatherInv
  BY DEF SafetyInv, TypeInv, TypeOK
<1>2. VotesGrow
  <2>1. \A a \in Acceptor : aRnd[a] \in Round
    BY <1>1, OwnedRoundType DEF AccTypeOK, Round, ZeroRound
  <2> QED
    BY <2>1, RoundOrder DEF VotesGrow, accVars
<1>3. AcceptInv' /\ ProposalInv'
  BY <1>2, QuietProposals
<1>4. \A x \in Proposer : crnd[x] <= crnd'[x]
  BY <1>1 DEF PropTypeOK
<1>5. PrepareInv' /\ PromiseInv' /\ PromiseComplete' /\ VoteInv'
  BY <1>4, QuietNetwork
<1>6. GatherInv'
  BY <1>1 DEF GatherInv
<1> QED
  BY <1>3, <1>5, <1>6 DEF SafetyInv

(* handleProm, and the start of Phase 2 when a quorum has promised.        *)
LEMMA PromiseSafe ==
    ASSUME SafetyInv, TypeInv', NEW p \in Proposer, NEW m \in promises,
           HandlePromise(p, m), UNCHANGED accVars
    PROVE  SafetyInv'
<1> DEFINE proms == p1Promises[p] \cup {m}
           prop == SetStateFromPromises(p, proms)
<1>1. /\ TypeOK /\ PropTypeOK /\ AcceptInv /\ ProposalInv /\ GatherInv
  BY DEF SafetyInv, TypeInv, TypeOK
<1>2. /\ ~phaseOneDone[p]
      /\ m.rnd = <<crnd[p], p>>
      /\ \A n \in p1Promises[p] : n.id # m.id
      /\ p1Promises' = [p1Promises EXCEPT ![p] = proms]
      /\ UNCHANGED <<crnd, adu, prepares, promises, learns>>
  BY DEF HandlePromise
<1>3. proms \in SUBSET promises
  BY <1>1 DEF PropTypeOK
<1>4. /\ \A n \in proms : n.rnd = <<crnd[p], p>>
      /\ \A m1, m2 \in proms : m1.id = m2.id => m1 = m2
  BY <1>1, <1>2 DEF GatherInv
<1>5. GatherInv'
  <2> SUFFICES ASSUME NEW x \in Proposer
               PROVE  /\ \A n \in p1Promises'[x] : n.rnd = <<crnd[x], x>>
                      /\ \A m1, m2 \in p1Promises'[x] : m1.id = m2.id => m1 = m2
    BY <1>2 DEF GatherInv
  <2>1. CASE x = p
    BY <1>1, <1>2, <1>4, <2>1 DEF PropTypeOK
  <2>2. CASE x # p
    BY <1>1, <1>2, <2>2 DEF PropTypeOK, GatherInv
  <2> QED
    BY <2>1, <2>2
<1>6. \A x \in Proposer : crnd[x] <= crnd'[x] /\ adu[x] <= adu'[x]
  BY <1>1, <1>2 DEF PropTypeOK
<1>7. CASE ~IsQuorum(proms)
  <2>1. UNCHANGED <<phaseOneDone, nextSlot, proposal, accepts>>
    BY <1>7 DEF HandlePromise
  <2>2. VotesGrow
    <3>1. \A a \in Acceptor : aRnd[a] \in Round
      BY <1>1, OwnedRoundType DEF TypeOK, AccTypeOK, Round, ZeroRound
    <3> QED
      BY <1>2, <3>1, RoundOrder DEF VotesGrow, accVars
  <2>3. AcceptInv' /\ ProposalInv'
    BY <1>2, <2>1, <2>2, QuietProposals
  <2>4. PrepareInv' /\ PromiseInv' /\ PromiseComplete' /\ VoteInv'
    BY <1>2, <1>6, <2>1, QuietNetwork
  <2> QED
    BY <1>5, <2>3, <2>4 DEF SafetyInv
<1>8. CASE IsQuorum(proms)
  <2>1. /\ phaseOneDone' = [phaseOneDone EXCEPT ![p] = TRUE]
        /\ SendAccept(p, prop, adu[p], adu[p] + 1, reqQueue[p])
    BY <1>8 DEF HandlePromise, FirstSlotOfRound
  <2>2. /\ prop \in [Slot -> Proposal \cup {NoProposal}]
        /\ adu[p] + 1 \in 1..(MaxSlot + 1)
        /\ adu[p] \in Int
        /\ reqQueue[p] \in Seq(Value)
    <3>1. prop \in [Slot -> Proposal \cup {NoProposal}]
      BY <1>1, <1>3, SetStateType
    <3>2. adu[p] \in 0..MaxSlot /\ reqQueue[p] \in Seq(Value)
      BY <1>1 DEF PropTypeOK
    <3>3. adu[p] + 1 \in 1..(MaxSlot + 1) /\ adu[p] \in Int
      BY <3>2, BoundAssumption
    <3> QED
      BY <3>1, <3>2, <3>3
  <2>3. /\ phaseOneDone'[p]
        /\ \A x \in Proposer \ {p} : phaseOneDone'[x] = phaseOneDone[x]
    BY <1>1, <2>1 DEF PropTypeOK
  <2>4. \A n \in accepts : n.rnd # <<crnd[p], p>>
    <3> SUFFICES ASSUME NEW n \in accepts, n.rnd = <<crnd[p], p>> PROVE FALSE
      OBVIOUS
    <3>1. n.id = p /\ n.rnd[1] = crnd[p]
      BY <1>1 DEF AcceptInv
    <3> QED
      BY <1>1, <1>2, <3>1 DEF AcceptInv
  <2> HIDE DEF proms, prop
  <2>5. ASSUME NEW s \in Slot
        PROVE  /\ prop[s] # NoProposal =>
                    /\ ~RoundLess(<<crnd[p], p>>, prop[s].rnd)
                    /\ \E n \in accepts : /\ n.rnd = prop[s].rnd
                                          /\ n.slot = s
                                          /\ n.val = prop[s].val
               /\ adu[p] + 1 <= s =>
                    \A v \in Value : prop[s] = NoProposal \/ prop[s].val = v
                        => SafeAt(s, <<crnd[p], p>>, v)
    <3>1. adu[p] + 1 <= s => adu[p] < s
      BY <2>2 DEF Slot
    <3>2. prop[s] = SetStateFromPromises(p, proms)[s]
      BY DEF prop
    <3> QED
      BY <1>2, <1>3, <1>4, <1>8, <3>1, <3>2, SetStateSafe
  <2>6. UNCHANGED <<crnd, learns, aRnd>>
    BY <1>2 DEF accVars
  <2>7. AcceptInv' /\ ProposalInv'
    <3>1. \A n \in accepts : n.rnd = <<crnd[p], p>> => n.slot < adu[p] + 1
      BY <2>4
    <3>2. \A s \in Slot : prop[s] # NoProposal =>
            /\ ~RoundLess(<<crnd[p], p>>, prop[s].rnd)
            /\ \E n \in accepts : /\ n.rnd = prop[s].rnd
                                  /\ n.slot = s
                                  /\ n.val = prop[s].val
      BY <2>5
    <3>3. \A s \in Slot : adu[p] + 1 <= s =>
            \A v \in Value : prop[s] = NoProposal \/ prop[s].val = v
                => SafeAt(s, <<crnd[p], p>>, v)
      BY <2>5
    <3> QED
      BY <1>1, <2>1, <2>2, <2>3, <2>6, <3>1, <3>2, <3>3, SendAcceptSafe, Zenon
  <2>8. accepts \subseteq accepts'
    BY <2>1 DEF SendAccept
  <2>9. PrepareInv' /\ PromiseInv' /\ PromiseComplete' /\ VoteInv'
    BY <1>2, <1>6, <2>8, QuietNetwork
  <2> QED
    BY <1>5, <2>7, <2>9 DEF SafetyInv
<1> QED
  BY <1>7, <1>8

LEMMA SafetyProposer ==
    ASSUME SafetyInv, TypeInv', NEW p \in Proposer, ProposerStep(p),
           UNCHANGED <<accVars, lrnVars>>
    PROVE  SafetyInv'
<1>1. PropTypeOK
  BY DEF SafetyInv, TypeInv, TypeOK
<1>2. CASE HandleNewDcd(p)
  <2>1. \A x \in Proposer : adu[x] <= adu'[x]
    BY <1>1, <1>2 DEF HandleNewDcd, PropTypeOK
  <2>2. CASE IsLeaderAndPhaseOneComplete(p)
    <3>1. /\ SendAccept(p, proposal[p], adu[p] + 1, nextSlot[p], reqQueue[p])
          /\ phaseOneDone[p]
          /\ UNCHANGED <<crnd, p1Promises, phaseOneDone, prepares, promises,
                         learns>>
      BY <1>2, <2>2 DEF HandleNewDcd, IsLeaderAndPhaseOneComplete
    <3>2. reqQueue[p] \in Seq(Value)
      BY <1>1 DEF PropTypeOK
    <3> QED
      BY <2>1, <3>1, <3>2, ContinuePhaseTwo
  <2>3. CASE ~IsLeaderAndPhaseOneComplete(p)
    <3>1. UNCHANGED <<crnd, nextSlot, proposal, p1Promises, phaseOneDone,
                      prepares, promises, accepts, learns>>
      BY <1>2, <2>3 DEF HandleNewDcd
    <3> QED
      BY <2>1, <3>1, QuietProposer
  <2> QED
    BY <2>2, <2>3
<1>3. CASE \E v \in Value : HandleProposal(p, v)
  <2>1. PICK v \in Value : HandleProposal(p, v)
    BY <1>3
  <2> DEFINE q == Append(reqQueue[p], v)
  <2>2. /\ q \in Seq(Value)
        /\ UNCHANGED <<adu, crnd, p1Promises, phaseOneDone, prepares, promises,
                       learns>>
    BY <1>1, <2>1 DEF HandleProposal, PropTypeOK
  <2>3. \A x \in Proposer : adu[x] <= adu'[x]
    BY <1>1, <2>2 DEF PropTypeOK
  <2>4. CASE phaseOneDone[p]
    <3>1. SendAccept(p, proposal[p], adu[p], nextSlot[p], q)
      BY <2>1, <2>4 DEF HandleProposal
    <3> QED
      BY <2>2, <2>3, <2>4, <3>1, ContinuePhaseTwo
  <2>5. CASE ~phaseOneDone[p]
    <3>1. UNCHANGED <<nextSlot, proposal, accepts>>
      BY <2>1, <2>5 DEF HandleProposal
    <3> QED
      BY <2>2, <2>3, <3>1, QuietProposer
  <2> QED
    BY <2>4, <2>5
<1>4. CASE \E id \in Proposer : HandleTrust(p, id)
  <2>1. PICK id \in Proposer : HandleTrust(p, id)
    BY <1>4
  <2>2. CASE id = p
    BY <2>1, <2>2, StartPhaseOneSafe DEF HandleTrust, StartPhaseOneClear
  <2>3. CASE id # p
    <3>1. \A x \in Proposer : adu[x] <= adu'[x]
      BY <1>1, <2>1 DEF HandleTrust, PropTypeOK
    <3>2. UNCHANGED <<crnd, nextSlot, proposal, p1Promises, phaseOneDone,
                      prepares, promises, accepts, learns>>
      BY <2>1, <2>3 DEF HandleTrust
    <3> QED
      BY <3>1, <3>2, QuietProposer
  <2> QED
    BY <2>2, <2>3
<1>5. CASE \E m \in promises : HandlePromise(p, m)
  BY <1>5, PromiseSafe
<1>6. CASE PhaseOneTimeout(p)
  BY <1>6, StartPhaseOneSafe DEF PhaseOneTimeout, StartPhaseOneClear
<1>7. CASE ResendAccepts(p)
  <2>1. accepts' = accepts
    <3>1. Retained(p, AlphaWindow(p)) \subseteq accepts
      BY <1>7, RetainedSent DEF ResendAccepts, IsLeaderAndPhaseOneComplete
    <3> QED
      BY <1>7, <3>1 DEF ResendAccepts
  <2>2. \A x \in Proposer : adu[x] <= adu'[x]
    BY <1>1, <1>7 DEF ResendAccepts, PropTypeOK
  <2>3. UNCHANGED <<crnd, nextSlot, proposal, p1Promises, phaseOneDone,
                    prepares, promises, learns>>
    BY <1>7 DEF ResendAccepts
  <2> QED
    BY <2>1, <2>2, <2>3, QuietProposer
<1>8. CASE ResendLimitReached(p)
  <2>1. accepts' = accepts
    <3>1. PICK s \in AlphaWindow(p) :
            accepts' = accepts \cup Retained(p, AlphaWindow(p) \ {s})
      BY <1>8 DEF ResendLimitReached
    <3>2. Retained(p, AlphaWindow(p) \ {s}) \subseteq accepts
      BY <1>8, RetainedSent DEF ResendLimitReached, IsLeaderAndPhaseOneComplete
    <3> QED
      BY <3>1, <3>2
  <2>2. /\ StartPhaseOne(p)
        /\ UNCHANGED <<promises, learns, adu, nextSlot, proposal>>
    BY <1>8 DEF ResendLimitReached
  <2> QED
    BY <2>1, <2>2, StartPhaseOneSafe
<1> QED
  BY <1>2, <1>3, <1>4, <1>5, <1>6, <1>7, <1>8 DEF ProposerStep

-----------------------------------------------------------------------------
(* The acceptor's steps.                                                   *)

(* Every round that appears in a message or at an acceptor is a pair of    *)
(* naturals, and the bounds are ordered.                                   *)
LEMMA AcceptorRounds ==
    ASSUME TypeOK
    PROVE  /\ \A a \in Acceptor : aRnd[a] \in Round
           /\ \A a \in Acceptor, s \in Slot : vrnd[a][s] \in Round
           /\ \A q \in prepares : q.crnd \in OwnedRound /\ q.crnd \in Round
           /\ \A m \in promises : m.id \in Acceptor /\ m.rnd \in Round
           /\ \A m \in accepts :
                  m.slot \in Slot /\ m.val \in Value
                  /\ m.rnd \in OwnedRound /\ m.rnd \in Round
           /\ \A n \in learns :
                  n.id \in Acceptor /\ n.slot \in Slot /\ n.rnd \in Round
                  /\ RoundLess(ZeroRound, n.rnd)
<1>1. ZeroRound \in Round
  BY DEF ZeroRound, Round
<1>2. \A c \in OwnedRound : c \in Round /\ RoundLess(ZeroRound, c)
  BY OwnedRoundType
<1>3. /\ \A a \in Acceptor : aRnd[a] \in Round
      /\ \A a \in Acceptor, s \in Slot : vrnd[a][s] \in Round
  BY <1>1, <1>2 DEF TypeOK, AccTypeOK
<1>4. \A q \in prepares : q.crnd \in OwnedRound
  BY DEF TypeOK, NetTypeOK, PrepareMsg
<1>5. \A m \in promises : m.id \in Acceptor /\ m.rnd \in OwnedRound
  BY DEF TypeOK, NetTypeOK, PromiseMsg
<1>6. \A m \in accepts : m.slot \in Slot /\ m.val \in Value /\ m.rnd \in OwnedRound
  BY DEF TypeOK, NetTypeOK, AcceptMsg
<1>7. \A n \in learns : n.id \in Acceptor /\ n.slot \in Slot /\ n.rnd \in OwnedRound
  BY DEF TypeOK, NetTypeOK, LearnMsg
<1> QED
  BY <1>2, <1>3, <1>4, <1>5, <1>6, <1>7

(* handlePrep: a new promise reports the last vote of every slot from the  *)
(* prepare's on.                                                           *)
LEMMA PrepareSafe ==
    ASSUME SafetyInv, TypeInv', NEW a \in Acceptor, NEW m \in prepares,
           HandlePrepare(a, m), UNCHANGED propVars
    PROVE  SafetyInv'
<1> DEFINE pm == [id |-> a, rnd |-> m.crnd, accslots |-> AccSlots(a, m.slot)]
<1>1. /\ TypeOK /\ AccTypeOK /\ PrepareInv /\ PromiseInv /\ PromiseComplete
      /\ VoteInv /\ GatherInv
  BY DEF SafetyInv, TypeInv, TypeOK
<1>2. /\ RoundLess(aRnd[a], m.crnd)
      /\ aRnd' = [aRnd EXCEPT ![a] = m.crnd]
      /\ promises' = promises \cup {pm}
      /\ UNCHANGED <<vrnd, vval, maxSeen, prepares, accepts, learns>>
  BY DEF HandlePrepare
<1>3. /\ \A b \in Acceptor : aRnd[b] \in Round
      /\ \A b \in Acceptor, s \in Slot : vrnd[b][s] \in Round
      /\ m.crnd \in Round
      /\ \A n \in promises : n.id \in Acceptor /\ n.rnd \in Round
      /\ \A n \in learns :
             n.id \in Acceptor /\ n.slot \in Slot /\ n.rnd \in Round
             /\ RoundLess(ZeroRound, n.rnd)
  BY <1>1, AcceptorRounds
<1>4. /\ aRnd'[a] = m.crnd
      /\ \A b \in Acceptor \ {a} : aRnd'[b] = aRnd[b]
  BY <1>1, <1>2 DEF AccTypeOK
<1>5. \A b \in Acceptor, r \in Round :
          ~RoundLess(aRnd[b], r) => ~RoundLess(aRnd'[b], r)
  BY <1>2, <1>3, <1>4, RoundOrder
<1>6. VotesGrow
  BY <1>2, <1>3, <1>5, RoundOrder DEF VotesGrow
<1>7. AcceptInv' /\ ProposalInv'
  BY <1>2, <1>6, QuietProposals DEF propVars
<1>8. PrepareInv' /\ GatherInv'
  BY <1>1, <1>2 DEF PrepareInv, GatherInv, propVars
<1>9. VoteInv'
  BY <1>1, <1>2, <1>3, <1>5 DEF VoteInv, VotedFor
<1>10. ASSUME NEW as \in pm.accslots, as.id \in Slot
       PROVE  VotedFor(a, as.id, as.vrnd, as.vval) /\ RoundLess(as.vrnd, m.crnd)
  <2>1. as # ZeroSlot
    <3>1. ZeroSlot.id = 0
      BY DEF ZeroSlot
    <3>2. 0 \notin Slot
      BY BoundAssumption DEF Slot
    <3> QED
      BY <1>10, <3>1, <3>2
  <2>2. PICK s \in Slot : /\ as = [id |-> s, vrnd |-> vrnd[a][s], vval |-> vval[a][s]]
                          /\ RoundLess(ZeroRound, vrnd[a][s])
    BY <2>1 DEF AccSlots
  <2>3. VotedFor(a, s, vrnd[a][s], vval[a][s])
    BY <1>1, <2>2 DEF VoteInv
  <2>4. ~RoundLess(aRnd[a], vrnd[a][s])
    BY <1>1, <2>3 DEF VoteInv, VotedFor
  <2>5. RoundLess(vrnd[a][s], m.crnd)
    BY <1>2, <1>3, <2>4, RoundOrder
  <2> QED
    BY <2>2, <2>3, <2>5
<1>11. PromiseInv'
  <2> SUFFICES ASSUME NEW n \in promises'
               PROVE  /\ ~RoundLess(aRnd'[n.id], n.rnd)
                      /\ \E q \in prepares : q.crnd = n.rnd
                      /\ \A as \in n.accslots : as.id \in Slot =>
                             /\ VotedFor(n.id, as.id, as.vrnd, as.vval)
                             /\ RoundLess(as.vrnd, n.rnd)
    BY <1>2 DEF PromiseInv, VotedFor
  <2>1. CASE n \in promises
    BY <1>1, <1>3, <1>5, <2>1 DEF PromiseInv
  <2>2. CASE n = pm
    <3>1. n.id = a /\ n.rnd = m.crnd
      BY <2>2
    <3>2. ~RoundLess(aRnd'[a], m.crnd)
      BY <1>3, <1>4, RoundOrder
    <3> QED
      BY <1>10, <2>2, <3>1, <3>2
  <2> QED
    BY <1>2, <2>1, <2>2
<1>12. ASSUME NEW n \in learns, n.id = a, m.slot <= n.slot
       PROVE  \E as \in pm.accslots : as.id = n.slot /\ ~RoundLess(as.vrnd, n.rnd)
  <2> DEFINE s == n.slot
  <2>1. ~RoundLess(vrnd[a][s], n.rnd)
    BY <1>1, <1>12 DEF VoteInv
  <2>2. RoundLess(ZeroRound, vrnd[a][s])
    <3>1. ZeroRound \in Round /\ vrnd[a][s] \in Round /\ n.rnd \in Round
      BY <1>3 DEF ZeroRound, Round
    <3> QED
      BY <1>3, <2>1, <3>1, RoundOrder
  <2>3. s \in Slot /\ s <= maxSeen[a]
    BY <1>1, <1>3, <2>2 DEF VoteInv
  <2>4. [id |-> s, vrnd |-> vrnd[a][s], vval |-> vval[a][s]] \in AccSlots(a, m.slot)
    BY <1>12, <2>2, <2>3 DEF AccSlots
  <2> QED
    BY <2>1, <2>4
<1>13. PromiseComplete'
  <2> SUFFICES ASSUME NEW pr \in promises', NEW q \in prepares, NEW n \in learns,
                      q.crnd = pr.rnd, n.id = pr.id, q.slot <= n.slot,
                      RoundLess(n.rnd, pr.rnd)
               PROVE  \E as \in pr.accslots :
                          as.id = n.slot /\ ~RoundLess(as.vrnd, n.rnd)
    BY <1>2 DEF PromiseComplete
  <2>1. CASE pr \in promises
    BY <1>1, <2>1 DEF PromiseComplete
  <2>2. CASE pr = pm
    <3>1. q = m
      BY <1>1, <2>2 DEF PrepareInv
    <3> QED
      BY <1>12, <2>2, <3>1
  <2> QED
    BY <1>2, <2>1, <2>2
<1> QED
  BY <1>7, <1>8, <1>9, <1>11, <1>13 DEF SafetyInv

(* handleAcc, when it votes: no promise forbids the vote.                  *)
LEMMA VoteSafe ==
    ASSUME SafetyInv, TypeInv', NEW a \in Acceptor, NEW m \in accepts,
           VoteFor(a, m), UNCHANGED propVars
    PROVE  SafetyInv'
<1> DEFINE vote == [id |-> a, rnd |-> m.rnd, slot |-> m.slot, val |-> m.val]
<1>1. /\ TypeOK /\ AccTypeOK /\ PrepareInv /\ PromiseInv /\ PromiseComplete
      /\ VoteInv /\ GatherInv
  BY DEF SafetyInv, TypeInv, TypeOK
<1>2. /\ ~RoundLess(m.rnd, aRnd[a])
      /\ maxSeen' = [maxSeen EXCEPT ![a] = IF m.slot > @ THEN m.slot ELSE @]
      /\ aRnd' = [aRnd EXCEPT ![a] = m.rnd]
      /\ vrnd' = [vrnd EXCEPT ![a][m.slot] = m.rnd]
      /\ vval' = [vval EXCEPT ![a][m.slot] = m.val]
      /\ learns' = learns \cup {vote}
      /\ UNCHANGED <<prepares, promises, accepts>>
  BY DEF VoteFor, GetSlot
<1>3. /\ \A b \in Acceptor : aRnd[b] \in Round
      /\ \A b \in Acceptor, s \in Slot : vrnd[b][s] \in Round
      /\ m.rnd \in OwnedRound /\ m.rnd \in Round /\ m.slot \in Slot /\ m.val \in Value
      /\ \A n \in promises : n.id \in Acceptor /\ n.rnd \in Round
      /\ \A n \in learns : n.id \in Acceptor /\ n.slot \in Slot /\ n.rnd \in Round
  BY <1>1, AcceptorRounds
<1>4. /\ aRnd'[a] = m.rnd
      /\ \A b \in Acceptor \ {a} : aRnd'[b] = aRnd[b]
  BY <1>1, <1>2 DEF AccTypeOK
<1>5. \A b \in Acceptor, r \in Round :
          ~RoundLess(aRnd[b], r) => ~RoundLess(aRnd'[b], r)
  BY <1>2, <1>3, <1>4, RoundOrder
<1>6. VotesGrow
  <2>1. vote \in LearnMsg
    BY <1>3 DEF LearnMsg
  <2>2. \A b \in Acceptor : ~RoundLess(aRnd'[b], aRnd[b])
    BY <1>3, <1>5, RoundOrder
  <2> QED
    BY <1>2, <2>1, <2>2 DEF VotesGrow
<1>7. AcceptInv' /\ ProposalInv'
  BY <1>2, <1>6, QuietProposals DEF propVars
<1>8. PrepareInv' /\ GatherInv'
  BY <1>1, <1>2 DEF PrepareInv, GatherInv, propVars
<1>9. PromiseInv'
  <2>1. \A b, s, r, v : VotedFor(b, s, r, v) => VotedFor(b, s, r, v)'
    BY <1>2 DEF VotedFor
  <2> QED
    BY <1>1, <1>2, <1>3, <1>5, <2>1 DEF PromiseInv
<1>10. PromiseComplete'
  <2> SUFFICES ASSUME NEW pr \in promises, NEW q \in prepares, NEW n \in learns',
                      q.crnd = pr.rnd, n.id = pr.id, q.slot <= n.slot,
                      RoundLess(n.rnd, pr.rnd)
               PROVE  \E as \in pr.accslots :
                          as.id = n.slot /\ ~RoundLess(as.vrnd, n.rnd)
    BY <1>2 DEF PromiseComplete
  <2>1. CASE n \in learns
    BY <1>1, <2>1 DEF PromiseComplete
  <2>2. CASE n = vote
    <3>1. ~RoundLess(aRnd[a], pr.rnd) /\ RoundLess(m.rnd, pr.rnd)
      BY <1>1, <2>2 DEF PromiseInv
    <3> QED
      BY <1>2, <1>3, <3>1, RoundOrder
  <2> QED
    BY <1>2, <2>1, <2>2
<1>11. /\ \A b \in Acceptor, s \in Slot :
              IF b = a /\ s = m.slot
              THEN vrnd'[b][s] = m.rnd /\ vval'[b][s] = m.val
              ELSE vrnd'[b][s] = vrnd[b][s] /\ vval'[b][s] = vval[b][s]
       /\ \A b \in Acceptor : maxSeen[b] <= maxSeen'[b]
       /\ m.slot <= maxSeen'[a]
  <2>1. /\ \A b \in Acceptor : maxSeen[b] \in Int
        /\ m.slot \in Int
    BY <1>1, <1>3, BoundAssumption DEF AccTypeOK, Slot
  <2>2. /\ \A b \in Acceptor : maxSeen[b] <= maxSeen'[b]
        /\ m.slot <= maxSeen'[a]
    BY <1>1, <1>2, <2>1 DEF AccTypeOK
  <2> QED
    BY <1>1, <1>2, <1>3, <2>2 DEF AccTypeOK
<1>12. VoteInv'
  <2>1. ASSUME NEW b \in Acceptor, NEW s \in Slot, RoundLess(ZeroRound, vrnd'[b][s])
        PROVE  VotedFor(b, s, vrnd[b][s], vval[b][s])' /\ s <= maxSeen'[b]
    <3>1. CASE b = a /\ s = m.slot
      BY <1>2, <1>11, <3>1 DEF VotedFor
    <3>2. CASE ~(b = a /\ s = m.slot)
      <4>1. vrnd'[b][s] = vrnd[b][s] /\ vval'[b][s] = vval[b][s]
        BY <1>11, <3>2
      <4>2. VotedFor(b, s, vrnd[b][s], vval[b][s]) /\ s <= maxSeen[b]
        BY <1>1, <2>1, <4>1 DEF VoteInv
      <4>3. s \in Int /\ maxSeen[b] \in Int /\ maxSeen'[b] \in Int
        BY <1>1, <1>2, <1>3, BoundAssumption DEF AccTypeOK, Slot
      <4>4. s <= maxSeen'[b]
        BY <1>11, <4>2, <4>3
      <4> QED
        BY <1>2, <4>1, <4>2, <4>4 DEF VotedFor
    <3> QED
      BY <3>1, <3>2
  <2>2. ASSUME NEW n \in learns'
        PROVE  /\ ~RoundLess(vrnd'[n.id][n.slot], n.rnd)
               /\ ~RoundLess(aRnd'[n.id], n.rnd)
               /\ \E x \in accepts :
                      x.rnd = n.rnd /\ x.slot = n.slot /\ x.val = n.val
    <3>1. CASE n \in learns
      <4>1. /\ n.id \in Acceptor /\ n.slot \in Slot /\ n.rnd \in Round
            /\ ~RoundLess(vrnd[n.id][n.slot], n.rnd)
            /\ ~RoundLess(aRnd[n.id], n.rnd)
            /\ \E x \in accepts :
                   x.rnd = n.rnd /\ x.slot = n.slot /\ x.val = n.val
        BY <1>1, <1>3, <3>1 DEF VoteInv
      <4>2. ~RoundLess(aRnd'[n.id], n.rnd)
        BY <1>5, <4>1
      <4>3. CASE n.id = a /\ n.slot = m.slot
        BY <1>4, <1>11, <4>1, <4>2, <4>3
      <4>4. CASE ~(n.id = a /\ n.slot = m.slot)
        BY <1>11, <4>1, <4>2, <4>4
      <4> QED
        BY <4>3, <4>4
    <3>2. CASE n = vote
      <4>1. ~RoundLess(m.rnd, m.rnd)
        BY <1>3, RoundOrder
      <4> QED
        BY <1>3, <1>4, <1>11, <3>2, <4>1
    <3> QED
      BY <1>2, <3>1, <3>2
  <2> QED
    BY <1>2, <2>1, <2>2 DEF VoteInv
<1> QED
  BY <1>7, <1>8, <1>9, <1>10, <1>12 DEF SafetyInv

(* handleAcc, when it only looks the slot up.                              *)
LEMMA IgnoreSafe ==
    ASSUME SafetyInv, TypeInv', NEW a \in Acceptor, NEW m \in accepts,
           IgnoreAccept(a, m), UNCHANGED propVars
    PROVE  SafetyInv'
<1>1. /\ TypeOK /\ AccTypeOK /\ VoteInv
      /\ PrepareInv /\ PromiseInv /\ PromiseComplete /\ GatherInv
  BY DEF SafetyInv, TypeInv, TypeOK
<1>2. /\ maxSeen' = [maxSeen EXCEPT ![a] = IF m.slot > @ THEN m.slot ELSE @]
      /\ UNCHANGED <<aRnd, vrnd, vval, prepares, promises, accepts, learns>>
  BY DEF IgnoreAccept, GetSlot, netVars
<1>3. VotesGrow
  <2>1. \A b \in Acceptor : aRnd[b] \in Round
    BY <1>1, AcceptorRounds
  <2> QED
    BY <1>2, <2>1, RoundOrder DEF VotesGrow
<1>4. AcceptInv' /\ ProposalInv'
  BY <1>2, <1>3, QuietProposals DEF propVars
<1>5. PrepareInv' /\ PromiseInv' /\ PromiseComplete' /\ GatherInv'
  BY <1>1, <1>2 DEF PrepareInv, PromiseInv, PromiseComplete, GatherInv,
                    propVars, VotedFor
<1>6. ASSUME NEW b \in Acceptor, NEW s \in Slot, s <= maxSeen[b]
      PROVE  s <= maxSeen'[b]
  BY <1>1, <1>2, <1>6, AcceptorRounds, BoundAssumption DEF AccTypeOK, Slot
<1>7. VoteInv'
  BY <1>1, <1>2, <1>6 DEF VoteInv, VotedFor
<1> QED
  BY <1>4, <1>5, <1>7 DEF SafetyInv

LEMMA SafetyAcceptor ==
    ASSUME SafetyInv, TypeInv', AccNext, UNCHANGED propVars
    PROVE  SafetyInv'
<1>1. PICK a \in Acceptor : \/ \E m \in prepares : HandlePrepare(a, m)
                            \/ \E m \in accepts : HandleAccept(a, m)
  BY DEF AccNext
<1>2. ASSUME NEW m \in prepares, HandlePrepare(a, m) PROVE SafetyInv'
  BY <1>2, PrepareSafe
<1>3. ASSUME NEW m \in accepts, HandleAccept(a, m) PROVE SafetyInv'
  BY <1>3, VoteSafe, IgnoreSafe DEF HandleAccept
<1> QED
  BY <1>1, <1>2, <1>3

-----------------------------------------------------------------------------
(* The invariant holds throughout.                                         *)

(* A learner's step leaves the proposers, the acceptors and the Paxos      *)
(* messages alone.                                                         *)
LEMMA LearnerQuiet ==
    ASSUME LrnNext
    PROVE  UNCHANGED <<prepares, promises, accepts, learns>>
BY Zenon DEF LrnNext, HandleLearn, HandleCatchUpRequest, HandleCatchUpResponse,
             HandleDecidedVal, netVars

LEMMA SafetyInit == Init => SafetyInv
<1> SUFFICES ASSUME Init PROVE SafetyInv
  OBVIOUS
<1>1. /\ prepares = {} /\ promises = {} /\ accepts = {} /\ learns = {}
  BY DEF Init, NetInit
<1>2. PrepareInv /\ PromiseInv /\ PromiseComplete /\ AcceptInv
  BY <1>1 DEF PrepareInv, PromiseInv, PromiseComplete, AcceptInv
<1>3. VoteInv
  <2>1. \A a \in Acceptor, s \in Slot : ~RoundLess(ZeroRound, vrnd[a][s])
    BY DEF Init, AccInit, RoundLess, ZeroRound
  <2> QED
    BY <1>1, <2>1 DEF VoteInv
<1>4. GatherInv
  BY DEF Init, PropInit, GatherInv
<1>5. ProposalInv
  BY DEF Init, PropInit, ProposalInv
<1> QED
  BY TypeInit, <1>2, <1>3, <1>4, <1>5 DEF SafetyInv

LEMMA SafetyStep == SafetyInv /\ [Next]_vars => SafetyInv'
<1> SUFFICES ASSUME SafetyInv, [Next]_vars PROVE SafetyInv'
  OBVIOUS
<1>1. TypeInv'
  BY TypeStep DEF SafetyInv
<1>2. \A x \in Proposer : adu[x] <= adu[x]
  BY DEF SafetyInv, TypeInv, TypeOK, PropTypeOK
<1>3. CASE \E p \in Proposer : ProposerStep(p) /\ UNCHANGED <<accVars, lrnVars>>
  BY <1>1, <1>3, SafetyProposer
<1>4. CASE AccNext /\ UNCHANGED <<propVars, lrnVars>>
  BY <1>1, <1>4, SafetyAcceptor
<1>5. CASE LrnNext /\ UNCHANGED <<propVars, accVars>>
  <2>1. UNCHANGED <<crnd, nextSlot, proposal, p1Promises, phaseOneDone, adu,
                    prepares, promises, accepts, learns, accVars>>
    BY <1>5, LearnerQuiet DEF propVars
  <2> QED
    BY <1>1, <1>2, <2>1, QuietProposer
<1>6. CASE UNCHANGED vars
  <2>1. UNCHANGED <<crnd, nextSlot, proposal, p1Promises, phaseOneDone, adu,
                    prepares, promises, accepts, learns, accVars>>
    BY <1>6 DEF vars, propVars, netVars
  <2> QED
    BY <1>1, <1>2, <2>1, QuietProposer
<1> QED
  BY <1>3, <1>4, <1>5, <1>6 DEF Next

(* At most one value is ever chosen for a slot: whatever the leader        *)
(* changes, timeouts, resends and losses, setStateFromPromises and the     *)
(* proposals retained from earlier rounds together make a new leader       *)
(* propose every value that may have been chosen.                          *)
THEOREM OneChosen == Spec => []ChosenUnique
<1>1. Spec => []SafetyInv
  BY SafetyInit, SafetyStep, PTL DEF Spec
<1> QED
  BY <1>1, SafetyChosenUnique, PTL

(* A promise accounts for every vote of a lower round in the slots it was  *)
(* asked about, also for the votes cast after it was sent.                 *)
THEOREM PromisesComplete == Spec => []PromiseComplete
<1>1. Spec => []SafetyInv
  BY SafetyInit, SafetyStep, PTL DEF Spec
<1>2. SafetyInv => PromiseComplete
  BY DEF SafetyInv
<1> QED
  BY <1>1, <1>2, PTL

-----------------------------------------------------------------------------
(* What the learners do with the chosen values: FullInv is inductive, and  *)
(* from it replicas agree and the alpha window holds.                      *)

(* A chosen value stays chosen.                                            *)
LEMMA ChosenStable ==
    ASSUME NetTypeOK, NetTypeOK', learns \subseteq learns',
           NEW s, NEW v, Chosen(s, v)
    PROVE  Chosen(s, v)'
<1>1. PICK m \in learns :
          m.slot = s /\ m.val = v /\ IsQuorum(VotersFor(s, m.rnd, v))
  BY DEF Chosen
<1> DEFINE V == VotersFor(s, m.rnd, v)
           W == {n.id : n \in {k \in learns' : k.slot = s /\ k.rnd = m.rnd /\ k.val = v}}
<1>2. V \subseteq W
  BY DEF VotersFor
<1>3. W \subseteq Acceptor
  BY DEF NetTypeOK, LearnMsg
<1>4. IsFiniteSet(W)
  BY <1>3, NodeAssumption, FS_Subset
<1> HIDE DEF V, W
<1>5. /\ Cardinality(V) \in Nat
      /\ Cardinality(W) \in Nat
      /\ Cardinality(V) <= Cardinality(W)
  BY <1>2, <1>4, FS_Subset, FS_CardinalityType
<1>6. Quorum \in Int
  BY NodeAssumption, FS_CardinalityType DEF Quorum
<1>7. IsQuorum(W)
  BY <1>1, <1>5, <1>6 DEF IsQuorum, V
<1>8. m \in learns' /\ IsQuorum(VotersFor(s, m.rnd, v))'
  BY <1>1, <1>7 DEF VotersFor, IsQuorum, Quorum, W
<1> QED
  BY <1>1, <1>8 DEF Chosen

(* Without a new vote nothing new is chosen or voted for.                  *)
LEMMA ChosenUnchanged ==
    ASSUME UNCHANGED learns
    PROVE  /\ \A s, v : Chosen(s, v)' <=> Chosen(s, v)
           /\ \A a, s, r : VotedIn(a, s, r)' <=> VotedIn(a, s, r)
BY DEF Chosen, VotersFor, VotedIn, VotedFor

(* A quorum of replicas whose Learns of one round were counted for a slot  *)
(* has chosen the value of any of these Learns.                            *)
LEMMA QuorumChooses ==
    ASSUME NetTypeOK, VoteInv, AcceptInv, NEW m \in learns,
           NEW Q \in SUBSET Acceptor, IsQuorum(Q),
           \A a \in Q : VotedIn(a, m.slot, m.rnd)
    PROVE  Chosen(m.slot, m.val)
<1> DEFINE V == VotersFor(m.slot, m.rnd, m.val)
<1>1. VotedFor(m.id, m.slot, m.rnd, m.val)
  BY DEF NetTypeOK, LearnMsg, VotedFor
<1>2. ASSUME NEW a \in Q PROVE a \in V
  <2>1. PICK w \in Value : VotedFor(a, m.slot, m.rnd, w)
    BY <1>2 DEF VotedIn
  <2>2. w = m.val
    BY <1>1, <2>1, OneValuePerRound
  <2> QED
    BY <2>1, <2>2 DEF VotersFor, VotedFor
<1>3. V \in SUBSET Acceptor
  BY VotersType
<1> HIDE DEF V
<1>4. /\ Cardinality(V) \in Nat
      /\ Cardinality(Q) \in Nat
      /\ Cardinality(Q) <= Cardinality(V)
  BY <1>2, <1>3, NodeAssumption, FS_Subset, FS_CardinalityType
<1>5. Quorum \in Int
  BY NodeAssumption, FS_CardinalityType DEF Quorum
<1>6. IsQuorum(V)
  BY <1>4, <1>5 DEF IsQuorum
<1> QED
  BY <1>6 DEF Chosen, V

-----------------------------------------------------------------------------
(* Learned values are chosen.                                              *)

(* The steps that leave the learners alone.                                *)
LEMMA LearnedKept ==
    ASSUME NetTypeOK, NetTypeOK', LearnInv, LearnedIsChosen,
           UNCHANGED <<lslots, cresps>>, learns \subseteq learns'
    PROVE  LearnInv' /\ LearnedIsChosen'
<1>1. ASSUME NEW a, NEW s, NEW r, VotedIn(a, s, r) PROVE VotedIn(a, s, r)'
  BY <1>1 DEF VotedIn, VotedFor
<1>2. ASSUME NEW s, NEW v, Chosen(s, v) PROVE Chosen(s, v)'
  BY <1>2, ChosenStable
<1>3. LearnInv'
  <2>1. ASSUME NEW l \in Learner, NEW s \in Slot, NEW a \in lslots[l][s].from
        PROVE  VotedIn(a, s, lslots[l][s].rnd)'
    <3>1. VotedIn(a, s, lslots[l][s].rnd)
      BY <2>1 DEF LearnInv
    <3> QED
      BY <3>1 DEF VotedIn, VotedFor
  <2>2. ASSUME NEW m \in cresps, NEW d \in m.vals PROVE Chosen(d.slot, d.val)'
    BY <1>2, <2>2 DEF LearnInv
  <2> QED
    BY <2>1, <2>2 DEF LearnInv
<1>4. LearnedIsChosen'
  <2> SUFFICES ASSUME NEW l \in Learner, NEW s \in Slot, lslots[l][s].learned
               PROVE  Chosen(s, lslots[l][s].val)'
    BY DEF LearnedIsChosen
  <2>1. PICK v : v = lslots[l][s].val
    OBVIOUS
  <2>2. Chosen(s, v)
    BY <2>1 DEF LearnedIsChosen
  <2>3. Chosen(s, v)'
    BY <1>2, <2>2
  <2> QED
    BY <2>1, <2>3
<1> QED
  BY <1>3, <1>4

(* <-learnChan.                                                            *)
LEMMA LearnSound ==
    ASSUME SafetyInv, LearnInv, LearnedIsChosen,
           NEW l \in Learner, NEW m \in learns, HandleLearn(l, m)
    PROVE  LearnInv' /\ LearnedIsChosen'
<1> DEFINE sl == lslots[l][m.slot]
           new == AddLearn(sl, m)
<1>1. /\ NetTypeOK /\ LrnTypeOK /\ VoteInv /\ AcceptInv
  BY DEF SafetyInv, TypeInv, TypeOK
<1>2. /\ m.slot \in Slot /\ m.id \in Acceptor /\ m.val \in Value
      /\ m.rnd \in OwnedRound
      /\ sl \in LearnerSlot
  BY <1>1 DEF NetTypeOK, LearnMsg, LrnTypeOK
<1>3. /\ ~RoundLess(m.rnd, sl.rnd)
      /\ lslots' = [lslots EXCEPT ![l] = [lslots[l] EXCEPT ![m.slot] = new]]
      /\ UNCHANGED <<learns, cresps>>
  BY DEF HandleLearn
<1>4. ~RoundLess(sl.rnd, m.rnd) => m.rnd = sl.rnd
  <2>1. m.rnd \in Round
    BY <1>2, OwnedRoundType
  <2>2. sl.rnd \in Round
    <3>1. sl.rnd \in OwnedRound \cup {ZeroRound}
      BY <1>2 DEF LearnerSlot
    <3> QED
      BY <3>1, OwnedRoundType DEF ZeroRound, Round
  <2> QED
    BY <1>3, <2>1, <2>2, RoundOrder
<1>5. /\ new.rnd = m.rnd
      /\ new.from \subseteq Acceptor
      /\ new.learned <=> IsQuorum(new.from)
      /\ new.learned => new.val = m.val
      /\ \A a \in new.from : a = m.id \/ (m.rnd = sl.rnd /\ a \in sl.from)
  <2> HIDE DEF sl
  <2>1. sl.from \subseteq Acceptor
    BY <1>2 DEF LearnerSlot
  <2> DEFINE voted == (IF RoundLess(sl.rnd, m.rnd) THEN {} ELSE sl.from) \cup {m.id}
  <2>2. /\ voted \subseteq Acceptor
        /\ \A a \in voted : a = m.id \/ (m.rnd = sl.rnd /\ a \in sl.from)
    BY <1>2, <1>4, <2>1
  <2>3. new = [sl EXCEPT !.rnd = m.rnd, !.from = voted,
                         !.learned = IsQuorum(voted),
                         !.val = IF IsQuorum(voted) THEN m.val ELSE @]
    BY DEF AddLearn
  <2> HIDE DEF voted, new
  <2>4. /\ new.rnd = m.rnd /\ new.from = voted /\ new.learned = IsQuorum(voted)
        /\ IsQuorum(voted) => new.val = m.val
    BY <1>2, <2>3 DEF LearnerSlot
  <2> QED
    BY <2>2, <2>4
<1>6. \A a \in new.from : VotedIn(a, m.slot, m.rnd)
  <2>1. VotedIn(m.id, m.slot, m.rnd)
    BY <1>1, <1>2 DEF NetTypeOK, LearnMsg, VotedIn, VotedFor
  <2>2. \A a \in sl.from : VotedIn(a, m.slot, sl.rnd)
    BY <1>2 DEF LearnInv
  <2> HIDE DEF new, sl
  <2> QED
    BY <1>5, <2>1, <2>2
<1>7. new.learned => Chosen(m.slot, new.val)
  <2> HIDE DEF new, sl
  <2> SUFFICES ASSUME new.learned PROVE Chosen(m.slot, m.val)
    BY <1>5
  <2>1. new.from \in SUBSET Acceptor /\ IsQuorum(new.from)
    BY <1>5
  <2> QED
    BY <1>1, <1>6, <2>1, QuorumChooses
<1>8. \A k \in Learner, s \in Slot :
          lslots'[k][s] = IF k = l /\ s = m.slot THEN new ELSE lslots[k][s]
  <2> HIDE DEF new
  <2> QED
    BY <1>1, <1>2, <1>3 DEF LrnTypeOK
<1> HIDE DEF new, sl
<1>9. LearnInv'
  <2>1. ASSUME NEW k \in Learner, NEW s \in Slot, NEW a \in lslots'[k][s].from
        PROVE  VotedIn(a, s, lslots[k][s].rnd)'
    <3>1. CASE k = l /\ s = m.slot
      BY <1>3, <1>5, <1>6, <1>8, <2>1, <3>1, ChosenUnchanged
    <3>2. CASE ~(k = l /\ s = m.slot)
      BY <1>3, <1>8, <2>1, <3>2, ChosenUnchanged DEF LearnInv
    <3> QED
      BY <3>1, <3>2
  <2>2. ASSUME NEW r \in cresps, NEW d \in r.vals PROVE Chosen(d.slot, d.val)'
    BY <1>3, <2>2, ChosenUnchanged DEF LearnInv
  <2> QED
    BY <1>3, <2>1, <2>2 DEF LearnInv
<1>10. LearnedIsChosen'
  <2> SUFFICES ASSUME NEW k \in Learner, NEW s \in Slot, lslots'[k][s].learned
               PROVE  Chosen(s, lslots[k][s].val)'
    BY DEF LearnedIsChosen
  <2>1. CASE k = l /\ s = m.slot
    BY <1>3, <1>7, <1>8, <2>1, ChosenUnchanged
  <2>2. CASE ~(k = l /\ s = m.slot)
    BY <1>3, <1>8, <2>2, ChosenUnchanged DEF LearnedIsChosen
  <2> QED
    BY <2>1, <2>2
<1> QED
  BY <1>9, <1>10

(* <-creqChan: what a learner answers it has learned itself.               *)
LEMMA AnswerSound ==
    ASSUME TypeInv, LearnInv, LearnedIsChosen,
           NEW l \in Learner, NEW m \in creqs, HandleCatchUpRequest(l, m)
    PROVE  LearnInv' /\ LearnedIsChosen'
<1> DEFINE vs == {[slot |-> s, val |-> lslots[l][s].val] :
                     s \in {t \in m.from..m.to : Decided(l, t)}}
           resp == [id |-> l, dest |-> m.id, vals |-> vs]
<1>1. /\ cresps' = cresps \cup {resp}
      /\ UNCHANGED <<lslots, learns>>
  BY DEF HandleCatchUpRequest
<1>2. ASSUME NEW d \in vs PROVE Chosen(d.slot, d.val)
  <2>1. m.from \in Slot /\ m.to \in Slot
    BY DEF TypeInv, TypeOK, NetTypeOK, CatchUpRequest
  <2>2. PICK s \in m.from..m.to : /\ d = [slot |-> s, val |-> lslots[l][s].val]
                                  /\ Decided(l, s)
    BY <1>2
  <2>3. s \in Slot
    BY <2>1, BoundAssumption DEF Slot
  <2>4. lslots[l][s].learned
    BY <2>2, <2>3 DEF TypeInv, PassedSlotsLearned
  <2> QED
    BY <2>2, <2>3, <2>4 DEF LearnedIsChosen
<1>3. \A r \in cresps' : \A d \in r.vals : Chosen(d.slot, d.val)
  <2>1. resp.vals = vs
    OBVIOUS
  <2> HIDE DEF vs, resp
  <2> SUFFICES ASSUME NEW r \in cresps', NEW d \in r.vals
               PROVE  Chosen(d.slot, d.val)
    OBVIOUS
  <2>2. CASE r \in cresps
    BY <2>2 DEF LearnInv
  <2>3. CASE r = resp
    BY <1>2, <2>1, <2>3
  <2> QED
    BY <1>1, <2>2, <2>3
<1> QED
  BY <1>1, <1>3, ChosenUnchanged DEF LearnInv, LearnedIsChosen

(* <-crespChan: what a learner takes from an answer was chosen.            *)
LEMMA CatchUpSound ==
    ASSUME TypeInv, LearnInv, LearnedIsChosen,
           NEW l \in Learner, NEW m \in cresps, HandleCatchUpResponse(l, m)
    PROVE  LearnInv' /\ LearnedIsChosen'
<1> DEFINE missing == {d \in m.vals : ~lslots[l][d.slot].learned}
           ls == [s \in Slot |->
                 IF \E d \in missing : d.slot = s
                 THEN [lslots[l][s] EXCEPT !.learned = TRUE,
                         !.val = (CHOOSE d \in missing : d.slot = s).val]
                 ELSE lslots[l][s]]
<1>1. /\ lslots' = [lslots EXCEPT ![l] = ls]
      /\ UNCHANGED <<learns, cresps>>
  BY DEF HandleCatchUpResponse, netVars
<1>2. LrnTypeOK /\ \A s \in Slot : lslots[l][s] \in LearnerSlot
  BY DEF TypeInv, TypeOK, LrnTypeOK
<1>3. ASSUME NEW s \in Slot
      PROVE  /\ ls[s].from = lslots[l][s].from
             /\ ls[s].rnd = lslots[l][s].rnd
             /\ ls[s].learned => Chosen(s, ls[s].val)
  <2> HIDE DEF missing
  <2>1. CASE \E d \in missing : d.slot = s
    <3> DEFINE e == CHOOSE d \in missing : d.slot = s
    <3>1. e \in missing /\ e.slot = s
      BY <2>1
    <3>2. ls[s] = [lslots[l][s] EXCEPT !.learned = TRUE, !.val = e.val]
      BY <2>1
    <3> HIDE DEF e, ls
    <3>3. Chosen(s, e.val)
      BY <3>1 DEF missing, LearnInv
    <3>4. /\ ls[s].from = lslots[l][s].from
          /\ ls[s].rnd = lslots[l][s].rnd
          /\ ls[s].val = e.val
      BY <1>2, <3>2 DEF LearnerSlot
    <3> QED
      BY <3>3, <3>4
  <2>2. CASE ~\E d \in missing : d.slot = s
    <3>1. ls[s] = lslots[l][s]
      BY <2>2
    <3> QED
      BY <3>1 DEF LearnedIsChosen
  <2> QED
    BY <2>1, <2>2
<1> HIDE DEF ls
<1>4. \A k \in Learner, s \in Slot :
          lslots'[k][s] = IF k = l THEN ls[s] ELSE lslots[k][s]
  BY <1>1, <1>2 DEF LrnTypeOK
<1>5. \A k \in Learner, s \in Slot :
          /\ lslots'[k][s].from = lslots[k][s].from
          /\ lslots'[k][s].rnd = lslots[k][s].rnd
          /\ lslots'[k][s].learned => Chosen(s, lslots'[k][s].val)
  BY <1>3, <1>4 DEF LearnedIsChosen
<1>6. LearnInv'
  BY <1>1, <1>5, ChosenUnchanged DEF LearnInv
<1>7. LearnedIsChosen'
  BY <1>1, <1>5, ChosenUnchanged DEF LearnedIsChosen
<1> QED
  BY <1>6, <1>7

LEMMA LearnedLearner ==
    ASSUME SafetyInv, LearnInv, LearnedIsChosen, LrnNext
    PROVE  LearnInv' /\ LearnedIsChosen'
<1>1. PICK l \in Learner : \/ \E m \in learns : HandleLearn(l, m)
                           \/ \E m \in creqs : HandleCatchUpRequest(l, m)
                           \/ \E m \in cresps : HandleCatchUpResponse(l, m)
                           \/ HandleDecidedVal(l)
  BY DEF LrnNext
<1>2. TypeInv
  BY DEF SafetyInv
<1>3. ASSUME NEW m \in learns, HandleLearn(l, m)
      PROVE  LearnInv' /\ LearnedIsChosen'
  BY <1>3, LearnSound
<1>4. ASSUME NEW m \in creqs, HandleCatchUpRequest(l, m)
      PROVE  LearnInv' /\ LearnedIsChosen'
  BY <1>2, <1>4, AnswerSound
<1>5. ASSUME NEW m \in cresps, HandleCatchUpResponse(l, m)
      PROVE  LearnInv' /\ LearnedIsChosen'
  BY <1>2, <1>5, CatchUpSound
<1>6. ASSUME HandleDecidedVal(l)
      PROVE  LearnInv' /\ LearnedIsChosen'
  <2>1. UNCHANGED <<lslots, learns, cresps>>
    BY <1>6 DEF HandleDecidedVal, netVars
  <2> QED
    BY <2>1, ChosenUnchanged DEF LearnInv, LearnedIsChosen
<1> QED
  BY <1>1, <1>3, <1>4, <1>5, <1>6

-----------------------------------------------------------------------------
(* The alpha window.                                                       *)

(* sendAccept stops at the end of the alpha range it is given.             *)
LEMMA SendAcceptInRange ==
    ASSUME NEW p, NEW prop, NEW ad, NEW ns, NEW q, SendAccept(p, prop, ad, ns, q)
    PROVE  \A m \in accepts' : m \in accepts \/ (m.id = p /\ m.slot <= ad + Alpha)
<1>1. PICK last \in (ns - 1)..MaxSlot :
        /\ Sendable(prop, ad, ns, q) = ns..last
        /\ accepts' = accepts \cup
             {[id |-> p, rnd |-> <<crnd[p], p>>, slot |-> s,
               val |-> AcceptVal(prop, ns, q, s)] : s \in ns..last}
  BY DEF SendAccept
<1>2. \A s \in ns..last : s <= ad + Alpha
  BY <1>1 DEF Sendable, InAlphaRange
<1> QED
  BY <1>1, <1>2

(* A step that lets no adu fall and sends Accepts only in its range.       *)
LEMMA RangeKept ==
    ASSUME TypeOK, TypeOK', WindowInv,
           \A x \in Proposer : adu[x] <= adu'[x],
           \A m \in accepts' : m \in accepts \/ m.slot <= adu'[m.id] + Alpha
    PROVE  \A m \in accepts' : m.slot <= adu'[m.id] + Alpha
<1> SUFFICES ASSUME NEW m \in accepts' PROVE m.slot <= adu'[m.id] + Alpha
  OBVIOUS
<1>1. CASE m \in accepts
  <2>1. m.id \in Proposer /\ m.slot \in Int
    BY <1>1, BoundAssumption DEF TypeOK, NetTypeOK, AcceptMsg, Slot
  <2>2. adu[m.id] \in Int /\ adu'[m.id] \in Int
    BY <2>1, BoundAssumption DEF TypeOK, PropTypeOK
  <2>3. m.slot <= adu[m.id] + Alpha
    BY <1>1 DEF WindowInv
  <2> QED
    BY <2>1, <2>2, <2>3, AlphaAssumption
<1> QED
  BY <1>1

LEMMA WindowProposer ==
    ASSUME SafetyInv, TypeOK', WindowInv, NEW p \in Proposer, ProposerStep(p),
           UNCHANGED lrnVars
    PROVE  WindowInv'
<1>1. /\ TypeOK /\ PropTypeOK
      /\ \A x \in Proposer : adu[x] \in Int
      /\ \A x \in Learner : aru[x] \in Int
  <2>1. TypeOK /\ PropTypeOK /\ LrnTypeOK
    BY DEF SafetyInv, TypeInv, TypeOK
  <2>2. \A x \in Proposer : adu[x] \in Int
    BY <2>1, BoundAssumption DEF PropTypeOK
  <2>3. \A x \in Learner : aru[x] \in Int
    BY <2>1, BoundAssumption DEF LrnTypeOK
  <2> QED
    BY <2>1, <2>2, <2>3
<1>2. \A l \in Learner : aru'[l] < next'[l]
  BY DEF WindowInv, lrnVars
<1>3. CASE p \in Learner /\ adu[p] < aru[p] /\ HandleNewDcd(p)
  <2>1. adu' = [adu EXCEPT ![p] = @ + 1]
    BY <1>3 DEF HandleNewDcd
  <2>2. /\ adu'[p] = adu[p] + 1
        /\ \A x \in Proposer \ {p} : adu'[x] = adu[x]
    BY <1>1, <2>1 DEF PropTypeOK
  <2>3. \A x \in Proposer : adu[x] <= adu'[x]
    BY <1>1, <2>2
  <2>4. \A x \in Proposer : adu'[x] <= (IF x \in Learner THEN aru'[x] ELSE 0)
    BY <1>1, <1>3, <2>2 DEF WindowInv, lrnVars
  <2>5. \A m \in accepts' : m \in accepts \/ m.slot <= adu'[m.id] + Alpha
    <3>1. CASE IsLeaderAndPhaseOneComplete(p)
      <4>1. SendAccept(p, proposal[p], adu[p] + 1, nextSlot[p], reqQueue[p])
        BY <1>3, <3>1 DEF HandleNewDcd
      <4>2. \A m \in accepts' :
                m \in accepts \/ (m.id = p /\ m.slot <= adu[p] + 1 + Alpha)
        BY <4>1, SendAcceptInRange
      <4> QED
        BY <2>2, <4>2
    <3>2. CASE ~IsLeaderAndPhaseOneComplete(p)
      BY <1>3, <3>2 DEF HandleNewDcd
    <3> QED
      BY <3>1, <3>2
  <2>6. \A m \in accepts' : m.slot <= adu'[m.id] + Alpha
    BY <1>1, <2>3, <2>5, RangeKept
  <2> QED
    BY <1>2, <2>4, <2>6 DEF WindowInv
<1>4. ASSUME adu' = adu, 
             \A m \in accepts' : m \in accepts \/ (m.id = p /\ m.slot <= adu[p] + Alpha)
      PROVE  WindowInv'
  <2>1. \A x \in Proposer : adu[x] <= adu'[x]
    BY <1>1, <1>4
  <2>2. \A m \in accepts' : m \in accepts \/ m.slot <= adu'[m.id] + Alpha
    BY <1>4
  <2>3. \A m \in accepts' : m.slot <= adu'[m.id] + Alpha
    BY <1>1, <2>1, <2>2, RangeKept
  <2>4. \A x \in Proposer : adu'[x] <= (IF x \in Learner THEN aru'[x] ELSE 0)
    BY <1>4 DEF WindowInv, lrnVars
  <2> QED
    BY <1>2, <2>3, <2>4 DEF WindowInv
<1>5. ASSUME NEW v \in Value, HandleProposal(p, v) PROVE WindowInv'
  <2>1. adu' = adu
    BY <1>5 DEF HandleProposal
  <2>2. CASE phaseOneDone[p]
    <3>1. SendAccept(p, proposal[p], adu[p], nextSlot[p], Append(reqQueue[p], v))
      BY <1>5, <2>2 DEF HandleProposal
    <3>2. \A m \in accepts' : m \in accepts \/ (m.id = p /\ m.slot <= adu[p] + Alpha)
      BY <3>1, SendAcceptInRange
    <3> QED
      BY <1>4, <2>1, <3>2
  <2>3. CASE ~phaseOneDone[p]
    <3>1. accepts' = accepts
      BY <1>5, <2>3 DEF HandleProposal
    <3> QED
      BY <1>4, <2>1, <3>1
  <2> QED
    BY <2>2, <2>3
<1>6. ASSUME NEW id \in Proposer, HandleTrust(p, id) PROVE WindowInv'
  <2>1. UNCHANGED <<adu, accepts>>
    BY <1>6 DEF HandleTrust
  <2> QED
    BY <1>4, <2>1
<1>7. ASSUME NEW m \in promises, HandlePromise(p, m) PROVE WindowInv'
  <2> DEFINE proms == p1Promises[p] \cup {m}
  <2>1. adu' = adu
    BY <1>7 DEF HandlePromise
  <2>2. CASE IsQuorum(proms)
    <3>1. SendAccept(p, SetStateFromPromises(p, proms), adu[p],
                     FirstSlotOfRound(p), reqQueue[p])
      BY <1>7, <2>2 DEF HandlePromise
    <3> HIDE DEF proms
    <3>2. \A n \in accepts' : n \in accepts \/ (n.id = p /\ n.slot <= adu[p] + Alpha)
      BY <3>1, SendAcceptInRange
    <3> QED
      BY <1>4, <2>1, <3>2
  <2>3. CASE ~IsQuorum(proms)
    <3>1. accepts' = accepts
      BY <1>7, <2>3 DEF HandlePromise
    <3> QED
      BY <1>4, <2>1, <3>1
  <2> QED
    BY <2>2, <2>3
<1>8. ASSUME PhaseOneTimeout(p) PROVE WindowInv'
  <2>1. UNCHANGED <<adu, accepts>>
    BY <1>8 DEF PhaseOneTimeout
  <2> QED
    BY <1>4, <2>1
<1>9. ASSUME ResendAccepts(p) \/ ResendLimitReached(p) PROVE WindowInv'
  <2>1. phaseOneDone[p] /\ adu' = adu
    BY <1>9 DEF ResendAccepts, ResendLimitReached, IsLeaderAndPhaseOneComplete
  <2>2. \E S \in SUBSET AlphaWindow(p) : accepts' = accepts \cup Retained(p, S)
    BY <1>9 DEF ResendAccepts, ResendLimitReached
  <2>3. accepts' \subseteq accepts
    BY <2>1, <2>2, RetainedSent
  <2> QED
    BY <1>4, <2>1, <2>3
<1> QED
  BY <1>3, <1>5, <1>6, <1>7, <1>8, <1>9 DEF ProposerStep

LEMMA WindowLearner ==
    ASSUME TypeInv, TypeInv', WindowInv, LrnNext, UNCHANGED <<propVars, accVars>>
    PROVE  WindowInv'
<1>1. UNCHANGED <<adu, accepts>>
  BY LearnerQuiet DEF propVars
<1>2. PICK l \in Learner : \/ \E m \in learns : HandleLearn(l, m)
                           \/ \E m \in creqs : HandleCatchUpRequest(l, m)
                           \/ \E m \in cresps : HandleCatchUpResponse(l, m)
                           \/ HandleDecidedVal(l)
  BY DEF LrnNext
<1>3. /\ next \in [Learner -> 1..(MaxSlot + 1)]
      /\ aru \in [Learner -> 0..MaxSlot]
      /\ \A x \in Learner : next[x] \in Int /\ aru[x] \in Int
  BY BoundAssumption DEF TypeInv, TypeOK, LrnTypeOK
<1>4. \A x \in Proposer : adu[x] \in Int
  BY BoundAssumption DEF TypeInv, TypeOK, PropTypeOK
<1>5. ASSUME NEW ls, Advance(l, ls) PROVE \A x \in Learner : next[x] <= next'[x]
  <2>1. PICK n \in next[l]..(MaxSlot + 1) : next' = [next EXCEPT ![l] = n]
    BY <1>5 DEF Advance
  <2>2. n \in Int /\ next[l] <= n
    BY <1>3, BoundAssumption
  <2> QED
    BY <1>3, <2>1, <2>2
<1>6. ASSUME aru' = aru, \A x \in Learner : next[x] <= next'[x]
      PROVE  WindowInv'
  <2>1. \A x \in Learner : next'[x] \in Int
    BY BoundAssumption DEF TypeInv, TypeOK, LrnTypeOK
  <2> QED
    BY <1>1, <1>3, <1>6, <2>1 DEF WindowInv
<1>7. ASSUME NEW m \in learns, HandleLearn(l, m) PROVE WindowInv'
  <2>1. aru' = aru /\ (next' = next \/ \E ls : Advance(l, ls))
    BY <1>7 DEF HandleLearn
  <2>2. \A x \in Learner : next[x] <= next'[x]
    BY <1>3, <1>5, <2>1
  <2> QED
    BY <1>6, <2>1, <2>2
<1>8. ASSUME NEW m \in creqs, HandleCatchUpRequest(l, m) PROVE WindowInv'
  <2>1. UNCHANGED <<aru, next>>
    BY <1>8 DEF HandleCatchUpRequest
  <2> QED
    BY <1>3, <1>6, <2>1
<1>9. ASSUME NEW m \in cresps, HandleCatchUpResponse(l, m) PROVE WindowInv'
  <2>1. aru' = aru /\ \E ls : Advance(l, ls)
    BY <1>9 DEF HandleCatchUpResponse
  <2>2. \A x \in Learner : next[x] <= next'[x]
    BY <1>5, <2>1
  <2> QED
    BY <1>6, <2>1, <2>2
<1>10. ASSUME HandleDecidedVal(l) PROVE WindowInv'
  <2>1. /\ aru[l] + 1 < next[l]
        /\ aru' = [aru EXCEPT ![l] = @ + 1]
        /\ next' = next
    BY <1>10 DEF HandleDecidedVal
  <2>2. \A x \in Learner : aru[x] <= aru'[x] /\ aru'[x] < next'[x] /\ aru'[x] \in Int
    BY <1>3, <2>1 DEF WindowInv
  <2>3. \A x \in Proposer : adu'[x] <= (IF x \in Learner THEN aru'[x] ELSE 0)
    BY <1>1, <1>3, <1>4, <2>2 DEF WindowInv
  <2> QED
    BY <1>1, <2>2, <2>3 DEF WindowInv
<1> QED
  BY <1>2, <1>7, <1>8, <1>9, <1>10

-----------------------------------------------------------------------------
(* The full invariant.                                                     *)

LEMMA FullInit == Init => FullInv
<1> SUFFICES ASSUME Init PROVE FullInv
  OBVIOUS
<1>1. \A l \in Learner, s \in Slot :
          lslots[l][s].from = {} /\ ~lslots[l][s].learned
  BY DEF Init, LrnInit
<1>2. LearnInv /\ LearnedIsChosen
  BY <1>1 DEF Init, NetInit, LearnInv, LearnedIsChosen
<1>3. WindowInv
  BY DEF Init, NetInit, PropInit, LrnInit, WindowInv
<1> QED
  BY SafetyInit, <1>2, <1>3 DEF FullInv

LEMMA FullStep == FullInv /\ [Next]_vars => FullInv'
<1> SUFFICES ASSUME FullInv, [Next]_vars PROVE FullInv'
  OBVIOUS
<1>1. SafetyInv /\ SafetyInv' /\ LearnInv /\ LearnedIsChosen /\ WindowInv
  BY SafetyStep DEF FullInv
<1>2. /\ TypeInv /\ TypeInv' /\ TypeOK /\ TypeOK' /\ NetTypeOK /\ NetTypeOK'
  BY <1>1 DEF SafetyInv, TypeInv, TypeOK
<1>3. CASE \E p \in Proposer : ProposerStep(p) /\ UNCHANGED <<accVars, lrnVars>>
  <2>1. PICK p \in Proposer : ProposerStep(p) /\ UNCHANGED <<accVars, lrnVars>>
    BY <1>3
  <2>2. UNCHANGED <<lslots, cresps, learns>>
    BY <2>1 DEF lrnVars, ProposerStep, HandleNewDcd, HandleProposal, HandleTrust,
                HandlePromise, PhaseOneTimeout, ResendAccepts, ResendLimitReached
  <2>3. LearnInv' /\ LearnedIsChosen'
    BY <1>1, <1>2, <2>2, LearnedKept
  <2>4. WindowInv'
    BY <1>1, <1>2, <2>1, WindowProposer
  <2> QED
    BY <1>1, <2>3, <2>4 DEF FullInv
<1>4. CASE AccNext /\ UNCHANGED <<propVars, lrnVars>>
  <2>1. UNCHANGED <<lslots, cresps, accepts, adu, aru, next>> /\ learns \subseteq learns'
    BY <1>4 DEF propVars, lrnVars, AccNext, HandlePrepare, HandleAccept,
                IgnoreAccept, VoteFor, netVars
  <2>2. LearnInv' /\ LearnedIsChosen'
    BY <1>1, <1>2, <2>1, LearnedKept
  <2>3. WindowInv'
    BY <1>1, <2>1 DEF WindowInv
  <2> QED
    BY <1>1, <2>2, <2>3 DEF FullInv
<1>5. CASE LrnNext /\ UNCHANGED <<propVars, accVars>>
  BY <1>1, <1>2, <1>5, LearnedLearner, WindowLearner DEF FullInv
<1>6. CASE UNCHANGED vars
  <2>1. UNCHANGED <<lslots, cresps, learns, accepts, adu, aru, next>>
    BY <1>6 DEF vars, propVars, lrnVars, netVars
  <2>2. LearnInv' /\ LearnedIsChosen'
    BY <1>1, <1>2, <2>1, LearnedKept
  <2>3. WindowInv'
    BY <1>1, <2>1 DEF WindowInv
  <2> QED
    BY <1>1, <2>2, <2>3 DEF FullInv
<1> QED
  BY <1>3, <1>4, <1>5, <1>6 DEF Next

(* The invariant of the whole system holds: that of the acceptors and      *)
(* proposers, what learners have learned, and the windows between them.    *)
THEOREM FullInvHolds == Spec => []FullInv
  BY FullInit, FullStep, PTL DEF Spec

(* A replica learns a value, from Learns or by catch-up, only if a quorum  *)
(* of acceptors has voted for it in one round.                             *)
THEOREM LearnedChosen == Spec => []LearnedIsChosen
<1>1. Spec => []FullInv
  BY FullInvHolds
<1>2. FullInv => LearnedIsChosen
  BY DEF FullInv
<1> QED
  BY <1>1, <1>2, PTL

LEMMA FullAgreement == FullInv => Agreement
<1> SUFFICES ASSUME FullInv, NEW l1 \in Learner, NEW l2 \in Learner, NEW s \in Slot,
                    lslots[l1][s].learned, lslots[l2][s].learned
             PROVE  lslots[l1][s].val = lslots[l2][s].val
  BY DEF Agreement
<1>1. Chosen(s, lslots[l1][s].val) /\ Chosen(s, lslots[l2][s].val)
  BY DEF FullInv, LearnedIsChosen
<1>2. lslots[l1][s].val \in Value /\ lslots[l2][s].val \in Value
  BY DEF FullInv, SafetyInv, TypeInv, TypeOK, LrnTypeOK
<1>3. ChosenUnique
  BY SafetyChosenUnique DEF FullInv
<1> QED
  BY <1>1, <1>2, <1>3 DEF ChosenUnique

(* Replicas that have learned a slot have learned the same value.          *)
THEOREM ReplicasAgree == Spec => []Agreement
<1>1. Spec => []FullInv
  BY FullInvHolds
<1> QED
  BY <1>1, FullAgreement, PTL

LEMMA FullAlpha == FullInv => AlphaRespected
<1> SUFFICES ASSUME FullInv, NEW m \in accepts, NEW s \in Slot, s + Alpha <= m.slot
             PROVE  \E v \in Value : Chosen(s, v)
  BY DEF AlphaRespected
<1> DEFINE l == m.id
<1>1. /\ TypeOK /\ LrnTypeOK /\ WindowInv /\ LearnedIsChosen /\ PassedSlotsLearned
  BY DEF FullInv, SafetyInv, TypeInv, TypeOK
<1>2. l \in Proposer /\ m.slot \in Int /\ s \in Int /\ s > 0
  BY <1>1, BoundAssumption DEF TypeOK, NetTypeOK, AcceptMsg, Slot
<1>3. adu[l] \in Int
  BY <1>1, <1>2, BoundAssumption DEF TypeOK, PropTypeOK
<1>4. s <= adu[l]
  BY <1>1, <1>2, <1>3, AlphaAssumption DEF WindowInv
<1>5. l \in Learner /\ adu[l] <= aru[l]
  BY <1>1, <1>2, <1>3, <1>4 DEF WindowInv
<1>6. aru[l] \in Int /\ next[l] \in Int /\ aru[l] < next[l]
  BY <1>1, <1>5, BoundAssumption DEF LrnTypeOK, WindowInv
<1>7. s < next[l]
  BY <1>2, <1>3, <1>4, <1>5, <1>6
<1>8. lslots[l][s].learned
  BY <1>1, <1>5, <1>7 DEF PassedSlotsLearned, Decided
<1> QED
  BY <1>1, <1>5, <1>8 DEF LearnedIsChosen, LrnTypeOK

(* The alpha window: an Accept for slot s + Alpha is only ever sent when   *)
(* slot s is chosen, whichever proposer sends it.                          *)
THEOREM AlphaWindowHolds == Spec => []AlphaRespected
<1>1. Spec => []FullInv
  BY FullInvHolds
<1> QED
  BY <1>1, FullAlpha, PTL

-----------------------------------------------------------------------------
(* The group implements the replicated log: every step of MultiPaxos fixes *)
(* one command in the log, executes one command at one replica, or changes *)
(* nothing the clients can see.                                            *)

(* What is chosen is what the log holds.                                   *)
LogIsChosen ==
    \A s \in Slot :
        /\ \A v \in Value : Chosen(s, v) => logBar[s] = v
        /\ (\A v \in Value : ~Chosen(s, v)) => logBar[s] = None
        /\ logBar[s] # None => logBar[s] \in Value /\ Chosen(s, logBar[s])

LEMMA LogHoldsChosen == ChosenUnique => LogIsChosen
<1> SUFFICES ASSUME ChosenUnique, NEW s \in Slot
             PROVE  /\ \A v \in Value : Chosen(s, v) => logBar[s] = v
                    /\ (\A v \in Value : ~Chosen(s, v)) => logBar[s] = None
                    /\ logBar[s] # None => logBar[s] \in Value
                                           /\ Chosen(s, logBar[s])
  BY DEF LogIsChosen
<1>1. ASSUME NEW v \in Value, Chosen(s, v) PROVE logBar[s] = v
  <2>1. logBar[s] = CHOOSE w \in Value : Chosen(s, w)
    BY <1>1 DEF logBar
  <2>2. (CHOOSE w \in Value : Chosen(s, w)) \in Value
        /\ Chosen(s, CHOOSE w \in Value : Chosen(s, w))
    BY <1>1
  <2> QED
    BY <1>1, <2>1, <2>2 DEF ChosenUnique
<1>2. (\A v \in Value : ~Chosen(s, v)) => logBar[s] = None
  BY DEF logBar
<1> QED
  BY <1>1, <1>2

(* Without a new vote the log stays as it is.                              *)
LEMMA LogQuiet ==
    ASSUME UNCHANGED learns
    PROVE  logBar' = logBar
BY DEF logBar, Chosen, VotersFor, IsQuorum, Quorum

LEMMA RefinementInit == Init => Log!Init
<1> SUFFICES ASSUME Init PROVE Log!Init
  OBVIOUS
<1>1. \A s, v : ~Chosen(s, v)
  BY DEF Init, NetInit, Chosen
<1>2. logBar = [s \in 1..MaxSlot |-> None]
  BY <1>1 DEF logBar, Slot
<1>3. \A l \in Learner : [s \in 1..aru[l] |-> lslots[l][s].val] = << >>
  BY DEF Init, LrnInit
<1>4. executedBar = [l \in Learner |-> << >>]
  BY <1>3 DEF executedBar
<1> QED
  BY <1>2, <1>4 DEF Log!Init

-----------------------------------------------------------------------------
(* Steps of the group and steps of the log.                                *)

(* What a replica has executed changes only with its aru, as long as the   *)
(* slots it has learned keep their values.                                 *)
LEMMA ExecutedQuiet ==
    ASSUME FullInv, aru' = aru,
           \A l \in Learner, s \in Slot :
               lslots[l][s].learned => lslots'[l][s].val = lslots[l][s].val
    PROVE  executedBar' = executedBar
<1>1. ASSUME NEW l \in Learner, NEW s \in 1..aru[l]
      PROVE  lslots'[l][s].val = lslots[l][s].val
  <2>1. /\ aru[l] \in 0..MaxSlot /\ next[l] \in 1..(MaxSlot + 1)
        /\ aru[l] < next[l]
    BY DEF FullInv, SafetyInv, TypeInv, TypeOK, LrnTypeOK, WindowInv
  <2>2. s \in Slot /\ s < next[l]
    BY <2>1, BoundAssumption DEF Slot
  <2>3. lslots[l][s].learned
    BY <2>2 DEF FullInv, SafetyInv, TypeInv, PassedSlotsLearned, Decided
  <2> QED
    BY <2>2, <2>3
<1> QED
  BY <1>1 DEF executedBar

(* A vote can only complete a quorum for its own slot.                     *)
LEMMA VoteElsewhere ==
    ASSUME NetTypeOK, NetTypeOK', NEW vote, learns' = learns \cup {vote},
           NEW t, t # vote.slot, NEW v
    PROVE  Chosen(t, v)' <=> Chosen(t, v)
<1>1. Chosen(t, v) => Chosen(t, v)'
  BY ChosenStable
<1>2. \A r : VotersFor(t, r, v)' = VotersFor(t, r, v)
  BY DEF VotersFor
<1>3. ASSUME NEW n \in learns', IsQuorum(VotersFor(t, n.rnd, v))
      PROVE  Chosen(t, v)
  <2>1. VotersFor(t, n.rnd, v) # {}
    <3>1. Cardinality(Acceptor) \in Nat /\ Cardinality({}) = 0
      BY NodeAssumption, FS_CardinalityType, FS_EmptySet
    <3>2. Quorum \in Int /\ ~(0 >= Quorum)
      BY <3>1 DEF Quorum
    <3> QED
      BY <1>3, <3>1, <3>2 DEF IsQuorum
  <2>2. PICK k \in learns : k.slot = t /\ k.rnd = n.rnd /\ k.val = v
    BY <2>1 DEF VotersFor
  <2> QED
    BY <1>3, <2>2 DEF Chosen
<1>4. Chosen(t, v)' => Chosen(t, v)
  <2> SUFFICES ASSUME Chosen(t, v)' PROVE Chosen(t, v)
    OBVIOUS
  <2>1. PICK n \in learns' : IsQuorum(VotersFor(t, n.rnd, v)')
    BY DEF Chosen, IsQuorum, Quorum
  <2> QED
    BY <1>2, <1>3, <2>1
<1> QED
  BY <1>1, <1>4

(* A vote fixes at most the command of its slot, once, and inside the      *)
(* alpha window.                                                           *)
LEMMA VoteRefines ==
    ASSUME FullInv, FullInv', NEW a \in Acceptor, NEW m \in accepts,
           VoteFor(a, m), UNCHANGED lrnVars
    PROVE  \/ UNCHANGED <<logBar, executedBar>>
           \/ \E s \in 1..MaxSlot, v \in Value : Log!Choose(s, v)
<1> DEFINE vote == [id |-> a, rnd |-> m.rnd, slot |-> m.slot, val |-> m.val]
           x == m.slot
<1>1. /\ NetTypeOK /\ NetTypeOK' /\ ChosenUnique /\ ChosenUnique' /\ AlphaRespected
  <2>1. SafetyInv /\ SafetyInv'
    BY DEF FullInv
  <2>2. ChosenUnique /\ ChosenUnique'
    BY <2>1, SafetyChosenUnique, PTL
  <2> QED
    BY <2>1, <2>2, FullAlpha DEF SafetyInv, TypeInv, TypeOK
<1>2. learns' = learns \cup {vote} /\ vote.slot = x
  BY DEF VoteFor
<1>3. x \in Slot /\ m.val \in Value
  BY <1>1 DEF NetTypeOK, AcceptMsg
<1>4. executedBar' = executedBar
  BY DEF executedBar, lrnVars
<1> HIDE DEF vote
<1>5. \A t, v : t # x => (Chosen(t, v)' <=> Chosen(t, v))
  BY <1>1, <1>2, VoteElsewhere
<1>6. \A t, v : Chosen(t, v) => Chosen(t, v)'
  BY <1>1, <1>2, ChosenStable
<1>7. \A t \in Slot :
          /\ \A v \in Value : Chosen(t, v)' => logBar'[t] = v
          /\ (\A v \in Value : ~Chosen(t, v)') => logBar'[t] = None
  <2>1. LogIsChosen'
    BY <1>1, LogHoldsChosen, PTL
  <2> QED
    BY <2>1 DEF LogIsChosen
<1>8. \A t \in Slot :
          /\ \A v \in Value : Chosen(t, v) => logBar[t] = v
          /\ (\A v \in Value : ~Chosen(t, v)) => logBar[t] = None
          /\ logBar[t] # None => Chosen(t, logBar[t]) /\ logBar[t] \in Value
  BY <1>1, LogHoldsChosen DEF LogIsChosen
<1>9. \A t \in Slot : t # x => logBar'[t] = logBar[t]
  BY <1>5, <1>7, <1>8
<1>10. /\ logBar = [t \in Slot |-> logBar[t]]
       /\ logBar' = [t \in Slot |-> logBar'[t]]
  BY DEF logBar
<1>11. CASE \E v \in Value : Chosen(x, v)
  <2>1. logBar'[x] = logBar[x]
    BY <1>3, <1>6, <1>7, <1>8, <1>11
  <2> QED
    BY <1>4, <1>9, <1>10, <2>1
<1>12. CASE /\ \A v \in Value : ~Chosen(x, v)
            /\ \A v \in Value : ~Chosen(x, v)'
  <2>1. logBar'[x] = logBar[x]
    BY <1>3, <1>7, <1>8, <1>12
  <2> QED
    BY <1>4, <1>9, <1>10, <2>1
<1>13. ASSUME \A v \in Value : ~Chosen(x, v), NEW v \in Value, Chosen(x, v)'
       PROVE  Log!Choose(x, v)
  <2>1. logBar[x] = None
    BY <1>3, <1>8, <1>13
  <2>2. logBar' = [logBar EXCEPT ![x] = v]
    BY <1>3, <1>7, <1>9, <1>10, <1>13
  <2>3. \A t \in 1..MaxSlot : t + Alpha <= x => logBar[t] # None
    <3> SUFFICES ASSUME NEW t \in Slot, t + Alpha <= x PROVE logBar[t] # None
      BY DEF Slot
    <3>1. PICK w \in Value : Chosen(t, w)
      BY <1>1 DEF AlphaRespected
    <3> QED
      BY <1>8, <3>1, ValueAssumption
  <2> QED
    BY <1>4, <2>1, <2>2, <2>3 DEF Log!Choose
<1> QED
  BY <1>3, <1>11, <1>12, <1>13 DEF Slot

(* The server executes the command the log holds for the next slot.        *)
LEMMA ExecuteRefines ==
    ASSUME FullInv, NEW l \in Learner, HandleDecidedVal(l)
    PROVE  Log!Execute(l)
<1> DEFINE s == aru[l] + 1
           seq == executedBar[l]
<1>1. /\ LrnTypeOK /\ PassedSlotsLearned /\ LearnedIsChosen /\ ChosenUnique
  BY SafetyChosenUnique DEF FullInv, SafetyInv, TypeInv, TypeOK
<1>2. /\ s < next[l]
      /\ aru' = [aru EXCEPT ![l] = @ + 1]
      /\ UNCHANGED <<lslots, learns>>
  BY DEF HandleDecidedVal, netVars
<1>3. /\ aru[l] \in Nat /\ s \in Slot
      /\ \A k \in Learner : aru[k] \in Nat
  BY <1>1, <1>2, BoundAssumption DEF LrnTypeOK, Slot
<1>4. lslots[l][s].learned
  BY <1>1, <1>2, <1>3 DEF PassedSlotsLearned, Decided
<1>5. logBar[s] = lslots[l][s].val /\ logBar[s] # None
  <2>1. lslots[l][s].val \in Value /\ Chosen(s, lslots[l][s].val)
    BY <1>1, <1>3, <1>4 DEF LrnTypeOK, LearnedIsChosen
  <2> QED
    BY <1>1, <1>3, <2>1, LogHoldsChosen, ValueAssumption DEF LogIsChosen
<1>6. logBar' = logBar
  BY <1>2, LogQuiet
<1>7. /\ seq = [t \in 1..aru[l] |-> lslots[l][t].val]
      /\ Len(seq) = aru[l]
  <2>1. seq = [t \in 1..aru[l] |-> lslots[l][t].val]
    BY DEF executedBar
  <2> HIDE DEF seq
  <2> QED
    BY <1>3, <2>1
<1>8. executedBar' = [executedBar EXCEPT ![l] = Append(@, logBar[s])]
  <2>1. [t \in 1..s |-> lslots[l][t].val] = Append(seq, logBar[s])
    <3> HIDE DEF seq
    <3> DEFINE f == [t \in 1..aru[l] |-> lslots[l][t].val]
               v == lslots[l][s].val
    <3>1. Append(f, v) = [t \in 1..s |-> IF t = s THEN v ELSE f[t]]
      BY <1>3
    <3>2. \A t \in 1..s : (IF t = s THEN v ELSE f[t]) = lslots[l][t].val
      BY <1>3
    <3> HIDE DEF f, v
    <3>3. Append(f, v) = [t \in 1..s |-> lslots[l][t].val]
      BY <3>1, <3>2
    <3> QED
      BY <1>5, <1>7, <3>3 DEF f, v
  <2>2. /\ aru'[l] = s
        /\ \A k \in Learner \ {l} : aru'[k] = aru[k]
    BY <1>1, <1>2, <1>3 DEF LrnTypeOK
  <2>3. executedBar' = [k \in Learner |-> [t \in 1..aru'[k] |-> lslots[k][t].val]]
    BY <1>2 DEF executedBar
  <2>4. executedBar = [k \in Learner |-> [t \in 1..aru[k] |-> lslots[k][t].val]]
    BY DEF executedBar
  <2> DEFINE ex == executedBar
             new == executedBar'
  <2>5. /\ ex = [k \in Learner |-> ex[k]]
        /\ new = [k \in Learner |-> new[k]]
    BY <2>3, <2>4
  <2>6. new[l] = Append(ex[l], logBar[s])
    BY <2>1, <2>2, <2>3
  <2>7. \A k \in Learner \ {l} : new[k] = ex[k]
    BY <2>2, <2>3, <2>4
  <2> HIDE DEF ex, new, s, seq
  <2>8. new = [ex EXCEPT ![l] = Append(ex[l], logBar[s])]
    BY <2>5, <2>6, <2>7
  <2> QED
    BY <2>8 DEF ex, new
<1> QED
  <2>1. s <= MaxSlot /\ Len(executedBar[l]) + 1 = s
    BY <1>3, <1>7 DEF Slot
  <2> HIDE DEF s, seq
  <2> QED
    BY <1>5, <1>6, <1>8, <2>1 DEF Log!Execute

(* A learned slot keeps its value: handleLrn and handleCUResp skip it.     *)
LEMMA LearnedValueKept ==
    ASSUME LrnTypeOK, NEW l \in Learner,
           \/ \E m \in learns : HandleLearn(l, m)
           \/ \E m \in cresps : HandleCatchUpResponse(l, m),
           NEW k \in Learner, NEW s \in Slot, lslots[k][s].learned
    PROVE  lslots'[k][s].val = lslots[k][s].val
<1>1. ASSUME NEW m \in learns, HandleLearn(l, m)
      PROVE  lslots'[k][s].val = lslots[k][s].val
  <2> DEFINE new == AddLearn(lslots[l][m.slot], m)
  <2>1. /\ ~lslots[l][m.slot].learned
        /\ lslots' = [lslots EXCEPT ![l] = [lslots[l] EXCEPT ![m.slot] = new]]
    BY <1>1 DEF HandleLearn
  <2> HIDE DEF new
  <2> QED
    BY <2>1 DEF LrnTypeOK
<1>2. ASSUME NEW m \in cresps, HandleCatchUpResponse(l, m)
      PROVE  lslots'[k][s].val = lslots[k][s].val
  <2> DEFINE missing == {d \in m.vals : ~lslots[l][d.slot].learned}
             ls == [t \in Slot |->
                 IF \E d \in missing : d.slot = t
                 THEN [lslots[l][t] EXCEPT !.learned = TRUE,
                         !.val = (CHOOSE d \in missing : d.slot = t).val]
                 ELSE lslots[l][t]]
  <2>1. lslots' = [lslots EXCEPT ![l] = ls]
    BY <1>2 DEF HandleCatchUpResponse
  <2>2. CASE k = l
    <3>1. ~\E d \in missing : d.slot = s
      BY <2>2
    <3> HIDE DEF missing
    <3>2. ls[s] = lslots[l][s]
      BY <3>1
    <3> HIDE DEF ls
    <3> QED
      BY <2>1, <2>2, <3>2 DEF LrnTypeOK
  <2>3. CASE k # l
    <3> HIDE DEF ls
    <3> QED
      BY <2>1, <2>3 DEF LrnTypeOK
  <2> QED
    BY <2>2, <2>3
<1> QED
  BY <1>1, <1>2

LEMMA RefinementStep ==
    FullInv /\ FullInv' /\ [Next]_vars => [Log!Next]_<<logBar, executedBar>>
<1> SUFFICES ASSUME FullInv, FullInv', [Next]_vars
             PROVE  Log!Next \/ UNCHANGED <<logBar, executedBar>>
  OBVIOUS
<1>1. ASSUME UNCHANGED <<learns, lrnVars>>
      PROVE  UNCHANGED <<logBar, executedBar>>
  <2>1. logBar' = logBar
    BY <1>1, LogQuiet
  <2>2. executedBar' = executedBar
    BY <1>1 DEF executedBar, lrnVars
  <2> QED
    BY <2>1, <2>2
<1>2. CASE \E p \in Proposer : ProposerStep(p) /\ UNCHANGED <<accVars, lrnVars>>
  <2>1. UNCHANGED <<learns, lrnVars>>
    BY <1>2 DEF ProposerStep, HandleNewDcd, HandleProposal, HandleTrust,
                HandlePromise, PhaseOneTimeout, ResendAccepts, ResendLimitReached
  <2> QED
    BY <1>1, <2>1
<1>3. CASE AccNext /\ UNCHANGED <<propVars, lrnVars>>
  <2>1. PICK a \in Acceptor : \/ \E m \in prepares : HandlePrepare(a, m)
                              \/ \E m \in accepts : HandleAccept(a, m)
    BY <1>3 DEF AccNext
  <2>2. ASSUME NEW m \in accepts, VoteFor(a, m)
        PROVE  Log!Next \/ UNCHANGED <<logBar, executedBar>>
    <3>1. \/ UNCHANGED <<logBar, executedBar>>
          \/ \E s \in 1..MaxSlot, v \in Value : Log!Choose(s, v)
      BY <1>3, <2>2, VoteRefines
    <3> QED
      BY <3>1 DEF Log!Next
  <2>3. CASE \/ \E m \in prepares : HandlePrepare(a, m)
             \/ \E m \in accepts : IgnoreAccept(a, m)
    <3>1. UNCHANGED <<learns, lrnVars>>
      BY <1>3, <2>3 DEF HandlePrepare, IgnoreAccept, netVars
    <3> QED
      BY <1>1, <3>1
  <2> QED
    BY <2>1, <2>2, <2>3 DEF HandleAccept
<1>4. CASE LrnNext /\ UNCHANGED <<propVars, accVars>>
  <2>1. PICK l \in Learner : \/ \E m \in learns : HandleLearn(l, m)
                             \/ \E m \in creqs : HandleCatchUpRequest(l, m)
                             \/ \E m \in cresps : HandleCatchUpResponse(l, m)
                             \/ HandleDecidedVal(l)
    BY <1>4 DEF LrnNext
  <2>2. logBar' = logBar
    BY <1>4, LearnerQuiet, LogQuiet
  <2>3. LrnTypeOK
    BY DEF FullInv, SafetyInv, TypeInv, TypeOK
  <2>4. CASE \/ \E m \in learns : HandleLearn(l, m)
             \/ \E m \in cresps : HandleCatchUpResponse(l, m)
    <3>1. aru' = aru
      BY <2>4 DEF HandleLearn, HandleCatchUpResponse
    <3>2. \A k \in Learner, s \in Slot :
              lslots[k][s].learned => lslots'[k][s].val = lslots[k][s].val
      BY <2>3, <2>4, LearnedValueKept
    <3> QED
      BY <2>2, <3>1, <3>2, ExecutedQuiet
  <2>5. CASE \E m \in creqs : HandleCatchUpRequest(l, m)
    <3>1. UNCHANGED <<learns, lrnVars>>
      BY <2>5 DEF HandleCatchUpRequest, lrnVars
    <3> QED
      BY <1>1, <3>1
  <2>6. CASE HandleDecidedVal(l)
    BY <2>6, ExecuteRefines DEF Log!Next
  <2> QED
    BY <2>1, <2>4, <2>5, <2>6
<1>5. CASE UNCHANGED vars
  BY <1>1, <1>5 DEF vars, netVars
<1> QED
  BY <1>2, <1>3, <1>4, <1>5 DEF Next

(* A goxos group is a replicated log: its steps, seen through the chosen   *)
(* values and the slots each server has executed, are steps of the log.    *)
THEOREM GroupImplementsLog == Spec => ImplementsLog
<1>1. Spec => []FullInv
  BY FullInit, FullStep, PTL DEF Spec
<1> QED
  BY <1>1, RefinementInit, RefinementStep, PTL DEF Spec, ImplementsLog, Log!Spec
=============================================================================
