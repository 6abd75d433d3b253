-------------------------- MODULE MultiPaxosTypeProofs ------------------------
(***************************************************************************)
(* Proofs about MultiPaxos, for any sets of proposers, acceptors and       *)
(* learners, any bounds, window size and resend limit.                     *)
(***************************************************************************)
EXTENDS MultiPaxosInv, FiniteSetTheorems, WellFoundedInduction, TLAPS

(* Rounds are totally ordered.                                             *)
LEMMA RoundOrder ==
    ASSUME NEW r1 \in Round, NEW r2 \in Round, NEW r3 \in Round
    PROVE  /\ ~RoundLess(r1, r1)
           /\ RoundLess(r1, r2) /\ RoundLess(r2, r3) => RoundLess(r1, r3)
           /\ RoundLess(r1, r2) \/ r1 = r2 \/ RoundLess(r2, r1)
           /\ RoundLess(r1, r2) => ~RoundLess(r2, r1)
BY DEF Round, RoundLess

LEMMA OwnedRoundType ==
    ASSUME NEW c \in OwnedRound
    PROVE  /\ c \in Round
           /\ c[2] \in Proposer
           /\ c = <<c[1], c[2]>>
           /\ RoundLess(ZeroRound, c)
<1>1. PICK p \in Proposer : c \in {<<n, p>> : n \in 1..MaxRnd[p]}
  BY DEF OwnedRound
<1>2. PICK n \in 1..MaxRnd[p] : c = <<n, p>>
  BY <1>1
<1>3. n \in Nat /\ p \in Nat /\ n > 0
  BY <1>2, NodeAssumption, BoundAssumption
<1> QED
  BY <1>2, <1>3 DEF Round, RoundLess, ZeroRound

LEMMA MyRound ==
    ASSUME NEW p \in Proposer, NEW n \in 1..MaxRnd[p]
    PROVE  <<n, p>> \in OwnedRound
BY DEF OwnedRound

(* Two quorums of acceptors have a member in common.                       *)
LEMMA QuorumsIntersect ==
    ASSUME NEW Q1 \in SUBSET Acceptor, NEW Q2 \in SUBSET Acceptor,
           IsQuorum(Q1), IsQuorum(Q2)
    PROVE  \E a \in Acceptor : a \in Q1 /\ a \in Q2
<1>1. IsFiniteSet(Acceptor) /\ IsFiniteSet(Q1) /\ IsFiniteSet(Q2)
  BY NodeAssumption, FS_Subset
<1>2. Cardinality(Acceptor) \in Nat /\ Cardinality(Q1) \in Nat
      /\ Cardinality(Q2) \in Nat
  BY <1>1, FS_CardinalityType
<1>3. Cardinality(Q1) + Cardinality(Q2) > Cardinality(Acceptor)
  BY <1>2 DEF IsQuorum, Quorum
<1>4. Q1 \cap Q2 # {}
  BY <1>1, <1>3, FS_MajoritiesIntersect
<1> QED
  BY <1>4

-----------------------------------------------------------------------------
(* Type correctness.                                                       *)

LEMMA FreshType ==
    ASSUME NEW prop, NEW ns \in Nat, NEW s \in Int
    PROVE  /\ Cardinality(Fresh(prop, ns, s)) \in Nat
           /\ s \in Fresh(prop, ns, s) => Cardinality(Fresh(prop, ns, s)) > 0
<1>1. IsFiniteSet(ns..s)
  BY FS_Interval
<1>2. IsFiniteSet(Fresh(prop, ns, s))
  BY <1>1, FS_Subset DEF Fresh
<1>3. Cardinality(Fresh(prop, ns, s)) \in Nat
  BY <1>2, FS_CardinalityType
<1>4. Cardinality(Fresh(prop, ns, s)) = 0 <=> Fresh(prop, ns, s) = {}
  BY <1>2, FS_EmptySet
<1> QED
  BY <1>3, <1>4

LEMMA AcceptValType ==
    ASSUME NEW prop \in [Slot -> Proposal \cup {NoProposal}],
           NEW ns \in 1..(MaxSlot + 1), NEW ad, NEW q \in Seq(Value),
           NEW s \in Sendable(prop, ad, ns, q)
    PROVE  /\ s \in Slot
           /\ AcceptVal(prop, ns, q, s) \in Value
<1>1. s \in Slot /\ s \in ns..s /\ ns \in Nat /\ s \in Int
  BY BoundAssumption DEF Sendable, Slot
<1>2. CASE prop[s] # NoProposal
  <2>1. prop[s] \in Proposal
    BY <1>1, <1>2
  <2> QED
    BY <1>1, <1>2, <2>1 DEF AcceptVal, Proposal
<1>3. CASE prop[s] = NoProposal
  <2> DEFINE n == Cardinality(Fresh(prop, ns, s))
  <2>1. s \in Fresh(prop, ns, s)
    BY <1>1, <1>3 DEF Fresh
  <2>2. n \in Nat /\ n > 0
    BY <1>1, <2>1, FreshType
  <2>3. n <= Len(q)
    BY DEF Sendable
  <2>4. n \in 1..Len(q)
    BY <2>2, <2>3
  <2> HIDE DEF n
  <2>5. q[n] \in Value
    BY <2>4
  <2>6. AcceptVal(prop, ns, q, s) = q[n]
    BY <1>3 DEF AcceptVal, n
  <2> QED
    BY <1>1, <2>5, <2>6
<1> QED
  BY <1>2, <1>3

LEMMA SendAcceptType ==
    ASSUME TypeOK, NEW p \in Proposer,
           NEW prop \in [Slot -> Proposal \cup {NoProposal}],
           NEW ns \in 1..(MaxSlot + 1), NEW ad, NEW q \in Seq(Value),
           SendAccept(p, prop, ad, ns, q)
    PROVE  /\ nextSlot' \in [Proposer -> 1..(MaxSlot + 1)]
           /\ proposal' \in [Proposer -> [Slot -> Proposal \cup {NoProposal}]]
           /\ reqQueue' \in [Proposer -> Seq(Value)]
           /\ accepts' \subseteq AcceptMsg
<1>1. PICK last \in (ns - 1)..MaxSlot :
        /\ Sendable(prop, ad, ns, q) = ns..last
        /\ nextSlot' = [nextSlot EXCEPT ![p] = last + 1]
        /\ proposal' = [proposal EXCEPT ![p] =
             [s \in Slot |->
                IF s \in ns..last
                THEN [rnd |-> <<crnd[p], p>>, slot |-> s,
                      val |-> AcceptVal(prop, ns, q, s)]
                ELSE prop[s]]]
        /\ reqQueue' = [reqQueue EXCEPT ![p] =
             SubSeq(q, Cardinality(Fresh(prop, ns, last)) + 1, Len(q))]
        /\ accepts' = accepts \cup
             {[id |-> p, rnd |-> <<crnd[p], p>>, slot |-> s,
               val |-> AcceptVal(prop, ns, q, s)] : s \in ns..last}
  BY DEF SendAccept
<1>2. last \in Int /\ ns \in Nat /\ MaxSlot \in Nat /\ last + 1 \in 1..(MaxSlot + 1)
  BY BoundAssumption
<1>3. <<crnd[p], p>> \in OwnedRound
  BY MyRound DEF TypeOK, PropTypeOK
<1>4. \A s \in ns..last : s \in Slot /\ AcceptVal(prop, ns, q, s) \in Value
  BY <1>1, AcceptValType
<1>5. nextSlot' \in [Proposer -> 1..(MaxSlot + 1)]
  BY <1>1, <1>2 DEF TypeOK, PropTypeOK
<1>6. proposal' \in [Proposer -> [Slot -> Proposal \cup {NoProposal}]]
  <2>1. \A s \in Slot : (IF s \in ns..last
                THEN [rnd |-> <<crnd[p], p>>, slot |-> s,
                      val |-> AcceptVal(prop, ns, q, s)]
                ELSE prop[s]) \in Proposal \cup {NoProposal}
    BY <1>3, <1>4 DEF Proposal, Slot
  <2> QED
    BY <1>1, <2>1 DEF TypeOK, PropTypeOK
<1>7. reqQueue' \in [Proposer -> Seq(Value)]
  <2>1. Cardinality(Fresh(prop, ns, last)) \in Nat
    BY <1>2, FreshType
  <2> DEFINE k == Cardinality(Fresh(prop, ns, last)) + 1
  <2>2. k \in Nat /\ k >= 1
    BY <2>1
  <2> HIDE DEF k
  <2>3. SubSeq(q, k, Len(q)) \in Seq(Value)
    BY <2>2
  <2> QED
    BY <1>1, <2>3 DEF TypeOK, PropTypeOK, k
<1>8. accepts' \subseteq AcceptMsg
  BY <1>1, <1>3, <1>4 DEF TypeOK, NetTypeOK, AcceptMsg
<1> QED
  BY <1>5, <1>6, <1>7, <1>8

(* A non-empty set of votes of owned rounds has one of a maximal round.    *)
(* OwnedRound is finite, and a minimal non-empty set of rounds in which    *)
(* every round is exceeded by another would contain a smaller such set.    *)
LEMMA OwnedRoundFinite == IsFiniteSet(OwnedRound)
<1> DEFINE f == [p \in Proposer |-> {<<n, p>> : n \in 1..MaxRnd[p]}]
           S == {f[p] : p \in Proposer}
<1>1. IsFiniteSet(S)
  <2>1. f \in Surjection(Proposer, S)
    BY DEF Surjection
  <2> HIDE DEF f, S
  <2> QED
    BY <2>1, NodeAssumption, FS_Surjection
<1>2. \A p \in Proposer : IsFiniteSet(f[p])
  <2> TAKE p \in Proposer
  <2> DEFINE g == [n \in 1..MaxRnd[p] |-> <<n, p>>]
  <2>1. IsFiniteSet(1..MaxRnd[p])
    BY BoundAssumption, FS_Interval
  <2>2. IsFiniteSet({g[n] : n \in 1..MaxRnd[p]})
    <3> DEFINE D == 1..MaxRnd[p]
               E == {g[n] : n \in D}
    <3>1. g \in Surjection(D, E)
      BY DEF Surjection
    <3> HIDE DEF g, D, E
    <3>2. IsFiniteSet(E)
      BY <2>1, <3>1, FS_Surjection DEF D
    <3> QED
      BY <3>2 DEF D, E
  <2>3. {g[n] : n \in 1..MaxRnd[p]} = f[p]
    OBVIOUS
  <2> QED
    BY <2>2, <2>3
<1>3. IsFiniteSet(UNION S)
  BY <1>1, <1>2, FS_UNION
<1>4. UNION S = OwnedRound
  BY DEF OwnedRound
<1> QED
  BY <1>3, <1>4

LEMMA MaxRoundExists ==
    ASSUME NEW R \in SUBSET OwnedRound, R # {}
    PROVE  \E r \in R : \A c \in R : ~RoundLess(r, c)
<1> DEFINE T == {U \in SUBSET R : U # {} /\ \A x \in U : \E y \in U : RoundLess(x, y)}
           O == StrictSubsetOrdering(OwnedRound)
<1>1. SUFFICES ASSUME \A r \in R : \E c \in R : RoundLess(r, c)
               PROVE  FALSE
  OBVIOUS
<1>2. R \in T
  BY <1>1
<1>3. T \subseteq FiniteSubsetsOf(OwnedRound)
  BY OwnedRoundFinite, FS_Subset DEF FiniteSubsetsOf
<1>4. IsWellFoundedOn(O, FiniteSubsetsOf(OwnedRound))
  BY OwnedRoundFinite, FS_StrictSubsetOrderingWellFounded
<1>5. PICK U \in T : \A V \in T : ~(<<V, U>> \in O)
  <2> HIDE DEF T, O
  <2> QED
    BY <1>2, <1>3, <1>4, WFMin
<1>6. PICK x \in U : TRUE
  OBVIOUS
<1> DEFINE V == {y \in U : RoundLess(x, y)}
<1>7. U \subseteq Round
  BY OwnedRoundType
<1>8. V # {} /\ V \subseteq U /\ x \notin V
  BY <1>6, <1>7, RoundOrder
<1>9. V \in T
  <2>1. ASSUME NEW y \in V PROVE \E z \in V : RoundLess(y, z)
    BY <1>6, <1>7, RoundOrder
  <2> QED
    BY <1>8, <2>1
<1>10. <<V, U>> \in O
  BY <1>6, <1>8 DEF StrictSubsetOrdering
<1> QED
  BY <1>5, <1>9, <1>10

LEMMA TopVoteIsMax ==
    ASSUME NEW proms, proms \subseteq PromiseMsg, NEW s \in Slot,
           Reported(proms, s) # {}
    PROVE  LET v == TopVote(Reported(proms, s))
           IN  /\ v \in Reported(proms, s)
               /\ v.vrnd \in OwnedRound
               /\ v.vval \in Value
               /\ \A w \in Reported(proms, s) : ~RoundLess(v.vrnd, w.vrnd)
<1> DEFINE votes == Reported(proms, s)
           R == {w.vrnd : w \in votes}
<1>1. \A w \in votes : w.vrnd \in OwnedRound /\ w.vval \in Value
  <2> SUFFICES ASSUME NEW w \in votes
               PROVE  w.vrnd \in OwnedRound /\ w.vval \in Value
    OBVIOUS
  <2>1. PICK m \in proms : w \in m.accslots
    BY DEF Reported
  <2>2. w \in AcceptorSlot /\ w.id = s
    BY <2>1 DEF Reported, PromiseMsg
  <2> QED
    BY <2>2, BoundAssumption DEF AcceptorSlot, ZeroSlot, Slot
<1>2. PICK r \in R : \A c \in R : ~RoundLess(r, c)
  <2>1. R \in SUBSET OwnedRound /\ R # {}
    BY <1>1
  <2> HIDE DEF R
  <2> QED
    BY <2>1, MaxRoundExists
<1>3. \E v \in votes : \A w \in votes : ~RoundLess(v.vrnd, w.vrnd)
  BY <1>2
<1> HIDE DEF votes
<1>4. /\ TopVote(votes) \in votes
      /\ \A w \in votes : ~RoundLess(TopVote(votes).vrnd, w.vrnd)
  BY <1>3 DEF TopVote
<1> QED
  BY <1>1, <1>4 DEF votes

LEMMA SetStateType ==
    ASSUME TypeOK, NEW p \in Proposer, NEW proms \in SUBSET promises
    PROVE  SetStateFromPromises(p, proms)
               \in [Slot -> Proposal \cup {NoProposal}]
<1>1. proms \subseteq PromiseMsg
  BY DEF TypeOK, NetTypeOK
<1>2. \A s \in Slot : proposal[p][s] \in Proposal \cup {NoProposal}
  BY DEF TypeOK, PropTypeOK
<1>3. ASSUME NEW s \in Slot, Reported(proms, s) # {}
      PROVE  LET v == TopVote(Reported(proms, s))
             IN  [rnd |-> v.vrnd, slot |-> 0, val |-> v.vval] \in Proposal
  BY <1>1, <1>3, TopVoteIsMax, BoundAssumption DEF Proposal
<1> QED
  BY <1>2, <1>3 DEF SetStateFromPromises

-----------------------------------------------------------------------------
LEMMA TypeInit == Init => TypeInv
<1> SUFFICES ASSUME Init PROVE TypeInv
  OBVIOUS
<1> USE BoundAssumption, AlphaAssumption
<1>1. NetTypeOK
  BY DEF Init, NetInit, NetTypeOK
<1>2. PropTypeOK
  BY DEF Init, NetInit, PropInit, PropTypeOK
<1>3. AccTypeOK
  BY DEF Init, AccInit, AccTypeOK, Slot
<1>4. LrnTypeOK
  BY DEF Init, LrnInit, LrnTypeOK, LearnerSlot
<1>5. PassedSlotsLearned
  BY DEF Init, LrnInit, PassedSlotsLearned, Decided, Slot
<1>6. WindowRetained
  BY DEF Init, PropInit, WindowRetained
<1> QED
  BY <1>1, <1>2, <1>3, <1>4, <1>5, <1>6 DEF TypeInv, TypeOK

(* After sendAccept the window holds Accepts of the current round, if the  *)
(* slots below its start did.                                              *)
LEMMA SendAcceptWindow ==
    ASSUME TypeInv, NEW p \in Proposer,
           NEW prop \in [Slot -> Proposal \cup {NoProposal}],
           NEW ns \in 1..(MaxSlot + 1), NEW ad, NEW q \in Seq(Value),
           SendAccept(p, prop, ad, ns, q),
           crnd' = crnd,
           adu' \in [Proposer -> 0..MaxSlot],
           \A x \in Proposer : adu[x] <= adu'[x],
           \A x \in Proposer \ {p} : phaseOneDone'[x] = phaseOneDone[x],
           \A s \in Slot : adu'[p] < s /\ s < ns =>
               /\ prop[s] # NoProposal
               /\ prop[s].rnd = <<crnd[p], p>>
               /\ prop[s].slot = s
    PROVE  WindowRetained'
<1> SUFFICES ASSUME NEW x \in Proposer, phaseOneDone'[x],
                    NEW s \in Slot, adu'[x] < s, s < nextSlot'[x]
             PROVE  /\ proposal'[x][s] # NoProposal
                    /\ proposal'[x][s].rnd = <<crnd'[x], x>>
                    /\ proposal'[x][s].slot = s
  BY DEF WindowRetained, AlphaWindow
<1>1. PICK last \in (ns - 1)..MaxSlot :
        /\ nextSlot' = [nextSlot EXCEPT ![p] = last + 1]
        /\ proposal' = [proposal EXCEPT ![p] =
             [t \in Slot |->
                IF t \in ns..last
                THEN [rnd |-> <<crnd[p], p>>, slot |-> t,
                      val |-> AcceptVal(prop, ns, q, t)]
                ELSE prop[t]]]
  BY DEF SendAccept
<1>2. /\ proposal \in [Proposer -> [Slot -> Proposal \cup {NoProposal}]]
      /\ nextSlot \in [Proposer -> 1..(MaxSlot + 1)]
      /\ adu \in [Proposer -> 0..MaxSlot]
      /\ MaxSlot \in Nat
  BY BoundAssumption DEF TypeInv, TypeOK, PropTypeOK
<1>3. CASE x # p
  <2>1. nextSlot'[x] = nextSlot[x] /\ proposal'[x] = proposal[x]
    BY <1>1, <1>2, <1>3
  <2>2. s \in AlphaWindow(x)
    BY <1>2, <2>1 DEF AlphaWindow, Slot
  <2> QED
    BY <1>3, <2>1, <2>2 DEF TypeInv, WindowRetained
<1>4. CASE x = p
  <2>1. s <= last /\ s \in Int /\ last \in Int /\ ns \in Int
    BY <1>1, <1>2, <1>4 DEF Slot
  <2>2. CASE s \in ns..last
    <3>1. proposal'[p][s] = [rnd |-> <<crnd[p], p>>, slot |-> s,
                             val |-> AcceptVal(prop, ns, q, s)]
      BY <1>1, <1>2, <2>2
    <3>2. s # 0
      BY <1>2 DEF Slot
    <3> QED
      BY <1>4, <3>1, <3>2 DEF NoProposal
  <2>3. CASE s < ns
    <3>1. proposal'[p][s] = prop[s]
      BY <1>1, <1>2, <2>1, <2>3
    <3> QED
      BY <1>4, <2>3, <3>1
  <2> QED
    BY <2>1, <2>2, <2>3
<1> QED
  BY <1>3, <1>4

LEMMA WindowShrinks ==
    ASSUME TypeInv,
           UNCHANGED <<proposal, nextSlot>>,
           adu' \in [Proposer -> 0..MaxSlot],
           \A x \in Proposer : adu[x] <= adu'[x],
           \A x \in Proposer : phaseOneDone'[x] =>
               phaseOneDone[x] /\ crnd'[x] = crnd[x]
    PROVE  WindowRetained'
<1> SUFFICES ASSUME NEW x \in Proposer, phaseOneDone'[x],
                    NEW s \in Slot, adu'[x] < s, s < nextSlot'[x]
             PROVE  /\ proposal'[x][s] # NoProposal
                    /\ proposal'[x][s].rnd = <<crnd'[x], x>>
                    /\ proposal'[x][s].slot = s
  BY DEF WindowRetained, AlphaWindow
<1>1. adu[x] \in Int /\ adu'[x] \in Int /\ s \in Int
  BY DEF TypeInv, TypeOK, PropTypeOK, Slot
<1>2. s \in AlphaWindow(x)
  BY <1>1 DEF AlphaWindow
<1> QED
  BY <1>2 DEF TypeInv, WindowRetained

LEMMA TypeStutter == TypeInv /\ UNCHANGED vars => TypeInv'
<1> SUFFICES ASSUME TypeInv, UNCHANGED vars PROVE TypeInv'
  OBVIOUS
<1> USE DEF TypeInv, TypeOK, vars, netVars, propVars, accVars, lrnVars
<1>1. NetTypeOK'
  BY DEF NetTypeOK
<1>2. PropTypeOK' /\ WindowRetained'
  BY DEF PropTypeOK, WindowRetained, AlphaWindow
<1>3. AccTypeOK'
  BY DEF AccTypeOK
<1>4. LrnTypeOK' /\ PassedSlotsLearned'
  BY DEF LrnTypeOK, PassedSlotsLearned, Decided
<1> QED
  BY <1>1, <1>2, <1>3, <1>4

LEMMA TypeProposer ==
    ASSUME TypeInv, NEW p \in Proposer, ProposerStep(p),
           UNCHANGED <<accVars, lrnVars>>
    PROVE  TypeInv'
<1> USE BoundAssumption, AlphaAssumption
<1>1. AccTypeOK' /\ LrnTypeOK' /\ PassedSlotsLearned'
  BY DEF TypeInv, TypeOK, accVars, lrnVars, AccTypeOK, LrnTypeOK,
         PassedSlotsLearned, Decided
<1>2. NetTypeOK /\ PropTypeOK /\ TypeOK
  BY DEF TypeInv, TypeOK
<1>3. SUFFICES NetTypeOK' /\ PropTypeOK' /\ WindowRetained'
  BY <1>1 DEF TypeInv, TypeOK
<1>4. ASSUME p \in Learner, adu[p] < aru[p], HandleNewDcd(p)
      PROVE  NetTypeOK' /\ PropTypeOK' /\ WindowRetained'
  <2>1. adu' \in [Proposer -> 0..MaxSlot]
    BY <1>2, <1>4 DEF HandleNewDcd, PropTypeOK, TypeInv, TypeOK, LrnTypeOK
  <2>2. /\ nextSlot' \in [Proposer -> 1..(MaxSlot + 1)]
        /\ proposal' \in [Proposer -> [Slot -> Proposal \cup {NoProposal}]]
        /\ reqQueue' \in [Proposer -> Seq(Value)]
        /\ accepts' \subseteq AcceptMsg
    <3>1. CASE IsLeaderAndPhaseOneComplete(p)
      <4>1. /\ proposal[p] \in [Slot -> Proposal \cup {NoProposal}]
            /\ nextSlot[p] \in 1..(MaxSlot + 1)
            /\ reqQueue[p] \in Seq(Value)
        BY <1>2 DEF PropTypeOK
      <4>2. SendAccept(p, proposal[p], adu[p] + 1, nextSlot[p], reqQueue[p])
        BY <1>4, <3>1 DEF HandleNewDcd
      <4> QED
        BY <1>2, <4>1, <4>2, SendAcceptType
    <3>2. CASE ~IsLeaderAndPhaseOneComplete(p)
      BY <1>2, <1>4, <3>2 DEF HandleNewDcd, PropTypeOK, NetTypeOK
    <3> QED
      BY <3>1, <3>2
  <2>3. \A x \in Proposer : adu[x] <= adu'[x]
    BY <1>2, <1>4 DEF HandleNewDcd, PropTypeOK
  <2>4. WindowRetained'
    <3>1. CASE IsLeaderAndPhaseOneComplete(p)
      <4>1. /\ proposal[p] \in [Slot -> Proposal \cup {NoProposal}]
            /\ nextSlot[p] \in 1..(MaxSlot + 1)
            /\ reqQueue[p] \in Seq(Value)
            /\ adu[p] \in Int /\ adu'[p] \in Int
        BY <1>2, <2>1 DEF PropTypeOK
      <4>2. /\ SendAccept(p, proposal[p], adu[p] + 1, nextSlot[p], reqQueue[p])
            /\ UNCHANGED <<crnd, phaseOneDone>>
        BY <1>4, <3>1 DEF HandleNewDcd
      <4>3. \A s \in Slot : adu'[p] < s /\ s < nextSlot[p] =>
               /\ proposal[p][s] # NoProposal
               /\ proposal[p][s].rnd = <<crnd[p], p>>
               /\ proposal[p][s].slot = s
        <5>1. \A s \in AlphaWindow(p) :
                 /\ proposal[p][s] # NoProposal
                 /\ proposal[p][s].rnd = <<crnd[p], p>>
                 /\ proposal[p][s].slot = s
          BY <3>1 DEF TypeInv, WindowRetained, IsLeaderAndPhaseOneComplete
        <5>2. \A s \in Slot : adu'[p] < s => adu[p] < s
          BY <2>3, <4>1 DEF Slot
        <5> QED
          BY <5>1, <5>2 DEF AlphaWindow
      <4> QED
        BY <2>1, <2>3, <4>1, <4>2, <4>3, SendAcceptWindow
    <3>2. CASE ~IsLeaderAndPhaseOneComplete(p)
      BY <1>4, <2>1, <2>3, <3>2, WindowShrinks DEF HandleNewDcd
    <3> QED
      BY <3>1, <3>2
  <2> QED
    BY <1>2, <1>4, <2>1, <2>2, <2>4 DEF HandleNewDcd, PropTypeOK, NetTypeOK
<1>5. ASSUME NEW v \in Value, HandleProposal(p, v)
      PROVE  NetTypeOK' /\ PropTypeOK' /\ WindowRetained'
  <2> DEFINE q == Append(reqQueue[p], v)
  <2>1. q \in Seq(Value)
    BY <1>2 DEF PropTypeOK
  <2>2. /\ nextSlot' \in [Proposer -> 1..(MaxSlot + 1)]
        /\ proposal' \in [Proposer -> [Slot -> Proposal \cup {NoProposal}]]
        /\ reqQueue' \in [Proposer -> Seq(Value)]
        /\ accepts' \subseteq AcceptMsg
    <3>1. CASE phaseOneDone[p]
      <4>1. /\ proposal[p] \in [Slot -> Proposal \cup {NoProposal}]
            /\ nextSlot[p] \in 1..(MaxSlot + 1)
        BY <1>2 DEF PropTypeOK
      <4>2. SendAccept(p, proposal[p], adu[p], nextSlot[p], q)
        BY <1>5, <3>1 DEF HandleProposal
      <4> HIDE DEF q
      <4> QED
        BY <1>2, <2>1, <4>1, <4>2, SendAcceptType
    <3>2. CASE ~phaseOneDone[p]
      <4>1. /\ reqQueue' = [reqQueue EXCEPT ![p] = q]
            /\ UNCHANGED <<nextSlot, proposal, accepts>>
        BY <1>5, <3>2 DEF HandleProposal
      <4> HIDE DEF q
      <4> QED
        BY <1>2, <2>1, <4>1 DEF PropTypeOK, NetTypeOK
    <3> QED
      BY <3>1, <3>2
  <2>3. WindowRetained'
    <3>1. /\ proposal[p] \in [Slot -> Proposal \cup {NoProposal}]
          /\ nextSlot[p] \in 1..(MaxSlot + 1)
          /\ adu' \in [Proposer -> 0..MaxSlot]
          /\ \A x \in Proposer : adu[x] <= adu'[x]
          /\ UNCHANGED <<crnd, phaseOneDone, adu>>
      BY <1>2, <1>5 DEF PropTypeOK, HandleProposal
    <3>2. CASE phaseOneDone[p]
      <4>1. SendAccept(p, proposal[p], adu[p], nextSlot[p], q)
        BY <1>5, <3>2 DEF HandleProposal
      <4>2. \A s \in Slot : adu'[p] < s /\ s < nextSlot[p] =>
               /\ proposal[p][s] # NoProposal
               /\ proposal[p][s].rnd = <<crnd[p], p>>
               /\ proposal[p][s].slot = s
        BY <3>1, <3>2 DEF TypeInv, WindowRetained, AlphaWindow
      <4> HIDE DEF q
      <4> QED
        BY <2>1, <3>1, <4>1, <4>2, SendAcceptWindow
    <3>3. CASE ~phaseOneDone[p]
      BY <1>5, <3>1, <3>3, WindowShrinks DEF HandleProposal
    <3> QED
      BY <3>2, <3>3
  <2> QED
    BY <1>2, <1>5, <2>2, <2>3 DEF HandleProposal, PropTypeOK, NetTypeOK
<1>6. ASSUME StartPhaseOne(p)
      PROVE  /\ crnd' \in [Proposer -> Nat]
             /\ \A x \in Proposer : crnd'[x] \in 1..MaxRnd[x]
             /\ phaseOneDone' \in [Proposer -> BOOLEAN]
             /\ p1Promises' \in [Proposer -> SUBSET promises]
             /\ prepares' \subseteq PrepareMsg
             /\ UNCHANGED <<proposal, nextSlot, adu>> => WindowRetained'
  <2>1. crnd[p] + 1 \in 1..MaxRnd[p]
    BY <1>2, <1>6 DEF StartPhaseOne, PropTypeOK
  <2>2. <<crnd[p] + 1, p>> \in OwnedRound
    BY <2>1, MyRound
  <2>3. prepares' \subseteq PrepareMsg
    <3>1. adu[p] \in 0..MaxSlot
      BY <1>2 DEF PropTypeOK
    <3>2. [id |-> p, crnd |-> <<crnd[p] + 1, p>>, slot |-> adu[p]] \in PrepareMsg
      BY <2>2, <3>1 DEF PrepareMsg
    <3> QED
      BY <1>2, <1>6, <3>2 DEF StartPhaseOne, NetTypeOK
  <2>4. UNCHANGED <<proposal, nextSlot, adu>> => WindowRetained'
    <3> HAVE UNCHANGED <<proposal, nextSlot, adu>>
    <3>1. \A x \in Proposer : phaseOneDone'[x] =>
               phaseOneDone[x] /\ crnd'[x] = crnd[x]
      BY <1>2, <1>6 DEF StartPhaseOne, PropTypeOK
    <3>2. /\ adu' \in [Proposer -> 0..MaxSlot]
          /\ \A x \in Proposer : adu[x] <= adu'[x]
      BY <1>2 DEF PropTypeOK
    <3> QED
      BY <3>1, <3>2, WindowShrinks
  <2> QED
    BY <1>2, <1>6, <2>1, <2>3, <2>4 DEF StartPhaseOne, PropTypeOK
<1>7. ASSUME StartPhaseOneClear(p)
      PROVE  /\ reqQueue' \in [Proposer -> Seq(Value)]
             /\ sentCount' \in [Proposer -> [Slot -> 0..ResendThreshold]]
  <2>1. << >> \in Seq(Value)
    OBVIOUS
  <2> QED
    BY <1>2, <1>7, <2>1 DEF StartPhaseOneClear, PropTypeOK
<1>8. ASSUME NEW id \in Proposer, HandleTrust(p, id)
      PROVE  NetTypeOK' /\ PropTypeOK' /\ WindowRetained'
  <2>1. CASE id = p
    <3>1. StartPhaseOneClear(p) /\ StartPhaseOne(p)
      BY <1>8, <2>1 DEF HandleTrust, StartPhaseOneClear
    <3>2. /\ UNCHANGED <<adu, nextSlot, proposal, promises, accepts, learns,
                         creqs, cresps>>
          /\ leader' = [leader EXCEPT ![p] = id]
      BY <1>8 DEF HandleTrust
    <3>3. /\ reqQueue' \in [Proposer -> Seq(Value)]
          /\ sentCount' \in [Proposer -> [Slot -> 0..ResendThreshold]]
      BY <1>7, <3>1
    <3>4. /\ crnd' \in [Proposer -> Nat]
          /\ \A x \in Proposer : crnd'[x] \in 1..MaxRnd[x]
          /\ phaseOneDone' \in [Proposer -> BOOLEAN]
          /\ p1Promises' \in [Proposer -> SUBSET promises]
          /\ prepares' \subseteq PrepareMsg
          /\ WindowRetained'
      BY <1>6, <3>1, <3>2
    <3>5. NetTypeOK'
      BY <1>2, <3>2, <3>4 DEF NetTypeOK
    <3>6. PropTypeOK'
      BY <1>2, <3>2, <3>3, <3>4 DEF PropTypeOK
    <3> QED
      BY <3>4, <3>5, <3>6
  <2>2. CASE id # p
    <3>1. /\ UNCHANGED <<crnd, sentCount, reqQueue, p1Promises, phaseOneDone,
                         adu, nextSlot, proposal, netVars>>
          /\ leader' = [leader EXCEPT ![p] = id]
      BY <1>8, <2>2 DEF HandleTrust, netVars
    <3>2. /\ adu' \in [Proposer -> 0..MaxSlot]
          /\ \A x \in Proposer : adu[x] <= adu'[x]
      BY <1>2, <3>1 DEF PropTypeOK
    <3>3. WindowRetained'
      BY <3>1, <3>2, WindowShrinks
    <3> QED
      BY <1>2, <3>1, <3>3 DEF PropTypeOK, NetTypeOK, netVars
  <2> QED
    BY <2>1, <2>2
<1>9. ASSUME NEW m \in promises, HandlePromise(p, m)
      PROVE  NetTypeOK' /\ PropTypeOK' /\ WindowRetained'
  <2> DEFINE proms == p1Promises[p] \cup {m}
  <2>1. proms \in SUBSET promises
    BY <1>2 DEF PropTypeOK
  <2>2. /\ nextSlot' \in [Proposer -> 1..(MaxSlot + 1)]
        /\ proposal' \in [Proposer -> [Slot -> Proposal \cup {NoProposal}]]
        /\ reqQueue' \in [Proposer -> Seq(Value)]
        /\ accepts' \subseteq AcceptMsg
        /\ phaseOneDone' \in [Proposer -> BOOLEAN]
    <3>1. CASE IsQuorum(proms)
      <4>1. SetStateFromPromises(p, proms)
                \in [Slot -> Proposal \cup {NoProposal}]
        BY <1>2, <2>1, SetStateType
      <4>2. FirstSlotOfRound(p) \in 1..(MaxSlot + 1)
            /\ reqQueue[p] \in Seq(Value)
        BY <1>2 DEF PropTypeOK, FirstSlotOfRound
      <4>3. SendAccept(p, SetStateFromPromises(p, proms), adu[p],
                       FirstSlotOfRound(p), reqQueue[p])
        BY <1>9, <3>1 DEF HandlePromise
      <4>4. phaseOneDone' \in [Proposer -> BOOLEAN]
        BY <1>2, <1>9, <3>1 DEF HandlePromise, PropTypeOK
      <4> HIDE DEF proms
      <4> QED
        BY <1>2, <4>1, <4>2, <4>3, <4>4, SendAcceptType
    <3>2. CASE ~IsQuorum(proms)
      BY <1>2, <1>9, <3>2 DEF HandlePromise, PropTypeOK, NetTypeOK
    <3> QED
      BY <3>1, <3>2
  <2>3. p1Promises' \in [Proposer -> SUBSET promises]
    BY <1>2, <1>9, <2>1 DEF HandlePromise, PropTypeOK
  <2>4. WindowRetained'
    <3>1. /\ adu \in [Proposer -> 0..MaxSlot]
          /\ adu' \in [Proposer -> 0..MaxSlot]
          /\ \A x \in Proposer : adu[x] <= adu'[x]
          /\ UNCHANGED <<crnd, adu>>
      BY <1>2, <1>9 DEF PropTypeOK, HandlePromise
    <3>2. CASE IsQuorum(proms)
      <4>1. SetStateFromPromises(p, proms)
                \in [Slot -> Proposal \cup {NoProposal}]
        BY <1>2, <2>1, SetStateType
      <4>2. FirstSlotOfRound(p) \in 1..(MaxSlot + 1)
            /\ reqQueue[p] \in Seq(Value)
        BY <1>2 DEF PropTypeOK, FirstSlotOfRound
      <4>3. SendAccept(p, SetStateFromPromises(p, proms), adu[p],
                       FirstSlotOfRound(p), reqQueue[p])
        BY <1>9, <3>2 DEF HandlePromise
      <4>4. \A x \in Proposer \ {p} : phaseOneDone'[x] = phaseOneDone[x]
        BY <1>2, <1>9, <3>2 DEF HandlePromise, PropTypeOK
      <4>5. \A s \in Slot : ~(adu'[p] < s /\ s < FirstSlotOfRound(p))
        BY <3>1 DEF FirstSlotOfRound, Slot
      <4> HIDE DEF proms
      <4> QED
        BY <3>1, <4>1, <4>2, <4>3, <4>4, <4>5, SendAcceptWindow
    <3>3. CASE ~IsQuorum(proms)
      BY <1>9, <3>1, <3>3, WindowShrinks DEF HandlePromise
    <3> QED
      BY <3>2, <3>3
  <2> QED
    BY <1>2, <1>9, <2>2, <2>3, <2>4 DEF HandlePromise, PropTypeOK, NetTypeOK
<1>10. ASSUME PhaseOneTimeout(p) 
      PROVE  NetTypeOK' /\ PropTypeOK' /\ WindowRetained'
  <2>1. StartPhaseOneClear(p) /\ StartPhaseOne(p)
    BY <1>10 DEF PhaseOneTimeout, StartPhaseOneClear
  <2> QED
    BY <1>2, <1>6, <1>7, <1>10, <2>1
       DEF PhaseOneTimeout, PropTypeOK, NetTypeOK
<1>11. ASSUME NEW S \in SUBSET AlphaWindow(p), phaseOneDone[p]
       PROVE  Retained(p, S) \subseteq AcceptMsg
  <2> SUFFICES ASSUME NEW s \in S
               PROVE  [id |-> p, rnd |-> proposal[p][s].rnd,
                       slot |-> proposal[p][s].slot,
                       val |-> proposal[p][s].val] \in AcceptMsg
    BY DEF Retained
  <2>1. s \in AlphaWindow(p) /\ s \in Slot
    BY DEF AlphaWindow
  <2>2. proposal[p][s] \in Proposal /\ proposal[p][s].slot = s
    BY <1>2, <1>11, <2>1 DEF TypeInv, WindowRetained, PropTypeOK
  <2> QED
    BY <2>1, <2>2 DEF AcceptMsg, Proposal
<1>12. ASSUME ResendAccepts(p)
       PROVE  NetTypeOK' /\ PropTypeOK' /\ WindowRetained'
  <2>1. Retained(p, AlphaWindow(p)) \subseteq AcceptMsg
    BY <1>11, <1>12 DEF ResendAccepts, IsLeaderAndPhaseOneComplete
  <2>2. sentCount' \in [Proposer -> [Slot -> 0..ResendThreshold]]
    BY <1>2, <1>12 DEF ResendAccepts, PropTypeOK
  <2>3. WindowRetained'
    BY <1>2, <1>12, WindowShrinks DEF ResendAccepts, PropTypeOK
  <2> QED
    BY <1>2, <1>12, <2>1, <2>2, <2>3 DEF ResendAccepts, PropTypeOK, NetTypeOK
<1>13. ASSUME ResendLimitReached(p)
       PROVE  NetTypeOK' /\ PropTypeOK' /\ WindowRetained'
  <2>1. PICK s \in AlphaWindow(p) :
           /\ sentCount' = [sentCount EXCEPT ![p] =
                [t \in Slot |-> IF t \notin AlphaWindow(p) THEN @[t]
                                ELSE IF t > s THEN 1 ELSE 0]]
           /\ accepts' = accepts \cup Retained(p, AlphaWindow(p) \ {s})
    BY <1>13 DEF ResendLimitReached
  <2>2. Retained(p, AlphaWindow(p) \ {s}) \subseteq AcceptMsg
    BY <1>11, <1>13 DEF ResendLimitReached, IsLeaderAndPhaseOneComplete
  <2>3. sentCount' \in [Proposer -> [Slot -> 0..ResendThreshold]]
    BY <1>2, <2>1 DEF PropTypeOK
  <2>4. StartPhaseOne(p) /\ UNCHANGED <<proposal, nextSlot, adu>>
    BY <1>13 DEF ResendLimitReached
  <2>5. UNCHANGED <<leader, adu, nextSlot, proposal, reqQueue, promises,
                    learns, creqs, cresps>>
    BY <1>13 DEF ResendLimitReached
  <2> QED
    BY <1>2, <1>6, <2>1, <2>2, <2>3, <2>4, <2>5 DEF PropTypeOK, NetTypeOK
<1> QED
  BY <1>4, <1>5, <1>8, <1>9, <1>10, <1>12, <1>13 DEF ProposerStep

LEMMA TypeAcceptor ==
    ASSUME TypeInv, AccNext, UNCHANGED <<propVars, lrnVars>>
    PROVE  TypeInv'
<1>1. LrnTypeOK' /\ PassedSlotsLearned' /\ WindowRetained'
  BY DEF TypeInv, TypeOK, propVars, lrnVars, LrnTypeOK, PassedSlotsLearned,
         Decided, WindowRetained, AlphaWindow
<1>2. NetTypeOK /\ PropTypeOK /\ AccTypeOK
  BY DEF TypeInv, TypeOK
<1>3. PICK a \in Acceptor : \/ \E m \in prepares : HandlePrepare(a, m)
                            \/ \E m \in accepts : HandleAccept(a, m)
  BY DEF AccNext
<1>4. PropTypeOK'
  <2>1. promises \subseteq promises'
    BY <1>3 DEF HandlePrepare, HandleAccept, IgnoreAccept, VoteFor, netVars
  <2> QED
    BY <1>2, <2>1 DEF PropTypeOK, propVars
<1>5. ASSUME NEW m \in prepares, HandlePrepare(a, m)
      PROVE  NetTypeOK' /\ AccTypeOK'
  <2>1. m.crnd \in OwnedRound
    BY <1>2 DEF NetTypeOK, PrepareMsg
  <2>2. AccSlots(a, m.slot) \subseteq AcceptorSlot
    <3>1. \A s \in Slot : RoundLess(ZeroRound, vrnd[a][s]) =>
             vrnd[a][s] \in OwnedRound /\ vval[a][s] \in Value
      <4>1. ZeroRound \in Round
        BY DEF ZeroRound, Round
      <4> QED
        BY <1>2, <4>1, RoundOrder DEF AccTypeOK
    <3> QED
      BY <3>1 DEF AccSlots, AcceptorSlot
  <2>3. [id |-> a, rnd |-> m.crnd, accslots |-> AccSlots(a, m.slot)]
           \in PromiseMsg
    BY <2>1, <2>2 DEF PromiseMsg
  <2>4. NetTypeOK'
    BY <1>2, <1>5, <2>3 DEF NetTypeOK, HandlePrepare
  <2> QED
    BY <1>2, <1>5, <2>1, <2>4 DEF AccTypeOK, HandlePrepare
<1>6. ASSUME NEW m \in accepts, HandleAccept(a, m)
      PROVE  NetTypeOK' /\ AccTypeOK'
  <2>1. m.rnd \in OwnedRound /\ m.slot \in Slot /\ m.val \in Value
    BY <1>2 DEF NetTypeOK, AcceptMsg
  <2>2. GetSlot(a, m.slot)
    BY <1>6 DEF HandleAccept, IgnoreAccept, VoteFor
  <2>3. maxSeen' \in [Acceptor -> Slot]
    BY <1>2, <2>1, <2>2 DEF GetSlot, AccTypeOK
  <2>4. CASE IgnoreAccept(a, m)
    BY <1>2, <2>3, <2>4 DEF IgnoreAccept, AccTypeOK, NetTypeOK, netVars
  <2>5. CASE VoteFor(a, m)
    <3>1. [id |-> a, rnd |-> m.rnd, slot |-> m.slot, val |-> m.val] \in LearnMsg
      BY <2>1 DEF LearnMsg
    <3>2. NetTypeOK'
      BY <1>2, <2>5, <3>1 DEF VoteFor, NetTypeOK
    <3>3. AccTypeOK'
      BY <1>2, <2>1, <2>3, <2>5 DEF VoteFor, AccTypeOK
    <3> QED
      BY <3>2, <3>3
  <2> QED
    BY <1>6, <2>4, <2>5 DEF HandleAccept
<1> QED
  BY <1>1, <1>3, <1>4, <1>5, <1>6 DEF TypeInv, TypeOK

(* The slots that Advance passes are learned in the updated slot map.      *)
LEMMA AdvanceType ==
    ASSUME TypeInv, NEW l \in Learner, NEW ls \in [Slot -> LearnerSlot],
           lslots' = [lslots EXCEPT ![l] = ls],
           \A s \in Slot : lslots[l][s].learned => ls[s].learned,
           Advance(l, ls) \/ next' = next
    PROVE  /\ next' \in [Learner -> 1..(MaxSlot + 1)]
           /\ PassedSlotsLearned'
<1>1. /\ next \in [Learner -> 1..(MaxSlot + 1)]
      /\ lslots \in [Learner -> [Slot -> LearnerSlot]]
      /\ MaxSlot \in Nat
  BY BoundAssumption DEF TypeInv, TypeOK, LrnTypeOK
<1>2. PICK n \in next[l]..(MaxSlot + 1) :
        /\ \A s \in next[l]..(n - 1) : ls[s].learned
        /\ next' = [next EXCEPT ![l] = n]
  <2>1. CASE Advance(l, ls)
    BY <2>1 DEF Advance
  <2>2. CASE next' = next
    <3>1. next[l] \in next[l]..(MaxSlot + 1)
          /\ next[l]..(next[l] - 1) = {}
      BY <1>1
    <3>2. next' = [next EXCEPT ![l] = next[l]]
      BY <1>1, <2>2
    <3> QED
      BY <3>1, <3>2
  <2> QED
    BY <2>1, <2>2
<1>3. next' \in [Learner -> 1..(MaxSlot + 1)]
  BY <1>1, <1>2
<1>4. ASSUME NEW k \in Learner, NEW s \in Slot, s < next'[k]
      PROVE  lslots'[k][s].learned
  <2>1. CASE k # l
    BY <1>1, <1>2, <1>4, <2>1 DEF TypeInv, PassedSlotsLearned, Decided
  <2>2. CASE k = l
    <3>1. s < n /\ lslots'[k][s] = ls[s] /\ s \in Int /\ n \in Int
      BY <1>1, <1>2, <1>4, <2>2 DEF Slot
    <3>2. CASE s < next[l]
      BY <2>2, <3>1, <3>2 DEF TypeInv, PassedSlotsLearned, Decided
    <3>3. CASE ~(s < next[l])
      <4>1. s \in next[l]..(n - 1)
        BY <1>1, <3>1, <3>3
      <4> QED
        BY <1>2, <3>1, <4>1
    <3> QED
      BY <3>2, <3>3
  <2> QED
    BY <2>1, <2>2
<1> QED
  BY <1>3, <1>4 DEF PassedSlotsLearned, Decided

LEMMA TypeLearner ==
    ASSUME TypeInv, LrnNext, UNCHANGED <<propVars, accVars>>
    PROVE  TypeInv'
<1>1. NetTypeOK /\ PropTypeOK /\ AccTypeOK /\ LrnTypeOK
  BY DEF TypeInv, TypeOK
<1>2. PICK l \in Learner : \/ \E m \in learns : HandleLearn(l, m)
                           \/ \E m \in creqs : HandleCatchUpRequest(l, m)
                           \/ \E m \in cresps : HandleCatchUpResponse(l, m)
                           \/ HandleDecidedVal(l)
  BY DEF LrnNext
<1>3. AccTypeOK' /\ PropTypeOK' /\ WindowRetained'
  <2>1. promises' = promises
    BY <1>2 DEF HandleLearn, HandleCatchUpRequest, HandleCatchUpResponse,
                HandleDecidedVal, netVars
  <2> QED
    BY <1>1, <2>1 DEF AccTypeOK, PropTypeOK, accVars, propVars, TypeInv,
                      WindowRetained, AlphaWindow
<1>4. SUFFICES NetTypeOK' /\ LrnTypeOK' /\ PassedSlotsLearned'
  BY <1>3 DEF TypeInv, TypeOK
<1>5. ASSUME NEW m \in learns, HandleLearn(l, m)
      PROVE  NetTypeOK' /\ LrnTypeOK' /\ PassedSlotsLearned'
  <2> DEFINE sl == lslots[l][m.slot]
             ls == [lslots[l] EXCEPT ![m.slot] = AddLearn(sl, m)]
  <2>1. /\ m.slot \in Slot /\ m.rnd \in OwnedRound
        /\ m.val \in Value /\ m.id \in Acceptor
    BY <1>1 DEF NetTypeOK, LearnMsg
  <2>2. sl \in LearnerSlot /\ lslots[l] \in [Slot -> LearnerSlot]
    BY <1>1, <2>1 DEF LrnTypeOK
  <2>3. AddLearn(sl, m) \in LearnerSlot
        /\ (AddLearn(sl, m).learned => AddLearn(sl, m).val \in Value)
    <3> DEFINE voted == (IF RoundLess(sl.rnd, m.rnd) THEN {} ELSE sl.from)
                          \cup {m.id}
    <3>1. voted \in SUBSET Acceptor
      BY <2>1, <2>2 DEF LearnerSlot
    <3>2. AddLearn(sl, m) = [sl EXCEPT !.rnd = m.rnd, !.from = voted,
                     !.learned = IsQuorum(voted),
                     !.val = IF IsQuorum(voted) THEN m.val ELSE @]
      BY DEF AddLearn
    <3>3. IsQuorum(voted) \in BOOLEAN
      BY DEF IsQuorum
    <3> HIDE DEF voted, sl
    <3> QED
      BY <2>1, <2>2, <3>1, <3>2, <3>3 DEF LearnerSlot
  <2>4. ls \in [Slot -> LearnerSlot]
    BY <2>2, <2>3
  <2>5. /\ lslots' = [lslots EXCEPT ![l] = ls]
        /\ Advance(l, ls) \/ next' = next
        /\ ~sl.learned
    BY <1>5 DEF HandleLearn
  <2>6. \A s \in Slot : lslots[l][s].learned => ls[s].learned
    BY <2>1, <2>2, <2>5
  <2>7. /\ \A s \in Slot : ls[s].learned => ls[s].val \in Value
    BY <1>1, <2>1, <2>2, <2>3 DEF LrnTypeOK
  <2>8. creqs' \subseteq CatchUpRequest
        /\ catchUpInProgress' \in [Learner -> BOOLEAN]
    <3>1. CASE UNCHANGED <<catchUpInProgress, creqs>>
      BY <1>1, <3>1 DEF LrnTypeOK, NetTypeOK
    <3>2. CASE m.slot > next[l] /\ StartCatchUp(l, m.slot)
      <4>1. next[l] \in Slot /\ m.slot - 1 \in Slot
        BY <1>1, <2>1, <3>2, BoundAssumption DEF LrnTypeOK, Slot
      <4>2. \A ldr \in Learner : [id |-> l, dest |-> ldr, from |-> next[l],
                                  to |-> m.slot - 1] \in CatchUpRequest
        BY <4>1 DEF CatchUpRequest
      <4> QED
        BY <1>1, <3>2, <4>2 DEF StartCatchUp, LrnTypeOK, NetTypeOK
    <3> QED
      BY <1>5, <3>1, <3>2 DEF HandleLearn
  <2> HIDE DEF ls, sl
  <2>9. next' \in [Learner -> 1..(MaxSlot + 1)] /\ PassedSlotsLearned'
    BY <2>4, <2>5, <2>6, AdvanceType
  <2>10. NetTypeOK'
    BY <1>1, <1>5, <2>8 DEF HandleLearn, NetTypeOK
  <2>11. LrnTypeOK'
    <3>1. /\ lslots' \in [Learner -> [Slot -> LearnerSlot]]
          /\ \A k \in Learner, s \in Slot :
                 lslots'[k][s].learned => lslots'[k][s].val \in Value
      BY <1>1, <2>4, <2>5, <2>7 DEF LrnTypeOK
    <3>2. aru' \in [Learner -> 0..MaxSlot]
      BY <1>1, <1>5 DEF HandleLearn, LrnTypeOK
    <3> QED
      BY <2>8, <2>9, <3>1, <3>2 DEF LrnTypeOK
  <2> QED
    BY <2>9, <2>10, <2>11
<1>6. ASSUME NEW m \in creqs, HandleCatchUpRequest(l, m)
      PROVE  NetTypeOK' /\ LrnTypeOK' /\ PassedSlotsLearned'
  <2> DEFINE vs == {[slot |-> s, val |-> lslots[l][s].val] :
                      s \in {t \in m.from..m.to : Decided(l, t)}}
  <2>1. m.from \in Slot /\ m.to \in Slot /\ m.id \in Learner
    BY <1>1 DEF NetTypeOK, CatchUpRequest
  <2>2. \A t \in m.from..m.to : t \in Slot
    BY <2>1, BoundAssumption DEF Slot
  <2>3. vs \in SUBSET [slot : Slot, val : Value]
    BY <1>1, <2>2 DEF TypeInv, PassedSlotsLearned, LrnTypeOK
  <2> HIDE DEF vs
  <2>4. [id |-> l, dest |-> m.id, vals |-> vs] \in CatchUpResponse
    BY <2>1, <2>3 DEF CatchUpResponse
  <2>5. NetTypeOK'
    BY <1>1, <1>6, <2>4 DEF HandleCatchUpRequest, NetTypeOK, vs
  <2> QED
    BY <1>1, <1>6, <2>5 DEF HandleCatchUpRequest, LrnTypeOK, TypeInv,
                            PassedSlotsLearned, Decided
<1>7. ASSUME NEW m \in cresps, HandleCatchUpResponse(l, m)
      PROVE  NetTypeOK' /\ LrnTypeOK' /\ PassedSlotsLearned'
  <2> DEFINE missing == {d \in m.vals : ~lslots[l][d.slot].learned}
             ls == [s \in Slot |->
                 IF \E d \in missing : d.slot = s
                 THEN [lslots[l][s] EXCEPT !.learned = TRUE,
                         !.val = (CHOOSE d \in missing : d.slot = s).val]
                 ELSE lslots[l][s]]
  <2>1. \A d \in missing : d.slot \in Slot /\ d.val \in Value
    BY <1>1 DEF NetTypeOK, CatchUpResponse
  <2>2. \A s \in Slot : lslots[l][s] \in LearnerSlot
    BY <1>1 DEF LrnTypeOK
  <2>3. ASSUME NEW s \in Slot, NEW d \in missing, d.slot = s
        PROVE  (CHOOSE e \in missing : e.slot = s).val \in Value
    <3> HIDE DEF missing
    <3>1. (CHOOSE e \in missing : e.slot = s) \in missing
      BY <2>3
    <3> QED
      BY <2>1, <3>1
  <2>4. ASSUME NEW s \in Slot
        PROVE  /\ ls[s] \in LearnerSlot
               /\ lslots[l][s].learned => ls[s].learned
               /\ ls[s].learned => ls[s].val \in Value
    <3> HIDE DEF missing
    <3>1. CASE \E d \in missing : d.slot = s
      <4>1. ls[s] = [lslots[l][s] EXCEPT !.learned = TRUE,
                         !.val = (CHOOSE d \in missing : d.slot = s).val]
        BY <3>1
      <4>2. (CHOOSE d \in missing : d.slot = s).val \in Value
        BY <2>3, <3>1
      <4>3. lslots[l][s] \in LearnerSlot
        BY <2>2
      <4>4. PICK v \in Value : ls[s] = [lslots[l][s] EXCEPT !.learned = TRUE, !.val = v]
        BY <4>1, <4>2
      <4> HIDE DEF ls
      <4> QED
        BY <4>3, <4>4 DEF LearnerSlot
    <3>2. CASE ~\E d \in missing : d.slot = s
      BY <1>1, <2>2, <3>2 DEF LrnTypeOK
    <3> QED
      BY <3>1, <3>2
  <2>5. ls \in [Slot -> LearnerSlot]
    BY <2>4
  <2>6. lslots' = [lslots EXCEPT ![l] = ls] /\ Advance(l, ls)
    BY <1>7 DEF HandleCatchUpResponse
  <2> HIDE DEF ls
  <2>7. next' \in [Learner -> 1..(MaxSlot + 1)] /\ PassedSlotsLearned'
    BY <2>4, <2>5, <2>6, AdvanceType
  <2>8. LrnTypeOK'
    <3>1. /\ aru' = aru
          /\ catchUpInProgress' = [catchUpInProgress EXCEPT ![l] = FALSE]
      BY <1>7 DEF HandleCatchUpResponse
    <3>2. lslots' \in [Learner -> [Slot -> LearnerSlot]]
      BY <1>1, <2>5, <2>6 DEF LrnTypeOK
    <3>3. \A k \in Learner, s \in Slot :
              lslots'[k][s].learned => lslots'[k][s].val \in Value
      BY <1>1, <2>4, <2>6 DEF LrnTypeOK
    <3> QED
      BY <1>1, <2>7, <3>1, <3>2, <3>3 DEF LrnTypeOK
  <2> QED
    BY <1>1, <1>7, <2>7, <2>8 DEF HandleCatchUpResponse, NetTypeOK, netVars
<1>8. ASSUME HandleDecidedVal(l)
      PROVE  NetTypeOK' /\ LrnTypeOK' /\ PassedSlotsLearned'
  <2>1. aru' \in [Learner -> 0..MaxSlot]
    BY <1>1, <1>8, BoundAssumption DEF HandleDecidedVal, LrnTypeOK
  <2> QED
    BY <1>1, <1>8, <2>1 DEF HandleDecidedVal, LrnTypeOK, NetTypeOK, netVars,
                            TypeInv, PassedSlotsLearned, Decided
<1> QED
  BY <1>2, <1>5, <1>6, <1>7, <1>8

LEMMA TypeStep == TypeInv /\ [Next]_vars => TypeInv'
<1> SUFFICES ASSUME TypeInv, [Next]_vars PROVE TypeInv'
  OBVIOUS
<1>1. CASE \E p \in Proposer : ProposerStep(p) /\ UNCHANGED <<accVars, lrnVars>>
  BY <1>1, TypeProposer
<1>2. CASE AccNext /\ UNCHANGED <<propVars, lrnVars>>
  BY <1>2, TypeAcceptor
<1>3. CASE LrnNext /\ UNCHANGED <<propVars, accVars>>
  BY <1>3, TypeLearner
<1>4. CASE UNCHANGED vars
  BY <1>4, TypeStutter
<1> QED
  BY <1>1, <1>2, <1>3, <1>4 DEF Next

(* The state always has its type; in particular every Accept that is sent  *)
(* or resent carries a slot and a client's value.                          *)
THEOREM TypeCorrect == Spec => []TypeOK
<1>1. Spec => []TypeInv
  BY TypeInit, TypeStep, PTL DEF Spec
<1>2. TypeInv => TypeOK
  BY DEF TypeInv
<1> QED
  BY <1>1, <1>2, PTL

(* No learner reaches the panic of learnVal: the slots it has passed are   *)
(* learned, so that handleLrn ignores Learns for them.                     *)
THEOREM NoLearnPanic == Spec => []PassedSlotsLearned
<1>1. Spec => []TypeInv
  BY TypeInit, TypeStep, PTL DEF Spec
<1>2. TypeInv => PassedSlotsLearned
  BY DEF TypeInv
<1> QED
  BY <1>1, <1>2, PTL

(* The proposer only ever resends its own Accepts of the current round.    *)
THEOREM ResendsCorrect == Spec => []ResendsOwnAccepts
<1>1. Spec => []TypeInv
  BY TypeInit, TypeStep, PTL DEF Spec
<1>2. TypeInv => ResendsOwnAccepts
  BY DEF TypeInv, WindowRetained, ResendsOwnAccepts,
         IsLeaderAndPhaseOneComplete
<1> QED
  BY <1>1, <1>2, PTL
=============================================================================
