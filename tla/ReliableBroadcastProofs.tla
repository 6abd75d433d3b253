---------------------- MODULE ReliableBroadcastProofs -----------------------
(***************************************************************************)
(* Proofs about ReliableBroadcast for every group of 3 * nFaulty + 1       *)
(* replicas with at most nFaulty faulty or stopped ones, and any values:   *)
(* an acceptor commits to one hash, and two sets of more than 2 * nFaulty  *)
(* replicas have a correct one in common.  Then about the parts beside it: *)
(* the learners of authenticatedbc (AuthenticatedBroadcast) and the window *)
(* of the publisher (PublishWindow).                                       *)
(***************************************************************************)
EXTENDS BroadcastParts, FiniteSetTheorems, SequenceTheorems,
        WellFoundedInduction, TLAPS

(* SentCommit: an acceptor commits once.                                   *)
OneCommit ==
    \A r \in Correct : \A v, w \in committed[r] : v = w

(* A learner counts what was sent.                                         *)
CountsSent ==
    \A r \in Learner, q \in Replica, v \in Value :
        lcommits[r][q] = v => MayReceive(committed, q, v)

IndInv == TypeOK /\ OneCommit /\ CountsSent

-----------------------------------------------------------------------------
(* Quorums.                                                                *)

LEMMA FaultsBounded ==
    /\ nFaulty \in Nat
    /\ IsFiniteSet(Faulty) /\ Cardinality(Faulty) \in Nat
    /\ Cardinality(Faulty) <= nFaulty
<1>1. Cardinality(Replica) \in Nat
  BY ReplicaAssumption, FS_CardinalityType
<1>2. nFaulty \in Int
  BY <1>1 DEF nFaulty
<1>3. nFaulty \in Nat
  BY <1>1, <1>2, ReplicaAssumption
<1>4. IsFiniteSet(Faulty \cup Stopped) /\ IsFiniteSet(Faulty)
  BY ReplicaAssumption, FaultAssumption, FS_Subset
<1>5. /\ Cardinality(Faulty \cup Stopped) \in Nat
      /\ Cardinality(Faulty) \in Nat
      /\ Cardinality(Faulty) <= Cardinality(Faulty \cup Stopped)
  BY <1>4, FS_CardinalityType, FS_Subset
<1> QED
  BY <1>2, <1>3, <1>4, <1>5, FaultAssumption

(* Two sets above the learner's threshold have a replica in common that is *)
(* not faulty.                                                             *)
LEMMA QuorumsMeet ==
    ASSUME NEW A \in SUBSET Replica, NEW B \in SUBSET Replica,
           Cardinality(A) > 2 * nFaulty, Cardinality(B) > 2 * nFaulty
    PROVE  \E q \in A \cap B : q \notin Faulty
<1> SUFFICES ASSUME A \cap B \subseteq Faulty PROVE FALSE
  OBVIOUS
<1>1. /\ IsFiniteSet(A) /\ IsFiniteSet(B) /\ IsFiniteSet(A \cap B)
      /\ IsFiniteSet(A \cup B)
  BY ReplicaAssumption, FS_Subset, FS_Union
<1>2. /\ Cardinality(A) \in Nat /\ Cardinality(B) \in Nat
      /\ Cardinality(A \cap B) \in Nat /\ Cardinality(A \cup B) \in Nat
  BY <1>1, FS_CardinalityType
<1>3. Cardinality(A \cup B) = Cardinality(A) + Cardinality(B) - Cardinality(A \cap B)
  BY <1>1, FS_Union
<1>4. Cardinality(A \cup B) <= Cardinality(Replica)
  BY ReplicaAssumption, FS_Subset
<1>5. Cardinality(A \cap B) <= Cardinality(Faulty)
  BY FaultsBounded, FS_Subset
<1> QED
  BY <1>2, <1>3, <1>4, <1>5, FaultsBounded, ReplicaAssumption

-----------------------------------------------------------------------------
(* Types.                                                                  *)

LEMMA Entered ==
    ASSUME NEW P \in Received, NEW q \in Replica, NEW v \in Value
    PROVE  [P EXCEPT ![q] = v] \in Received
  BY DEF Received

LEMMA PreparesTyped ==
    ASSUME TypeOK, NEW r \in Correct, NEW v \in Value, NEW P \in Received,
           SendPrepare(r, v, P)
    PROVE  /\ prepared' \in [Correct -> SUBSET Value]
           /\ prepares' \in [Correct -> Received]
<1>1. r \in Replica
  BY DEF Correct
<1>2. [P EXCEPT ![r] = v] \in Received
  BY <1>1, Entered
<1> QED
  BY <1>2 DEF SendPrepare, TypeOK

LEMMA CommitsTyped ==
    ASSUME TypeOK, NEW r \in Correct, NEW v \in Value, NEW C \in Received,
           SendCommit(r, v, C)
    PROVE  /\ committed' \in [Correct -> SUBSET Value]
           /\ commits' \in [Correct -> Received]
<1>1. r \in Replica
  BY DEF Correct
<1>2. [C EXCEPT ![r] = v] \in Received
  BY <1>1, Entered
<1> QED
  BY <1>2 DEF SendCommit, TypeOK

LEMMA BothTyped ==
    ASSUME TypeOK, NEW r \in Correct, NEW v \in Value, NEW P \in Received,
           NEW C \in Received, PrepareAndCommit(r, v, P, C)
    PROVE  /\ prepared' \in [Correct -> SUBSET Value]
           /\ prepares' \in [Correct -> Received]
           /\ committed' \in [Correct -> SUBSET Value]
           /\ commits' \in [Correct -> Received]
<1>1. CASE prepared[r] = {}
  BY <1>1, PreparesTyped, CommitsTyped DEF PrepareAndCommit
<1>2. CASE prepared[r] # {}
  BY <1>2, CommitsTyped DEF PrepareAndCommit, TypeOK
<1> QED
  BY <1>1, <1>2

LEMMA TypeStep == TypeOK /\ [Next]_vars => TypeOK'
<1> SUFFICES ASSUME TypeOK, [Next]_vars PROVE TypeOK'
  OBVIOUS
<1> USE DEF accVars, lrnVars
<1>1. CASE UNCHANGED vars
  BY <1>1 DEF vars, TypeOK
<1>2. ASSUME NEW v \in Value, Publish(v) PROVE TypeOK'
  BY <1>2 DEF Publish, TypeOK
<1>3. ASSUME NEW r \in Correct, NEW v \in Value, HandlePublish(r, v) PROVE TypeOK'
  <2>1. prepares[r] \in Received
    BY DEF TypeOK
  <2>2. CASE prepared[r] = {}
    BY <1>3, <2>1, <2>2, PreparesTyped DEF HandlePublish, TypeOK
  <2>3. CASE prepared[r] # {}
    BY <1>3, <2>3 DEF HandlePublish, TypeOK
  <2> QED
    BY <2>2, <2>3
<1>4. ASSUME NEW r \in Correct, NEW q \in Replica, NEW v \in Value,
             HandlePrepare(r, q, v)
      PROVE  TypeOK'
  <2> DEFINE P == [prepares[r] EXCEPT ![q] = v]
  <2>1. P \in Received /\ commits[r] \in Received
    BY Entered DEF TypeOK
  <2>2. CASE SomeHashAbove(P, 2 * nFaulty)
    <3>1. PrepareAndCommit(r, v, P, commits[r])
      BY <1>4, <2>2 DEF HandlePrepare
    <3>2. UNCHANGED <<pub, value, lcommits, decided, resp, learned>>
      BY <1>4 DEF HandlePrepare
    <3> HIDE DEF P
    <3> QED
      BY <3>1, <3>2, <2>1, BothTyped DEF TypeOK
  <2>3. CASE ~SomeHashAbove(P, 2 * nFaulty)
    BY <1>4, <2>1, <2>3 DEF HandlePrepare, TypeOK
  <2> QED
    BY <2>2, <2>3
<1>5. ASSUME NEW r \in Correct, NEW q \in Replica, NEW v \in Value,
             HandleCommit(r, q, v)
      PROVE  TypeOK'
  <2> DEFINE C == [commits[r] EXCEPT ![q] = v]
  <2>1. C \in Received /\ prepares[r] \in Received
    BY Entered DEF TypeOK
  <2>2. CASE SomeHashAbove(C, nFaulty)
    <3>1. PrepareAndCommit(r, v, prepares[r], C)
      BY <1>5, <2>2 DEF HandleCommit
    <3>2. UNCHANGED <<pub, value, lcommits, decided, resp, learned>>
      BY <1>5 DEF HandleCommit
    <3> HIDE DEF C
    <3> QED
      BY <3>1, <3>2, <2>1, BothTyped DEF TypeOK
  <2>3. CASE ~SomeHashAbove(C, nFaulty)
    BY <1>5, <2>1, <2>3 DEF HandleCommit, TypeOK
  <2> QED
    BY <2>2, <2>3
<1>6. ASSUME NEW r \in Learner, NEW q \in Replica, NEW v \in Value,
             LearnCommit(r, q, v)
      PROVE  TypeOK'
  <2>1. [lcommits[r] EXCEPT ![q] = v] \in Received
    BY Entered DEF TypeOK
  <2> QED
    BY <1>6, <2>1 DEF LearnCommit, TypeOK
<1>7. ASSUME NEW r \in Learner, SendVal(r) PROVE TypeOK'
  <2>1. value[r] \in Value \cup {None}
    BY LearnerAssumption DEF TypeOK
  <2>2. [id |-> r, val |-> value[r]] \in Response
    BY <2>1 DEF Response
  <2> QED
    BY <1>7, <2>2 DEF SendVal, TypeOK
<1>8. ASSUME NEW m \in resp, StoreVal(m) PROVE TypeOK'
  BY <1>8 DEF StoreVal, TypeOK
<1> QED
  BY <1>1, <1>2, <1>3, <1>4, <1>5, <1>6, <1>7, <1>8 DEF Next

-----------------------------------------------------------------------------
(* Commits.                                                                *)

(* A step changes the commits of at most one acceptor, from none to one.   *)
LEMMA CommitStep ==
    ASSUME TypeOK, [Next]_vars
    PROVE  \/ UNCHANGED committed
           \/ \E r \in Correct, v \in Value :
                 committed[r] = {} /\ committed' = [committed EXCEPT ![r] = {v}]
<1> USE DEF accVars, lrnVars
<1>1. CASE UNCHANGED vars
  BY <1>1 DEF vars
<1>2. ASSUME NEW r \in Correct, NEW q \in Replica, NEW v \in Value,
             HandlePrepare(r, q, v) \/ HandleCommit(r, q, v)
      PROVE  \/ UNCHANGED committed
             \/ committed[r] = {} /\ committed' = [committed EXCEPT ![r] = {v}]
  <2>1. committed[r] = {}
    BY <1>2 DEF HandlePrepare, HandleCommit
  <2>2. \/ UNCHANGED committed
        \/ committed' = [committed EXCEPT ![r] = @ \cup {v}]
    BY <1>2 DEF HandlePrepare, HandleCommit, PrepareAndCommit, SendCommit
  <2> QED
    BY <2>1, <2>2
<1>3. ASSUME NEW r \in Learner, NEW q \in Replica, NEW v \in Value,
             LearnCommit(r, q, v)
      PROVE  UNCHANGED committed
  BY <1>3 DEF LearnCommit
<1>4. ASSUME NEW r \in Correct, NEW v \in Value, Publish(v) \/ HandlePublish(r, v)
      PROVE  UNCHANGED committed
  BY <1>4 DEF Publish, HandlePublish
<1>5. ASSUME NEW v \in Value, Publish(v) PROVE UNCHANGED committed
  BY <1>5 DEF Publish
<1>6. ASSUME NEW r \in Learner, SendVal(r) PROVE UNCHANGED committed
  BY <1>6 DEF SendVal
<1>7. ASSUME NEW m \in resp, StoreVal(m) PROVE UNCHANGED committed
  BY <1>7 DEF StoreVal
<1> QED
  BY <1>1, <1>2, <1>3, <1>4, <1>5, <1>6, <1>7 DEF Next

(* Commits are never taken back.                                           *)
LEMMA CommitsStay ==
    ASSUME TypeOK, [Next]_vars, NEW r \in Correct
    PROVE  committed[r] \subseteq committed'[r]
  BY CommitStep DEF TypeOK

(* A step adds one entry of one learner, a Commit that was sent.           *)
LEMMA CountStep ==
    ASSUME TypeOK, [Next]_vars
    PROVE  \/ UNCHANGED lcommits
           \/ \E r \in Learner, q \in Replica, v \in Value :
                 /\ MayReceive(committed, q, v)
                 /\ lcommits' = [lcommits EXCEPT ![r] = [lcommits[r] EXCEPT ![q] = v]]
<1>1. ASSUME NEW r \in Learner, NEW q \in Replica, NEW v \in Value,
             LearnCommit(r, q, v)
      PROVE  /\ MayReceive(committed, q, v)
             /\ lcommits' = [lcommits EXCEPT ![r] = [lcommits[r] EXCEPT ![q] = v]]
  BY <1>1 DEF LearnCommit
<1>2. \/ \E r \in Learner, q \in Replica, v \in Value : LearnCommit(r, q, v)
      \/ UNCHANGED lcommits
  BY ZenonT(60) DEF vars, lrnVars, Next, Publish, HandlePublish, HandlePrepare,
                    HandleCommit, SendVal, StoreVal
<1>3. CASE \E r \in Learner, q \in Replica, v \in Value : LearnCommit(r, q, v)
  <2>1. PICK r \in Learner, q \in Replica, v \in Value : LearnCommit(r, q, v)
    BY <1>3
  <2> QED
    BY <1>1, <2>1
<1> QED
  BY <1>2, <1>3

LEMMA InitHolds == Init => IndInv
<1> SUFFICES ASSUME Init PROVE IndInv
  OBVIOUS
<1>1. Nothing \in Received
  BY DEF Nothing, Received
<1>2. TypeOK
  BY <1>1 DEF Init, TypeOK
<1>3. OneCommit
  BY DEF Init, OneCommit
<1>4. CountsSent
  BY BroadcastValueAssumption DEF Init, CountsSent, Nothing
<1> QED
  BY <1>2, <1>3, <1>4 DEF IndInv

LEMMA StepKeeps == IndInv /\ [Next]_vars => IndInv'
<1> SUFFICES ASSUME IndInv, [Next]_vars PROVE IndInv'
  OBVIOUS
<1>1. TypeOK /\ TypeOK'
  BY TypeStep DEF IndInv
<1>2. OneCommit'
  BY <1>1, CommitStep DEF OneCommit, IndInv, TypeOK
<1>3. ASSUME NEW q \in Replica, NEW v \in Value, MayReceive(committed, q, v)
      PROVE  MayReceive(committed', q, v)
  BY <1>1, <1>3, CommitsStay DEF MayReceive
<1>4. ASSUME NEW r \in Learner, NEW q \in Replica, NEW v \in Value,
             lcommits'[r][q] = v
      PROVE  MayReceive(committed, q, v)
  <2>1. CASE UNCHANGED lcommits
    BY <1>4, <2>1 DEF IndInv, CountsSent
  <2>2. CASE \E s \in Learner, p \in Replica, w \in Value :
                 /\ MayReceive(committed, p, w)
                 /\ lcommits' = [lcommits EXCEPT ![s] = [lcommits[s] EXCEPT ![p] = w]]
    <3>1. PICK s \in Learner, p \in Replica, w \in Value :
                 /\ MayReceive(committed, p, w)
                 /\ lcommits' = [lcommits EXCEPT ![s] = [lcommits[s] EXCEPT ![p] = w]]
      BY <2>2
    <3>2. lcommits[r] \in Received /\ lcommits \in [Learner -> Received]
      BY <1>1 DEF TypeOK
    <3>3. CASE r = s /\ q = p
      <4>1. lcommits'[r][q] = w
        BY <3>1, <3>2, <3>3 DEF Received
      <4> QED
        BY <4>1, <1>4, <3>1, <3>3
    <3>4. CASE ~(r = s /\ q = p)
      <4>1. lcommits'[r][q] = lcommits[r][q]
        BY <3>1, <3>2, <3>4 DEF Received
      <4> QED
        BY <4>1, <1>4 DEF IndInv, CountsSent
    <3> QED
      BY <3>3, <3>4
  <2> QED
    BY <1>1, <2>1, <2>2, CountStep
<1>5. CountsSent'
  BY <1>3, <1>4 DEF CountsSent, MayReceive
<1> QED
  BY <1>1, <1>2, <1>5 DEF IndInv

-----------------------------------------------------------------------------
(* Results.                                                                *)

(* Types of the round's state in acceptors and learners.                   *)
THEOREM TypesHold == Spec => []TypeOK
<1>1. IndInv => TypeOK
  BY DEF IndInv
<1> QED
  BY <1>1, InitHolds, StepKeeps, PTL DEF Spec

(* Values that above 2 * nFaulty replicas sent or may have sent are equal. *)
LEMMA SentAgree ==
    ASSUME IndInv, NEW v \in Value, NEW w \in Value,
           NEW A \in SUBSET Replica, NEW B \in SUBSET Replica,
           Cardinality(A) > 2 * nFaulty, Cardinality(B) > 2 * nFaulty,
           \A q \in A : MayReceive(committed, q, v),
           \A q \in B : MayReceive(committed, q, w)
    PROVE  v = w
<1>1. PICK q \in A \cap B : q \notin Faulty
  BY QuorumsMeet
<1>2. q \in Correct /\ v \in committed[q] /\ w \in committed[q]
  BY <1>1 DEF MayReceive
<1> QED
  BY <1>2 DEF IndInv, OneCommit

LEMMA InvAgreement == IndInv => Agreement
<1> SUFFICES ASSUME IndInv, NEW v \in Value, NEW w \in Value,
                    Decidable(committed, v), Decidable(committed, w)
             PROVE  v = w
  BY DEF Agreement
<1> DEFINE Senders(x) == {q \in Replica : MayReceive(committed, q, x)}
<1>1. Cardinality(Senders(v)) > 2 * nFaulty /\ Cardinality(Senders(w)) > 2 * nFaulty
  BY DEF Decidable
<1>2. Senders(v) \in SUBSET Replica /\ Senders(w) \in SUBSET Replica
  OBVIOUS
<1>3. /\ \A q \in Senders(v) : MayReceive(committed, q, v)
      /\ \A q \in Senders(w) : MayReceive(committed, q, w)
  OBVIOUS
<1> HIDE DEF Senders
<1> QED
  BY <1>1, <1>2, <1>3, SentAgree

LEMMA InvLearnersAgree == IndInv => LearnersAgree
<1> SUFFICES ASSUME IndInv, NEW r \in decided, NEW s \in decided,
                    NEW v \in Value, NEW w \in Value, Decides(r, v), Decides(s, w)
             PROVE  v = w
  BY DEF LearnersAgree
<1> DEFINE A == From(lcommits[r], v)
           B == From(lcommits[s], w)
<1>1. r \in Learner /\ s \in Learner
  BY DEF IndInv, TypeOK
<1>2. A \in SUBSET Replica /\ B \in SUBSET Replica
  BY DEF From
<1>3. /\ \A q \in A : MayReceive(committed, q, v)
      /\ \A q \in B : MayReceive(committed, q, w)
  BY <1>1 DEF From, IndInv, CountsSent
<1>4. Cardinality(A) > 2 * nFaulty /\ Cardinality(B) > 2 * nFaulty
  BY DEF Decides
<1> HIDE DEF A, B
<1> QED
  BY <1>2, <1>3, <1>4, SentAgree

(* No two values can be decided in a round of reliablebc, whatever the     *)
(* faulty replicas send and whichever Commits reach whom.                  *)
THEOREM BroadcastAgrees == Spec => []Agreement
  BY InvAgreement, InitHolds, StepKeeps, PTL DEF Spec

(* The learners of correct replicas decide the same value.                 *)
THEOREM LearnersDecideSame == Spec => []LearnersAgree
  BY InvLearnersAgree, InitHolds, StepKeeps, PTL DEF Spec
-----------------------------------------------------------------------------
(* Package authenticatedbc.                                                *)

(* Authbc is an instance of Broadcast with the same constants: its         *)
(* operators are this module's.                                            *)
LEMMA AuthCardinality ==
    ASSUME NEW S
    PROVE  Authbc!Cardinality(S) = Cardinality(S)
BY DEF Authbc!Cardinality, Cardinality

LEMMA AuthOperators ==
    /\ Authbc!Correct = Correct
    /\ Authbc!Nothing = Nothing
    /\ Authbc!nFaulty = nFaulty
BY AuthCardinality DEF Authbc!Correct, Correct, Authbc!Nothing, Nothing,
   Authbc!nFaulty, nFaulty

AuthType ==
    /\ aForwards \in [Correct -> Seq(Value)]
    /\ aHandled \in [AuthLearner -> [Correct -> Nat]]
    /\ aLforwards \in [AuthLearner -> Received]
    /\ aDecided \subseteq AuthLearner

(* What the learner of r has of q: nothing from a stopped replica, the     *)
(* first Forward of a correct one, and that as soon as a Forward was       *)
(* handled, unless the round was decided without it.                       *)
KeepsFirst(r, q) ==
    /\ q \in Stopped \ Faulty => aLforwards[r][q] = None
    /\ q \in Correct /\ aLforwards[r][q] # None =>
          /\ Len(aForwards[q]) > 0
          /\ aLforwards[r][q] = aForwards[q][1]
    /\ q \in Correct /\ aHandled[r][q] > 0 =>
          r \in aDecided \/ aLforwards[r][q] # None

AuthInv == AuthType /\ \A r \in AuthLearner, q \in Replica : KeepsFirst(r, q)

LEMMA AuthInit == Authbc!Init => AuthInv
<1> SUFFICES ASSUME Authbc!Init PROVE AuthInv
  OBVIOUS
<1>1. Nothing \in Received /\ << >> \in Seq(Value)
  BY DEF Nothing, Received
<1>2. AuthType
  BY <1>1, AuthOperators DEF Authbc!Init, AuthType
<1>3. ASSUME NEW r \in AuthLearner, NEW q \in Replica PROVE KeepsFirst(r, q)
  BY AuthOperators DEF Authbc!Init, KeepsFirst, Nothing
<1> QED
  BY <1>2, <1>3 DEF AuthInv

(* Forwards are only appended.                                             *)
LEMMA AuthForwards ==
    ASSUME AuthInv, NEW r \in Correct, NEW v \in Value,
           Authbc!HandlePublish(r, v)
    PROVE  AuthInv'
<1>1. /\ aForwards' = [aForwards EXCEPT ![r] = Append(@, v)]
      /\ UNCHANGED <<aHandled, aLforwards, aDecided>>
  BY DEF Authbc!HandlePublish, Authbc!lrnVars
<1>2. aForwards[r] \in Seq(Value)
  BY DEF AuthInv, AuthType
<1>3. Append(aForwards[r], v) \in Seq(Value)
  BY <1>2
<1>4. AuthType'
  BY <1>1, <1>3 DEF AuthInv, AuthType
<1>5. ASSUME NEW q \in Correct, Len(aForwards[q]) > 0
      PROVE  Len(aForwards'[q]) > 0 /\ aForwards'[q][1] = aForwards[q][1]
  <2>1. CASE q = r
    <3>1. aForwards'[q] = Append(aForwards[r], v)
      BY <1>1, <2>1 DEF AuthInv, AuthType
    <3> QED
      BY <1>2, <1>5, <2>1, <3>1
  <2>2. CASE q # r
    BY <1>1, <1>5, <2>2 DEF AuthInv, AuthType
  <2> QED
    BY <2>1, <2>2
<1>6. ASSUME NEW s \in AuthLearner, NEW q \in Replica PROVE KeepsFirst(s, q)'
  <2>1. KeepsFirst(s, q)
    BY DEF AuthInv
  <2> QED
    BY <1>1, <1>5, <2>1 DEF KeepsFirst
<1> QED
  BY <1>4, <1>6 DEF AuthInv

(* A learner keeps the first Forward of each replica.                      *)
LEMMA AuthCounts ==
    ASSUME AuthInv, NEW r \in AuthLearner, NEW q \in Replica, NEW v \in Value,
           Authbc!HandleForward(r, q, v)
    PROVE  AuthInv'
<1>1. /\ UNCHANGED aForwards
      /\ aHandled' = IF q \in Correct
                     THEN [aHandled EXCEPT ![r][q] = @ + 1] ELSE aHandled
      /\ Authbc!Arrives(r, q, v)
  BY AuthOperators DEF Authbc!HandleForward, Authbc!accVars
<1>2. CASE r \in aDecided \/ aLforwards[r][q] # None
  <2>1. UNCHANGED <<aLforwards, aDecided>>
    BY <1>2 DEF Authbc!HandleForward
  <2>2. AuthType'
    BY <1>1, <2>1 DEF AuthInv, AuthType
  <2>3. ASSUME NEW s \in AuthLearner, NEW p \in Replica PROVE KeepsFirst(s, p)'
    <3>1. KeepsFirst(s, p)
      BY DEF AuthInv
    <3>2. CASE s = r /\ p = q
      BY <1>1, <1>2, <2>1, <3>1, <3>2 DEF KeepsFirst
    <3>3. CASE ~(s = r /\ p = q)
      <4>1. p \in Correct => aHandled'[s][p] = aHandled[s][p]
        BY <1>1, <3>3 DEF AuthInv, AuthType
      <4> QED
        BY <1>1, <2>1, <3>1, <4>1 DEF KeepsFirst
    <3> QED
      BY <3>2, <3>3
  <2> QED
    BY <2>2, <2>3 DEF AuthInv
<1>3. CASE r \notin aDecided /\ aLforwards[r][q] = None
  <2>1. /\ aLforwards' = [aLforwards EXCEPT ![r] = [aLforwards[r] EXCEPT ![q] = v]]
        /\ aDecided' = aDecided \/ aDecided' = aDecided \cup {r}
    BY <1>3 DEF Authbc!HandleForward, Authbc!Count
  <2>2. [aLforwards[r] EXCEPT ![q] = v] \in Received
    BY Entered DEF AuthInv, AuthType
  <2>3. AuthType'
    BY <1>1, <2>1, <2>2 DEF AuthInv, AuthType
  <2>4. ASSUME NEW s \in AuthLearner, NEW p \in Replica PROVE KeepsFirst(s, p)'
    <3>1. KeepsFirst(s, p)
      BY DEF AuthInv
    <3>2. CASE s = r /\ p = q
      <4>1. aLforwards'[s][p] = v
        BY <2>1, <3>2 DEF AuthInv, AuthType, Received
      <4>2. CASE q \in Correct
        <5>1. aHandled[r][q] = 0
          BY <1>3, <3>1, <3>2, <4>2 DEF AuthInv, AuthType, KeepsFirst
        <5>2. 0 < Len(aForwards[q]) /\ v = aForwards[q][1]
          BY <1>1, <4>2, <5>1 DEF Authbc!Arrives, Correct
        <5> QED
          BY <1>1, <3>2, <4>1, <4>2, <5>2, BroadcastValueAssumption
             DEF KeepsFirst, Correct
      <4>3. CASE q \notin Correct
        <5>1. q \in Faulty
          BY <1>1, <4>3, AuthOperators DEF Authbc!Arrives
        <5> QED
          BY <3>2, <4>3, <5>1 DEF KeepsFirst
      <4> QED
        BY <4>2, <4>3
    <3>3. CASE ~(s = r /\ p = q)
      <4>1. p \in Correct => aHandled'[s][p] = aHandled[s][p]
        BY <1>1, <3>3 DEF AuthInv, AuthType
      <4>2. aLforwards'[s][p] = aLforwards[s][p]
        BY <2>1, <3>3 DEF AuthInv, AuthType, Received
      <4> QED
        BY <1>1, <2>1, <3>1, <4>1, <4>2 DEF KeepsFirst
    <3> QED
      BY <3>2, <3>3
  <2> QED
    BY <2>3, <2>4 DEF AuthInv
<1> QED
  BY <1>2, <1>3

(* The step of a part that leaves what AuthInv speaks of.                  *)
LEMMA AuthIdle ==
    ASSUME AuthInv, UNCHANGED <<aForwards, aHandled, aLforwards, aDecided>>
    PROVE  AuthInv'
<1>1. AuthType'
  BY DEF AuthInv, AuthType
<1>2. ASSUME NEW r \in AuthLearner, NEW q \in Replica PROVE KeepsFirst(r, q)'
  BY DEF AuthInv, KeepsFirst
<1> QED
  BY <1>1, <1>2 DEF AuthInv

LEMMA AuthStep ==
    AuthInv /\ [PartsNext]_<<protocol, vars, authbcVars, windowVars>> => AuthInv'
<1> SUFFICES ASSUME AuthInv,
                    [PartsNext]_<<protocol, vars, authbcVars, windowVars>>
             PROVE  AuthInv'
  OBVIOUS
<1>1. CASE UNCHANGED authbcVars
  BY <1>1, AuthIdle DEF authbcVars
<1>2. CASE Authbc!Next
  <2>1. ASSUME NEW r \in Correct, NEW v \in Value, Authbc!HandlePublish(r, v)
        PROVE  AuthInv'
    BY <2>1, AuthForwards
  <2>2. ASSUME NEW r \in AuthLearner, NEW q \in Replica, NEW v \in Value,
               Authbc!HandleForward(r, q, v)
        PROVE  AuthInv'
    BY <2>2, AuthCounts
  <2>3. CASE UNCHANGED <<aForwards, aHandled, aLforwards, aDecided>>
    BY <2>3, AuthIdle
  <2>4. ASSUME NEW v \in Value, Authbc!Publish(v)
        PROVE  UNCHANGED <<aForwards, aHandled, aLforwards, aDecided>>
    BY <2>4 DEF Authbc!Publish, Authbc!accVars, Authbc!lrnVars
  <2>5. ASSUME NEW r, Authbc!SendVal(r) \/ Authbc!StoreVal(r)
        PROVE  UNCHANGED <<aForwards, aHandled, aLforwards, aDecided>>
    BY <2>5 DEF Authbc!SendVal, Authbc!StoreVal, Authbc!accVars
  <2> QED
    BY <1>2, <2>1, <2>2, <2>3, <2>4, <2>5, AuthOperators DEF Authbc!Next
<1> QED
  BY <1>1, <1>2 DEF PartsNext, RelbcNext, AuthbcNext, WindowNext

LEMMA InvAuthAgrees == AuthInv => AuthbcAgrees
<1> SUFFICES ASSUME AuthInv, NEW r \in aDecided, NEW s \in aDecided,
                    NEW v \in Value, NEW w \in Value,
                    Authbc!Decides(r, v), Authbc!Decides(s, w)
             PROVE  v = w
  BY DEF AuthbcAgrees, Authbc!LearnersAgree
<1> DEFINE A == {q \in Replica : aLforwards[r][q] = v}
           B == {q \in Replica : aLforwards[s][q] = w}
<1>1. r \in AuthLearner /\ s \in AuthLearner
  BY DEF AuthInv, AuthType
<1>2. A \in SUBSET Replica /\ B \in SUBSET Replica
  OBVIOUS
<1>3. Authbc!From(aLforwards[r], v) = A /\ Authbc!From(aLforwards[s], w) = B
  BY DEF Authbc!From
<1>4. Cardinality(A) > 2 * nFaulty /\ Cardinality(B) > 2 * nFaulty
  BY <1>3, AuthCardinality, AuthOperators DEF Authbc!Decides
<1>5. PICK q \in Replica : q \in A /\ q \in B /\ q \notin Faulty
  <2> HIDE DEF A, B
  <2> QED
    BY <1>2, <1>4, QuorumsMeet
<1>6. aLforwards[r][q] = v /\ aLforwards[s][q] = w
  BY <1>5
<1>7. KeepsFirst(r, q) /\ KeepsFirst(s, q)
  BY <1>1 DEF AuthInv
<1> QED
  BY <1>5, <1>6, <1>7, BroadcastValueAssumption DEF KeepsFirst, Correct

(* The learners of authenticatedbc decide the same value, though acceptors *)
(* forward every value a faulty publisher sends them (authlearner.go).     *)
THEOREM AuthbcAgreesTheorem == PartsSpec => []AuthbcAgrees
<1>1. PartsInit => AuthInv
  BY AuthInit DEF PartsInit
<1> QED
  BY <1>1, AuthStep, InvAuthAgrees, PTL DEF PartsSpec
-----------------------------------------------------------------------------
(* The window of rounds.                                                   *)

LEMMA WindowCardinality ==
    ASSUME NEW S
    PROVE  Window!Cardinality(S) = Cardinality(S)
BY DEF Window!Cardinality, Cardinality

LEMMA AuthLearnerFinite ==
    IsFiniteSet(AuthLearner) /\ Cardinality(AuthLearner) \in Nat
<1>1. AuthLearner \subseteq Replica
  BY AuthLearnerAssumption DEF Correct
<1> QED
  BY <1>1, ReplicaAssumption, FS_Subset, FS_CardinalityType

LEMMA ModSmall ==
    ASSUME NEW a \in Nat, NEW b \in Nat, a < b
    PROVE  a % b = a
OBVIOUS

(* Before a round is forced, every replica has to report.                  *)
LEMMA AllNeeded ==
    ASSUME wFailedReplicas = 0
    PROVE  Window!Needed = Cardinality(AuthLearner)
<1>1. PICK n \in Nat, w \in Nat : n = Cardinality(AuthLearner) /\ w = 2^Width /\ n < w
  BY AuthLearnerFinite, WindowAssumption
<1>2. Window!Needed = (n - 0) % w
  BY <1>1, WindowCardinality DEF Window!Needed, Window!nAcceptors
<1>3. n - 0 = n
  OBVIOUS
<1> QED
  BY <1>1, <1>2, <1>3, ModSmall

(* genPublish opens rounds up to alpha after the decided ones.             *)
LEMMA GenPublishBound ==
    ASSUME NEW c \in Nat, NEW d \in Nat
    PROVE  /\ Window!GenPublish(c, d) \in Nat
           /\ c <= Window!GenPublish(c, d)
           /\ c <= d + Alpha => Window!GenPublish(c, d) <= d + Alpha
           /\ c <= Total => Window!GenPublish(c, d) <= Total
<1>1. PICK e \in Nat : e = d + Alpha
  BY WindowAssumption
<1>2. Total \in Nat
  BY WindowAssumption
<1> DEFINE m == CHOOSE x \in {e, Total} : \A y \in {e, Total} : x <= y
<1>3. \E x \in {e, Total} : \A y \in {e, Total} : x <= y
  BY <1>2
<1>4. m \in {e, Total} /\ m <= e /\ m <= Total
  BY <1>3
<1>5. Window!Min({d + Alpha, Total}) = m
  BY <1>1 DEF Window!Min
<1> HIDE DEF m
<1> DEFINE g == CHOOSE x \in {c, m} : \A y \in {c, m} : x >= y
<1>6. m \in Nat
  BY <1>2, <1>4
<1>7. \E x \in {c, m} : \A y \in {c, m} : x >= y
  BY <1>6
<1>8. g \in {c, m} /\ c <= g
  BY <1>7
<1>9. Window!GenPublish(c, d) = g
  BY <1>5 DEF Window!GenPublish, Window!Max
<1> HIDE DEF g
<1> QED
  BY <1>1, <1>2, <1>4, <1>6, <1>8, <1>9

(* EndOfRun finds the first round that was not learned.                    *)
LEMMA EndOfRunIs ==
    ASSUME NEW L \in SUBSET (0..Total), NEW rnd \in L
    PROVE  Window!EndOfRun(rnd, L) \in (rnd + 1)..(Total + 1)
<1>1. Total \in Nat /\ rnd \in Nat /\ rnd <= Total
  BY WindowAssumption
<1> DEFINE S == {e \in rnd..(Total + 1) : e \notin L}
<1>2. Total + 1 \in S /\ S \subseteq Nat
  BY <1>1
<1>3. PICK x \in S : \A y \in S : ~(<<y, x>> \in OpToRel(<, Nat))
  <2> HIDE DEF S
  <2> QED
    BY <1>2, WFMin, NatLessThanWellFounded
<1>4. ASSUME NEW y \in S PROVE x <= y
  <2>1. x \in Nat /\ y \in Nat
    BY <1>2
  <2>2. ~(y < x)
    BY <1>3, <2>1 DEF OpToRel
  <2> QED
    BY <2>1, <2>2
<1>5. Window!EndOfRun(rnd, L) \in S
  BY <1>4 DEF Window!EndOfRun, Window!Min
<1>6. rnd \notin S
  OBVIOUS
<1> QED
  BY <1>1, <1>5, <1>6

LEMMA IntervalIs ==
    ASSUME NEW a \in Nat, NEW b \in Nat, a <= b
    PROVE  /\ Window!Interval(a, b) \in Seq(Nat)
           /\ Len(Window!Interval(a, b)) = b - a
           /\ \A i \in 1..(b - a) : Window!Interval(a, b)[i] = a + i - 1
<1>1. PICK n \in Nat : n = b - a
  OBVIOUS
<1>2. Window!Interval(a, b) = [i \in 1..n |-> a + i - 1]
  BY <1>1 DEF Window!Interval
<1>3. \A i \in 1..n : a + i - 1 \in Nat
  OBVIOUS
<1> QED
  BY <1>1, <1>2, <1>3

LEMMA Joined ==
    ASSUME NEW q \in Seq(Nat), NEW t \in Seq(Nat)
    PROVE  \E u \in Seq(Nat) :
             /\ u = q \o t
             /\ Len(u) = Len(q) + Len(t)
             /\ \A i \in 1..Len(q) : u[i] = q[i]
             /\ \A i \in 1..Len(t) : u[Len(q) + i] = t[i]
<1>1. q \o t \in Seq(Nat) /\ Len(q \o t) = Len(q) + Len(t)
  OBVIOUS
<1>2. ASSUME NEW i \in 1..Len(q) PROVE (q \o t)[i] = q[i]
  OBVIOUS
<1>3. ASSUME NEW i \in 1..Len(t) PROVE (q \o t)[Len(q) + i] = t[i]
  <2>1. Len(q) \in Nat /\ Len(t) \in Nat /\ Len(q) + i - Len(q) = i
    OBVIOUS
  <2> QED
    BY <2>1
<1> QED
  BY <1>1, <1>2, <1>3

LEMMA IntervalsJoin ==
    ASSUME NEW a \in Nat, NEW b \in Nat, NEW c \in Nat, a <= b, b <= c
    PROVE  Window!Interval(a, b) \o Window!Interval(b, c) = Window!Interval(a, c)
<1> DEFINE s == Window!Interval(a, b)
           t == Window!Interval(b, c)
           u == Window!Interval(a, c)
<1>1. /\ s \in Seq(Nat) /\ Len(s) = b - a /\ \A i \in 1..(b - a) : s[i] = a + i - 1
      /\ t \in Seq(Nat) /\ Len(t) = c - b /\ \A i \in 1..(c - b) : t[i] = b + i - 1
      /\ u \in Seq(Nat) /\ Len(u) = c - a /\ \A i \in 1..(c - a) : u[i] = a + i - 1
  <2>1. /\ s \in Seq(Nat) /\ Len(s) = b - a
        /\ \A i \in 1..(b - a) : s[i] = a + i - 1
    BY IntervalIs
  <2>2. /\ t \in Seq(Nat) /\ Len(t) = c - b
        /\ \A i \in 1..(c - b) : t[i] = b + i - 1
    BY IntervalIs
  <2>3. a <= c
    OBVIOUS
  <2>4. /\ u \in Seq(Nat) /\ Len(u) = c - a
        /\ \A i \in 1..(c - a) : u[i] = a + i - 1
    BY IntervalIs, <2>3
  <2> QED
    BY <2>1, <2>2, <2>4
<1> HIDE DEF s, t, u
<1>2. s \o t \in Seq(Nat) /\ Len(s \o t) = c - a
  BY <1>1
<1>3. ASSUME NEW i \in 1..(c - a) PROVE (s \o t)[i] = u[i]
  <2>1. CASE i <= b - a
    BY <1>1, <2>1
  <2>2. CASE i > b - a
    <3>1. PICK k \in 1..(c - b) : k = i - (b - a)
      BY <2>2
    <3>2. (s \o t)[i] = t[k]
      <4>1. PICK l \in Nat : l = Len(s) /\ i = l + k /\ k \in 1..Len(t)
        BY <1>1, <3>1
      <4>2. PICK w \in Seq(Nat) :
               w = s \o t /\ \A n \in 1..Len(t) : w[Len(s) + n] = t[n]
        BY <1>1, Joined
      <4> QED
        BY <4>1, <4>2
    <3>3. t[k] = b + k - 1
      BY <1>1
    <3>4. u[i] = a + i - 1
      BY <1>1
    <3> QED
      BY <3>1, <3>2, <3>3, <3>4
  <2>3. i <= b - a \/ i > b - a
    OBVIOUS
  <2> QED
    BY <2>1, <2>2, <2>3, Zenon
<1>4. s \o t = u
  BY <1>1, <1>2, <1>3, SeqEqual
<1> QED
  BY <1>4 DEF s, t, u

(* u has the reports q, all below m, and then those from m to c, t.        *)
FollowedBy(m, c, q, t, u) ==
    /\ m <= c
    /\ Len(t) = c - m /\ \A i \in 1..Len(t) : t[i] = m + i - 1
    /\ Len(u) = Len(q) + Len(t)
    /\ \A i \in 1..Len(q) : u[i] = q[i]
    /\ \A i \in 1..Len(t) : u[Len(q) + i] = t[i]
    /\ \A i \in 1..Len(q) : q[i] < m
    /\ \A i, j \in 1..Len(q) : i < j => q[i] < q[j]

LEMMA ReportsAppended ==
    ASSUME NEW m \in Nat, NEW c \in Nat,
           NEW q \in Seq(Nat), NEW t \in Seq(Nat), NEW u \in Seq(Nat),
           FollowedBy(m, c, q, t, u)
    PROVE  /\ \A i \in 1..Len(u) : u[i] < c
           /\ \A i, j \in 1..Len(u) : i < j => u[i] < u[j]
           /\ \A i \in 1..Len(u) : i \in 1..Len(q) \/ u[i] >= m
<1>1. PICK x \in Nat, y \in Nat : x = Len(q) /\ y = Len(t) /\ y = c - m /\ m <= c
  BY DEF FollowedBy
<1>2. \A i \in 1..x : u[i] \in Nat /\ u[i] < m
  BY <1>1 DEF FollowedBy
<1>3. ASSUME NEW i \in (x + 1)..(x + y) PROVE u[i] = m + (i - x) - 1
  <2>1. PICK k \in Int : k = i - x
    OBVIOUS
  <2>2. k \in 1..y /\ i = x + k
    BY <2>1
  <2>3. k \in 1..Len(t) /\ t[k] = m + k - 1
    BY <1>1, <2>2 DEF FollowedBy
  <2>4. u[Len(q) + k] = t[k]
    BY <2>3 DEF FollowedBy
  <2> QED
    BY <1>1, <2>1, <2>2, <2>3, <2>4
<1>4. \A i, j \in 1..x : i < j => u[i] < u[j]
  BY <1>1 DEF FollowedBy
<1>5. Len(u) = x + y
  BY <1>1 DEF FollowedBy
<1>6. ASSUME NEW i \in 1..(x + y) PROVE u[i] < c
  <2>1. CASE i \in 1..x
    BY <1>1, <1>2, <2>1
  <2>2. CASE i \in (x + 1)..(x + y)
    <3>1. u[i] = m + (i - x) - 1
      BY <1>3, <2>2
    <3> QED
      BY <1>1, <2>2, <3>1
  <2> QED
    BY <1>1, <2>1, <2>2
<1>7. ASSUME NEW i \in 1..(x + y), NEW j \in 1..(x + y), i < j PROVE u[i] < u[j]
  <2>1. CASE j \in 1..x
    <3>1. i \in 1..x
      BY <1>7, <2>1
    <3> QED
      BY <1>4, <1>7, <2>1, <3>1
  <2>2. CASE j \in (x + 1)..(x + y)
    <3>1. u[j] = m + (j - x) - 1
      BY <1>3, <2>2
    <3>2. CASE i \in 1..x
      <4>1. u[i] \in Nat /\ u[i] < m
        BY <1>2, <3>2
      <4> QED
        BY <2>2, <3>1, <4>1
    <3>3. CASE i \in (x + 1)..(x + y)
      <4>1. u[i] = m + (i - x) - 1
        BY <1>3, <3>3
      <4> QED
        BY <1>7, <2>2, <3>1, <3>3, <4>1
    <3> QED
      BY <1>1, <3>2, <3>3
  <2> QED
    BY <1>1, <2>1, <2>2
<1>8. ASSUME NEW i \in 1..(x + y), i \notin 1..x PROVE u[i] >= m
  <2>1. i \in (x + 1)..(x + y)
    BY <1>8
  <2>2. u[i] = m + (i - x) - 1
    BY <1>3, <2>1
  <2> QED
    BY <2>1, <2>2
<1> QED
  BY <1>1, <1>5, <1>6, <1>7, <1>8

(* The learners that have reported round d, d being below their maxlearned *)
(* and no longer on its way to the publisher.                              *)
Reported(d) ==
    {r \in AuthLearner :
        /\ d < wMaxlearned[r]
        /\ \A i \in 1..Len(wReports[r]) : wReports[r][i] # d}

WindowType ==
    /\ wCurrent \in Nat /\ wMaxdecided \in Nat
    /\ wMaxlearned \in [AuthLearner -> 0..Total]
    /\ wLearned \in [AuthLearner -> SUBSET (0..Total)]
    /\ wDelivered \in [AuthLearner -> Seq(Nat)]
    /\ wReports \in [AuthLearner -> Seq(Nat)]
    /\ wCounts \in [0..Total -> Nat]

(* What a learner delivered and reported.                                  *)
InTurn(r) ==
    /\ wDelivered[r] = Window!Interval(1, wMaxlearned[r] + 1)
    /\ \A i \in 1..Len(wReports[r]) : wReports[r][i] < wMaxlearned[r]
    /\ \A i, j \in 1..Len(wReports[r]) : i < j => wReports[r][i] < wReports[r][j]

(* The window: a round counts at most one report per learner, and so is    *)
(* decided once all learners have delivered it.                            *)
Waiting ==
    /\ WindowType
    /\ wCurrent <= wMaxdecided + Alpha /\ wCurrent <= Total
    /\ \A r \in AuthLearner : wMaxdecided <= wMaxlearned[r] /\ InTurn(r)
    /\ \A d \in 0..Total : wCounts[d] <= Cardinality(Reported(d))

WindowInv == wFailedReplicas \in Nat /\ (wFailedReplicas = 0 => Waiting)

LEMMA ReportedFinite ==
    ASSUME NEW d
    PROVE  IsFiniteSet(Reported(d)) /\ Cardinality(Reported(d)) \in Nat
<1>1. Reported(d) \subseteq AuthLearner
  BY DEF Reported
<1> QED
  BY <1>1, AuthLearnerFinite, FS_Subset, FS_CardinalityType

LEMMA WindowInitHolds == Window!Init => WindowInv
<1> SUFFICES ASSUME Window!Init PROVE Waiting /\ wFailedReplicas \in Nat
  BY DEF WindowInv
<1>1. Total \in Nat /\ Alpha \in Nat
  BY WindowAssumption
<1>2. PICK z \in Nat : z = 0
  OBVIOUS
<1>3. /\ Window!GenPublish(z, z) \in Nat
      /\ Window!GenPublish(z, z) <= z + Alpha
      /\ Window!GenPublish(z, z) <= Total
  BY <1>1, <1>2, GenPublishBound
<1>4. WindowType /\ wCurrent <= wMaxdecided + Alpha /\ wCurrent <= Total
  BY <1>1, <1>2, <1>3 DEF Window!Init, WindowType
<1>5. Window!Interval(1, 1) = << >>
  BY DEF Window!Interval
<1>6. ASSUME NEW r \in AuthLearner PROVE wMaxdecided <= wMaxlearned[r] /\ InTurn(r)
  BY <1>5 DEF Window!Init, InTurn
<1>7. ASSUME NEW d \in 0..Total PROVE wCounts[d] <= Cardinality(Reported(d))
  <2>1. wCounts[d] = 0
    BY DEF Window!Init
  <2> QED
    BY <2>1, ReportedFinite
<1> QED
  BY <1>4, <1>6, <1>7 DEF Waiting, Window!Init

LEMMA InvWaitsForAll == WindowInv => WaitsForAll
<1> SUFFICES ASSUME WindowInv, wFailedReplicas = 0, NEW r \in AuthLearner
             PROVE  /\ wCurrent <= wMaxlearned[r] + Alpha
                    /\ wDelivered[r] = Window!Interval(1, wMaxlearned[r] + 1)
  BY DEF WaitsForAll, Window!WaitsForAll
<1>1. /\ wCurrent \in Nat /\ wMaxdecided \in Nat /\ wMaxlearned[r] \in Nat
      /\ wCurrent <= wMaxdecided + Alpha /\ wMaxdecided <= wMaxlearned[r]
      /\ InTurn(r)
  BY DEF WindowInv, Waiting, WindowType
<1> QED
  BY <1>1, WindowAssumption DEF InTurn

(* A learner learns a round: with no round forced none is more than alpha  *)
(* ahead, so what it delivers is the run that starts at the next one.      *)
LEMMA WindowLearns ==
    ASSUME Waiting, NEW r \in AuthLearner, NEW rnd \in 0..Total,
           Window!Learn(r, rnd)
    PROVE  Waiting'
<1>1. Total \in Nat /\ Alpha \in Nat
  BY WindowAssumption
<1>2. PICK m \in Nat : m = wMaxlearned[r] /\ m <= Total
  BY <1>1 DEF Waiting, WindowType
<1>3. /\ UNCHANGED <<wCurrent, wMaxdecided, wCounts>>
      /\ wLearned' = [wLearned EXCEPT ![r] = @ \cup {rnd}]
      /\ rnd < wCurrent
  BY <1>1 DEF Window!Learn, Window!pubVars, Waiting, WindowType
<1>4. ~(m + Alpha < rnd)
  BY <1>1, <1>2, <1>3 DEF Waiting, WindowType
<1>5. wLearned' \in [AuthLearner -> SUBSET (0..Total)]
  BY <1>3 DEF Waiting, WindowType
<1>6. CASE m + 1 # rnd
  <2>1. UNCHANGED <<wDelivered, wReports, wMaxlearned>>
    BY <1>2, <1>4, <1>6 DEF Window!Learn
  <2>2. WindowType'
    BY <1>3, <1>5, <2>1 DEF Waiting, WindowType
  <2>3. \A d : Reported(d)' = Reported(d)
    BY <2>1 DEF Reported
  <2>4. ASSUME NEW s \in AuthLearner PROVE wMaxdecided' <= wMaxlearned'[s] /\ InTurn(s)'
    BY <1>3, <2>1 DEF Waiting, InTurn
  <2> QED
    BY <1>3, <2>2, <2>3, <2>4 DEF Waiting
<1>7. CASE m + 1 = rnd
  <2>1. PICK L \in SUBSET (0..Total) : L = wLearned'[r] /\ rnd \in L
    BY <1>3, <1>5 DEF Waiting, WindowType
  <2>2. PICK e \in Nat : /\ e = Window!EndOfRun(rnd, L)
                         /\ rnd + 1 <= e /\ e <= Total + 1
    BY <1>1, <2>1, EndOfRunIs
  <2>3. Window!Deliver(r, rnd, m)
    BY <1>2, <1>4, <1>7 DEF Window!Learn
  <2>4. m + e - rnd = e - 1 /\ e - 1 \in Nat /\ m <= e - 1 /\ m + 1 <= e
    BY <1>7, <2>2
  <2>5. /\ wDelivered' = [wDelivered EXCEPT ![r] = @ \o Window!Interval(m + 1, e)]
        /\ wReports' = [wReports EXCEPT ![r] = @ \o Window!Interval(m, e - 1)]
        /\ wMaxlearned' = [wMaxlearned EXCEPT ![r] = e - 1]
    BY <1>7, <2>1, <2>2, <2>3, <2>4 DEF Window!Deliver
  <2>6. PICK q \in Seq(Nat), t \in Seq(Nat) :
            /\ q = wReports[r] /\ t = Window!Interval(m, e - 1)
            /\ Len(t) = e - 1 - m
            /\ \A i \in 1..Len(t) : t[i] = m + i - 1
    <3>1. PICK c \in Nat : c = e - 1 /\ m <= c
      BY <2>4
    <3>2. /\ Window!Interval(m, c) \in Seq(Nat)
          /\ Len(Window!Interval(m, c)) = c - m
          /\ \A i \in 1..(c - m) : Window!Interval(m, c)[i] = m + i - 1
      BY <3>1, IntervalIs
    <3>3. wReports[r] \in Seq(Nat)
      BY DEF Waiting, WindowType
    <3> QED
      BY <3>1, <3>2, <3>3
  <2>7. PICK u \in Seq(Nat) :
            /\ wReports' = [wReports EXCEPT ![r] = u] /\ wReports'[r] = u
            /\ Len(u) = Len(q) + Len(t)
            /\ \A i \in 1..Len(q) : u[i] = q[i]
            /\ \A i \in 1..Len(t) : u[Len(q) + i] = t[i]
    <3>1. PICK u \in Seq(Nat) :
            /\ u = q \o t
            /\ Len(u) = Len(q) + Len(t)
            /\ \A i \in 1..Len(q) : u[i] = q[i]
            /\ \A i \in 1..Len(t) : u[Len(q) + i] = t[i]
      BY Joined
    <3>2. wReports' = [wReports EXCEPT ![r] = u]
      BY <2>5, <2>6, <3>1
    <3>3. wReports'[r] = u
      BY <3>2 DEF Waiting, WindowType
    <3> QED
      BY <3>1, <3>2, <3>3
  <2>8. /\ \A i \in 1..Len(q) : q[i] < m
        /\ \A i, j \in 1..Len(q) : i < j => q[i] < q[j]
    BY <1>2, <2>6 DEF Waiting, InTurn
  <2>9. wDelivered'[r] = Window!Interval(1, e)
    <3>1. wDelivered[r] = Window!Interval(1, m + 1)
      BY <1>2 DEF Waiting, InTurn
    <3>2. Window!Interval(1, m + 1) \o Window!Interval(m + 1, e) = Window!Interval(1, e)
      <4>1. PICK a \in Nat, b \in Nat : a = 1 /\ b = m + 1
        OBVIOUS
      <4>2. a <= b /\ b <= e
        BY <4>1, <2>4
      <4>3. Window!Interval(a, b) \o Window!Interval(b, e) = Window!Interval(a, e)
        BY <4>2, IntervalsJoin
      <4> QED
        BY <4>1, <4>3
    <3> QED
      BY <2>5, <3>1, <3>2 DEF Waiting, WindowType
  <2>10. WindowType'
    <3>1. PICK a \in Nat : a = 1 /\ a <= e
      BY <2>4
    <3>2. Window!Interval(a, e) \in Seq(Nat)
      BY <3>1, IntervalIs
    <3>3. wDelivered' \in [AuthLearner -> Seq(Nat)]
      BY <2>5, <2>9, <3>1, <3>2 DEF Waiting, WindowType
    <3>4. wReports' \in [AuthLearner -> Seq(Nat)]
      BY <2>7 DEF Waiting, WindowType
    <3>5. wMaxlearned' \in [AuthLearner -> 0..Total]
      <4>1. e - 1 \in 0..Total
        BY <1>1, <2>2, <2>4
      <4> QED
        BY <2>5, <4>1 DEF Waiting, WindowType
    <3> QED
      BY <1>3, <1>5, <3>3, <3>4, <3>5 DEF Waiting, WindowType
  <2>11. wMaxlearned'[r] = e - 1
    BY <2>5 DEF Waiting, WindowType
  <2>12. /\ \A i \in 1..Len(u) : u[i] < e - 1
         /\ \A i, j \in 1..Len(u) : i < j => u[i] < u[j]
         /\ \A i \in 1..Len(u) : i \in 1..Len(q) \/ u[i] >= m
    <3>1. PICK c \in Nat : c = e - 1 /\ m <= c
      BY <2>4
    <3>2. FollowedBy(m, c, q, t, u)
      BY <2>6, <2>7, <2>8, <3>1 DEF FollowedBy
    <3> QED
      BY <3>1, <3>2, ReportsAppended
  <2>13. InTurn(r)'
    <3>1. wMaxlearned'[r] + 1 = e
      BY <2>4, <2>11
    <3>2. wDelivered'[r] = Window!Interval(1, wMaxlearned'[r] + 1)
      BY <2>9, <3>1, Zenon
    <3>3. \A i \in 1..Len(wReports'[r]) : wReports'[r][i] < wMaxlearned'[r]
      BY <2>7, <2>11, <2>12
    <3>4. \A i, j \in 1..Len(wReports'[r]) :
              i < j => wReports'[r][i] < wReports'[r][j]
      BY <2>7, <2>12
    <3> QED
      BY <3>2, <3>3, <3>4 DEF InTurn
  <2>14. ASSUME NEW s \in AuthLearner, s # r
         PROVE  /\ wDelivered'[s] = wDelivered[s] /\ wReports'[s] = wReports[s]
                /\ wMaxlearned'[s] = wMaxlearned[s]
    BY <2>5, <2>14 DEF Waiting, WindowType
  <2>15. ASSUME NEW s \in AuthLearner PROVE wMaxdecided' <= wMaxlearned'[s] /\ InTurn(s)'
    <3>1. CASE s = r
      <4>1. wMaxdecided' <= m /\ wMaxdecided' \in Nat
        BY <1>2, <1>3, Zenon DEF Waiting, WindowType
      <4>2. wMaxdecided' <= wMaxlearned'[r]
        BY <2>4, <2>11, <4>1
      <4> QED
        BY <2>13, <3>1, <4>2, Zenon
    <3>2. CASE s # r
      <4>1. wMaxdecided <= wMaxlearned[s] /\ InTurn(s)
        BY Zenon DEF Waiting
      <4>2. /\ wDelivered'[s] = wDelivered[s] /\ wReports'[s] = wReports[s]
            /\ wMaxlearned'[s] = wMaxlearned[s]
        BY <2>14, <3>2, Zenon
      <4>3. wMaxdecided' <= wMaxlearned'[s]
        BY <1>3, <4>1, <4>2, Zenon
      <4>4. wDelivered'[s] = Window!Interval(1, wMaxlearned'[s] + 1)
        BY <4>1, <4>2, Zenon DEF InTurn
      <4>5. /\ \A i \in 1..Len(wReports'[s]) : wReports'[s][i] < wMaxlearned'[s]
            /\ \A i, j \in 1..Len(wReports'[s]) :
                  i < j => wReports'[s][i] < wReports'[s][j]
        BY <4>1, <4>2, Zenon DEF InTurn
      <4> QED
        BY <4>3, <4>4, <4>5, Zenon DEF InTurn
    <3> QED
      BY <3>1, <3>2
  <2>16. ASSUME NEW d \in 0..Total PROVE wCounts'[d] <= Cardinality(Reported(d)')
    <3>1. ASSUME NEW s \in Reported(d) PROVE s \in Reported(d)'
      <4>1. CASE s = r
        <5>1. d < m /\ \A i \in 1..Len(q) : q[i] # d
          BY <1>2, <2>6, <4>1 DEF Reported
        <5>2. d < e - 1
          BY <1>1, <2>4, <5>1
        <5>3. ASSUME NEW i \in 1..Len(u) PROVE u[i] # d
          <6>1. CASE i \in 1..Len(q)
            BY <2>7, <5>1, <6>1
          <6>2. CASE u[i] >= m
            BY <5>1, <6>2
          <6> QED
            BY <2>12, <6>1, <6>2
        <5> QED
          BY <2>7, <2>11, <4>1, <5>2, <5>3 DEF Reported
      <4>2. CASE s # r
        BY <2>14, <4>2 DEF Reported
      <4> QED
        BY <4>1, <4>2
    <3>2. Reported(d)' \subseteq AuthLearner
      BY DEF Reported
    <3>3. IsFiniteSet(Reported(d)') /\ Cardinality(Reported(d)') \in Nat
      BY <3>2, AuthLearnerFinite, FS_Subset, FS_CardinalityType
    <3>4. Cardinality(Reported(d)) <= Cardinality(Reported(d)')
      BY <3>1, <3>3, FS_Subset
    <3>5. wCounts[d] \in Nat /\ wCounts[d] <= Cardinality(Reported(d))
      BY DEF Waiting, WindowType
    <3> QED
      BY <1>3, <3>3, <3>4, <3>5, ReportedFinite
  <2> QED
    BY <1>3, <2>10, <2>15, <2>16 DEF Waiting
<1> QED
  BY <1>6, <1>7

(* The publisher handles a report: each learner reports a round once, so   *)
(* one that is decided was reported by all.                                *)
LEMMA WindowHandles ==
    ASSUME Waiting, wFailedReplicas = 0, NEW r \in AuthLearner,
           Window!HandleDcdRnd(r)
    PROVE  Waiting'
<1>1. Total \in Nat /\ Alpha \in Nat
  BY WindowAssumption
<1>2. PICK q \in Seq(Nat) : q = wReports[r] /\ q # << >>
  BY DEF Window!HandleDcdRnd, Waiting, WindowType
<1>3. PICK d \in Nat, t \in Seq(Nat) :
         /\ d = Head(q) /\ t = Tail(q) /\ d = q[1] /\ Len(t) = Len(q) - 1
         /\ \A i \in 1..Len(t) : t[i] = q[i + 1]
  <2>1. Head(q) \in Nat /\ Tail(q) \in Seq(Nat) /\ Head(q) = q[1]
    BY <1>2
  <2>2. Len(Tail(q)) = Len(q) - 1 /\ \A i \in 1..Len(Tail(q)) : Tail(q)[i] = q[i + 1]
    BY <1>2
  <2> QED
    BY <2>1, <2>2
<1>4. /\ wReports' = [wReports EXCEPT ![r] = t] /\ wReports'[r] = t
      /\ UNCHANGED <<wMaxlearned, wLearned, wDelivered>>
  BY <1>2, <1>3 DEF Window!HandleDcdRnd, Window!lrnVars, Waiting, WindowType
<1>5. Len(q) \in Nat /\ Len(q) > 0 /\ Len(t) \in Nat
  BY <1>2
<1>6. /\ \A i \in 1..Len(q) : q[i] < wMaxlearned[r]
      /\ \A i, j \in 1..Len(q) : i < j => q[i] < q[j]
  BY <1>2 DEF Waiting, InTurn
<1>7. d < wMaxlearned[r] /\ d \in 0..Total
  <2>1. wMaxlearned[r] \in 0..Total
    BY DEF Waiting, WindowType
  <2>2. d < wMaxlearned[r]
    BY <1>3, <1>5, <1>6
  <2> QED
    BY <1>1, <2>1, <2>2
<1>8. ASSUME NEW i \in 1..Len(t)
      PROVE  i + 1 \in 1..Len(q) /\ t[i] = q[i + 1] /\ d < t[i] /\ t[i] < wMaxlearned[r]
  <2>1. i + 1 \in 1..Len(q) /\ 1 \in 1..Len(q) /\ 1 < i + 1
    BY <1>3, <1>5
  <2> QED
    BY <1>3, <1>6, <2>1
<1>9. InTurn(r)'
  <2>1. ASSUME NEW i \in 1..Len(t), NEW j \in 1..Len(t), i < j PROVE t[i] < t[j]
    <3>1. i + 1 < j + 1
      BY <2>1
    <3> QED
      BY <1>6, <1>8, <3>1
  <2> QED
    BY <1>4, <1>8, <2>1 DEF Waiting, InTurn
<1>10. ASSUME NEW s \in AuthLearner, s # r PROVE wReports'[s] = wReports[s]
  BY <1>4, <1>10 DEF Waiting, WindowType
<1>11. ASSUME NEW s \in AuthLearner PROVE InTurn(s)'
  BY <1>4, <1>9, <1>10 DEF Waiting, InTurn
<1>12. ASSUME NEW x \in 0..Total
       PROVE  /\ Reported(x) \subseteq Reported(x)' /\ IsFiniteSet(Reported(x)')
              /\ Reported(x)' \subseteq AuthLearner
              /\ Cardinality(Reported(x)) <= Cardinality(Reported(x)')
              /\ Cardinality(Reported(x)') \in Nat
  <2>1. ASSUME NEW s \in Reported(x) PROVE s \in Reported(x)'
    <3>1. CASE s = r
      <4>1. x < wMaxlearned[r] /\ \A i \in 1..Len(q) : q[i] # x
        BY <1>2, <3>1 DEF Reported
      <4>2. \A i \in 1..Len(t) : t[i] # x
        BY <1>8, <4>1
      <4> QED
        BY <1>4, <3>1, <4>1, <4>2 DEF Reported
    <3>2. CASE s # r
      BY <1>4, <1>10, <3>2 DEF Reported
    <3> QED
      BY <3>1, <3>2
  <2>2. Reported(x)' \subseteq AuthLearner
    BY DEF Reported
  <2>3. IsFiniteSet(Reported(x)') /\ Cardinality(Reported(x)') \in Nat
    BY <2>2, AuthLearnerFinite, FS_Subset, FS_CardinalityType
  <2> QED
    BY <2>1, <2>2, <2>3, FS_Subset
<1>13. r \notin Reported(d) /\ r \in Reported(d)'
  <2>1. 1 \in 1..Len(q) /\ q[1] = d
    BY <1>3, <1>5
  <2>2. \A i \in 1..Len(t) : t[i] # d
    <3> SUFFICES ASSUME NEW i \in 1..Len(t) PROVE t[i] # d
      OBVIOUS
    <3>1. d < t[i] /\ d \in Nat
      BY <1>8
    <3> QED
      BY <3>1
  <2> QED
    BY <1>2, <1>4, <1>7, <2>1, <2>2 DEF Reported
<1>14. Cardinality(Reported(d)) + 1 <= Cardinality(Reported(d)')
  <2>1. PICK A, B : A = Reported(d) /\ B = Reported(d)'
    OBVIOUS
  <2>2. /\ IsFiniteSet(A) /\ IsFiniteSet(B) /\ A \cup {r} \subseteq B /\ r \notin A
    BY <1>7, <1>12, <1>13, <2>1, ReportedFinite
  <2>3. /\ IsFiniteSet(A \cup {r})
        /\ Cardinality(A \cup {r}) = Cardinality(A) + 1
    BY <2>2, FS_AddElement
  <2>4. Cardinality(A \cup {r}) <= Cardinality(B)
    BY <2>2, FS_Subset
  <2> QED
    BY <2>1, <2>3, <2>4
<1>15. /\ wCounts' = wCounts \/ wCounts' = [wCounts EXCEPT ![d] = @ + 1]
       /\ \/ wMaxdecided' = wMaxdecided
          \/ /\ d > wMaxdecided /\ wMaxdecided' = d
             /\ wCounts'[d] >= Window!Needed
       /\ wCurrent' = wCurrent \/ wCurrent' = Window!GenPublish(wCurrent, wMaxdecided')
  BY <1>2, <1>3 DEF Window!HandleDcdRnd
<1>16. wCounts' \in [0..Total -> Nat]
  <2>1. wCounts \in [0..Total -> Nat]
    BY DEF Waiting, WindowType
  <2>2. wCounts[d] + 1 \in Nat
    BY <1>7, <2>1
  <2> QED
    BY <1>15, <2>1, <2>2
<1>17. ASSUME NEW x \in 0..Total PROVE wCounts'[x] <= Cardinality(Reported(x)')
  <2>1. wCounts[x] \in Nat /\ wCounts[x] <= Cardinality(Reported(x))
    BY DEF Waiting, WindowType
  <2>2. Cardinality(Reported(x)) \in Nat
    BY ReportedFinite
  <2>3. CASE wCounts'[x] = wCounts[x]
    BY <1>12, <2>1, <2>2, <2>3
  <2>4. CASE x = d /\ wCounts'[x] = wCounts[x] + 1
    BY <1>12, <1>14, <2>1, <2>2, <2>4
  <2> QED
    BY <1>15, <2>3, <2>4 DEF Waiting, WindowType
<1>18. /\ wMaxdecided' \in Nat /\ wMaxdecided <= wMaxdecided'
       /\ wMaxdecided \in Nat /\ wCurrent \in Nat
  BY <1>15 DEF Waiting, WindowType
<1>19. ASSUME NEW s \in AuthLearner PROVE wMaxdecided' <= wMaxlearned'[s]
  <2>1. CASE wMaxdecided' = wMaxdecided
    BY <1>4, <2>1 DEF Waiting
  <2>2. CASE wMaxdecided' = d /\ wCounts'[d] >= Window!Needed
    <3>1. PICK B : B = Reported(d)'
      OBVIOUS
    <3>2. /\ B \subseteq AuthLearner /\ IsFiniteSet(B) /\ Cardinality(B) \in Nat
      BY <1>7, <1>12, <3>1
    <3>3. wCounts'[d] \in Nat
      BY <1>7, <1>16
    <3>4. Cardinality(AuthLearner) <= Cardinality(B)
      BY <1>7, <1>17, <2>2, <3>1, <3>2, <3>3, AllNeeded, AuthLearnerFinite
    <3>5. Cardinality(B) = Cardinality(AuthLearner)
      BY <3>2, <3>4, AuthLearnerFinite, FS_Subset
    <3>6. B = AuthLearner
      BY <3>2, <3>5, AuthLearnerFinite, FS_Subset
    <3>7. d < wMaxlearned'[s]
      BY <3>1, <3>6 DEF Reported
    <3>8. wMaxlearned'[s] \in 0..Total
      BY <1>4 DEF Waiting, WindowType
    <3> QED
      BY <1>1, <2>2, <3>7, <3>8
  <2> QED
    BY <1>15, <2>1, <2>2
<1>20. /\ wCurrent' \in Nat /\ wCurrent' <= wMaxdecided' + Alpha /\ wCurrent' <= Total
  <2>1. wCurrent <= wMaxdecided + Alpha /\ wCurrent <= Total
    BY DEF Waiting
  <2>2. PICK c \in Nat, x \in Nat : c = wCurrent /\ x = wMaxdecided'
    BY <1>18
  <2>3. c <= x + Alpha
    <3>1. PICK y \in Nat : y = wMaxdecided /\ y <= x
      BY <1>18, <2>2
    <3>2. c <= y + Alpha
      BY <2>1, <2>2, <3>1
    <3>3. PICK a \in Nat : a = Alpha
      BY <1>1
    <3>4. c <= y + a
      BY <3>2, <3>3
    <3>5. c <= x + a
      BY <3>1, <3>4
    <3> QED
      BY <3>3, <3>5
  <2>4. /\ Window!GenPublish(c, x) \in Nat
        /\ Window!GenPublish(c, x) <= x + Alpha
        /\ Window!GenPublish(c, x) <= Total
    BY <2>1, <2>2, <2>3, GenPublishBound
  <2> QED
    BY <1>15, <1>18, <2>1, <2>2, <2>3, <2>4
<1>21. WindowType'
  <2>1. wReports' \in [AuthLearner -> Seq(Nat)]
    BY <1>4 DEF Waiting, WindowType
  <2> QED
    BY <1>4, <1>18, <1>20, <1>16, <2>1 DEF Waiting, WindowType
<1> QED
  BY <1>11, <1>17, <1>19, <1>20, <1>21 DEF Waiting

LEMMA WindowIdle ==
    ASSUME Waiting,
           UNCHANGED <<wCurrent, wMaxdecided, wCounts, wLearned, wMaxlearned,
                       wDelivered, wReports>>
    PROVE  Waiting'
<1>1. WindowType'
  BY DEF Waiting, WindowType
<1>2. \A d : Reported(d)' = Reported(d)
  BY DEF Reported
<1>3. ASSUME NEW r \in AuthLearner PROVE wMaxdecided' <= wMaxlearned'[r] /\ InTurn(r)'
  BY DEF Waiting, InTurn
<1> QED
  BY <1>1, <1>2, <1>3 DEF Waiting

LEMMA WindowStep ==
    WindowInv /\ [PartsNext]_<<protocol, vars, authbcVars, windowVars>> => WindowInv'
<1> SUFFICES ASSUME WindowInv,
                    [PartsNext]_<<protocol, vars, authbcVars, windowVars>>
             PROVE  WindowInv'
  OBVIOUS
<1>1. CASE UNCHANGED windowVars
  BY <1>1, WindowIdle DEF windowVars, WindowInv
<1>2. CASE Window!Next
  <2>1. ASSUME NEW r \in AuthLearner, NEW rnd \in 0..Total, Window!Learn(r, rnd)
        PROVE  WindowInv'
    <3>1. UNCHANGED wFailedReplicas
      BY <2>1 DEF Window!Learn, Window!pubVars
    <3> QED
      BY <2>1, <3>1, WindowLearns DEF WindowInv
  <2>2. ASSUME NEW r \in AuthLearner, Window!HandleDcdRnd(r) PROVE WindowInv'
    <3>1. UNCHANGED wFailedReplicas
      BY <2>2 DEF Window!HandleDcdRnd
    <3> QED
      BY <2>2, <3>1, WindowHandles DEF WindowInv
  <2>3. CASE Window!Tick
    <3>1. CASE wMaxdecided = wPrevmaxdecided
      <4>1. wFailedReplicas' = wFailedReplicas + 1
        BY <2>3, <3>1 DEF Window!Tick
      <4> QED
        BY <4>1 DEF WindowInv
    <3>2. CASE wMaxdecided # wPrevmaxdecided
      <4>1. UNCHANGED <<wCurrent, wMaxdecided, wCounts, wLearned, wMaxlearned,
                        wDelivered, wReports, wFailedReplicas>>
        BY <2>3, <3>2 DEF Window!Tick, Window!lrnVars
      <4> QED
        BY <4>1, WindowIdle DEF WindowInv
    <3> QED
      BY <3>1, <3>2
  <2> QED
    BY <1>2, <2>1, <2>2, <2>3 DEF Window!Next
<1> QED
  BY <1>1, <1>2 DEF PartsNext, RelbcNext, AuthbcNext, WindowNext

(* Until a round is forced, the publisher is at most alpha rounds ahead of *)
(* every learner, and each learner has delivered the rounds in order and   *)
(* once (relpublisher.go, rellearner.go), for every alpha and any number   *)
(* of rounds.                                                              *)
THEOREM WaitsForAllTheorem == PartsSpec => []WaitsForAll
<1>1. PartsInit => WindowInv
  BY WindowInitHolds DEF PartsInit
<1> QED
  BY <1>1, WindowStep, InvWaitsForAll, PTL DEF PartsSpec
=============================================================================
