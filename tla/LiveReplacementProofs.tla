----------------------- MODULE LiveReplacementProofs -----------------------
(***************************************************************************)
(* Proofs about Live Replacement, for any number of replicas, replacers    *)
(* and rounds: epoch vectors only grow, so the promises a proposer counts  *)
(* without a check have the vector it started with; and an Accept goes to  *)
(* one replica with each PaxosID, so votes are never counted twice.  For   *)
(* three replicas, however many are replaced: a replacer starts in a round *)
(* that covers what the replaced one helped to choose.                     *)
(***************************************************************************)
EXTENDS LiveReplacement, FiniteSetTheorems, WellFoundedInduction, TLAPS

Vector == [Pid -> Nat]
Rnd0 == 0..MaxRound
EpochPromise == [id : ID, to : Replacer, rnd : Rnd0, vote : Rnd0, ev : Vector]
Promise == [id : ID, rnd : Round, vote : Rnd0, ev : Vector]
Learn == [id : ID, rnd : Round, ev : Vector]

(* Types of the messages and of what is kept of them.                      *)
LrType ==
    /\ TypeOK
    /\ Original \subseteq up
    /\ \A i \in ID \ up : vote[i] = 0
    /\ eps \subseteq EpochPromise
    /\ epochPromises \in [Replacer -> SUBSET EpochPromise]
    /\ prepares \in [Round -> SUBSET (Pid \X Nat)]
    /\ startEv \in [Round -> Vector]
    /\ promises \subseteq Promise
    /\ phaseOne \in [Round -> [got : SUBSET Promise, check : BOOLEAN]]
    /\ used \in [Round -> SUBSET Promise]
    /\ accepts \in [Round -> SUBSET (Pid \X Nat)]
    /\ learns \subseteq Learn
    /\ slot \in [rnd : Rnd0, got : SUBSET Learn, check : BOOLEAN, learned : Rnd0]

LEMMA IdFacts ==
    /\ \A i \in ID : Pxid(i) \in Pid /\ Epoch(i) \in Nat /\ i \in Pid \X Nat
    /\ None \notin ID
    /\ Replacer \subseteq ID /\ Original \subseteq ID
    /\ \A i \in ID : i \in Original \/ i \in Replacer
BY LrAssumption DEF ID, Original, Pxid, Epoch, None

LEMMA QuorumFact == Quorum \in Nat /\ Quorum >= 1
<1>1. Cardinality(Pid) \in Nat
  BY LrAssumption, FS_CardinalityType
<1> QED
  BY <1>1 DEF Quorum

LEMMA IDsFact ==
    ASSUME LrType, NEW i \in ID
    PROVE  /\ Known(i) \subseteq Pid
           /\ IDs(i) \subseteq Pid \X Nat
           /\ \A q \in IDs(i) : q = <<Pxid(q), ev[i][Pxid(q)]>>
<1>1. Known(i) \subseteq Pid
  <2>1. CASE i \in Original
    BY <2>1 DEF Known
  <2>2. CASE i \notin Original
    BY <2>2, IdFacts DEF Known, LrType, EpochPromise
  <2> QED
    BY <2>1, <2>2
<1>2. \A p \in Known(i) : ev[i][p] \in Nat
  BY <1>1 DEF LrType, TypeOK
<1> QED
  BY <1>1, <1>2 DEF IDs, Pxid

(* The vector of a message as it is received.                              *)
LEMMA CarriedFact ==
    ASSUME LrType, NEW i \in ID, NEW m, m.id \in ID, m.ev \in Vector
    PROVE  Carried(m, i) \subseteq Vector
BY DEF Carried, LrType, TypeOK, Vector

(* A set of rounds has a highest one.                                      *)
LEMMA HighestRnd ==
    ASSUME NEW S \in SUBSET Rnd0, S # {}
    PROVE  \E r \in S : \A s \in S : s <= r
<1>1. MaxRound \in Nat
  BY LrAssumption
<1> DEFINE T == {MaxRound - s : s \in S}
<1>2. T \subseteq Nat /\ T # {}
  <2>1. \A s \in S : MaxRound - s \in Nat
    BY <1>1 DEF Rnd0
  <2>2. PICK s \in S : TRUE
    OBVIOUS
  <2>3. MaxRound - s \in T
    BY <2>2
  <2> QED
    BY <2>1, <2>3
<1>3. IsWellFoundedOn(OpToRel(<, Nat), Nat)
  BY NatLessThanWellFounded
<1>4. PICK t \in T : \A u \in T : ~(<<u, t>> \in OpToRel(<, Nat))
  <2> HIDE DEF T
  <2> QED
    BY <1>2, <1>3, WFMin
<1>5. PICK r \in S : t = MaxRound - r
  BY <1>4
<1>6. ASSUME NEW s \in S PROVE s <= r
  <2>1. MaxRound - s \in T /\ MaxRound - s \in Nat /\ t \in Nat
    BY <1>2
  <2>2. ~(MaxRound - s < t)
    BY <1>4, <2>1 DEF OpToRel
  <2> QED
    BY <1>1, <1>5, <2>2 DEF Rnd0
<1> QED
  BY <1>6

LEMMA ExtractFact ==
    ASSUME NEW got \in SUBSET EpochPromise, NEW Q \in ValidQuorums(got)
    PROVE  ExtractRnd(Q) \in Rnd0
<1>1. Q \subseteq EpochPromise /\ Cardinality(Q) = Quorum
  BY DEF ValidQuorums
<1>2. Q # {}
  BY <1>1, QuorumFact, FS_EmptySet
<1> DEFINE S == {m.rnd : m \in Q}
<1>3. S \in SUBSET Rnd0 /\ S # {}
  BY <1>1, <1>2 DEF EpochPromise
<1>4. \E r \in S : \A s \in S : s <= r
  <2> HIDE DEF S
  <2> QED
    BY <1>3, HighestRnd
<1>5. \E r \in S : \A m \in Q : m.rnd <= r
  BY <1>4
<1>6. ExtractRnd(Q) \in S
  BY <1>5 DEF ExtractRnd
<1> QED
  BY <1>3, <1>6

-----------------------------------------------------------------------------
(* Types.                                                                  *)

LEMMA TypeInit == Init => LrType
<1> SUFFICES ASSUME Init PROVE LrType
  OBVIOUS
<1>1. MaxRound \in Nat
  BY LrAssumption
<1>2. ev \in [ID -> Vector]
  BY IdFacts DEF Init, Vector
<1> QED
  BY <1>1, <1>2, IdFacts
     DEF Init, LrType, TypeOK, Rnd0, Vector, EpochPromise, Promise, Learn

(* The replacement handler.                                                *)
LEMMA TypeReplacing ==
    ASSUME LrType, NEW x \in Replacer, Replacing(x)
    PROVE  LrType'
<1> USE DEF LrType, TypeOK
<1>1. ASSUME NEW i \in ID, HandleRecMsg(i, x) PROVE LrType'
  BY <1>1 DEF HandleRecMsg, propVars
<1>2. ASSUME NEW i \in ID, HandlePrepareEpoch(i, x) PROVE LrType'
  <2>1. [id |-> i, to |-> x, rnd |-> rnd[i], vote |-> vote[i], ev |-> ev[i]] \in EpochPromise
    BY DEF EpochPromise, Rnd0, Vector
  <2> QED
    BY <1>2, <2>1 DEF HandlePrepareEpoch, propVars
<1>3. ASSUME NEW i \in ID, HandlePrepareEpochTooEarly(i, x) PROVE LrType'
  BY <1>3, IdFacts DEF HandlePrepareEpochTooEarly, propVars
<1>4. ASSUME NEW m \in eps, HandleEpochPromise(x, m) PROVE LrType'
  <2>1. /\ x \in ID /\ m \in EpochPromise /\ m.id \in ID /\ Pxid(m.id) \in Pid
        /\ Epoch(m.id) \in Nat /\ m.ev \in Vector
    BY IdFacts DEF EpochPromise
  <2>2. ev' \in [ID -> [Pid -> Nat]]
    BY <1>4, <2>1 DEF HandleEpochPromise
  <2>3. \A e \in Carried(m, x) : As(m, e) \in EpochPromise
    BY <2>1, CarriedFact DEF As, EpochPromise
  <2>4. /\ epochPromises' \in [Replacer -> SUBSET EpochPromise]
        /\ rnd' \in [ID -> Rnd0] /\ \A i \in ID : vote[i] <= rnd'[i]
        /\ up' \subseteq ID /\ up \subseteq up' /\ up' \subseteq up \cup {x}
    <3>1. CASE x \in up
      <4>1. UNCHANGED <<rnd, up>>
            /\ epochPromises' = [epochPromises EXCEPT ![x] = @ \cup {m}]
        BY <1>4, <3>1 DEF HandleEpochPromise
      <4> QED
        BY <2>1, <4>1 DEF Rnd0
    <3>2. CASE x \notin up
      <4>1. PICK e \in Carried(m, x) :
              LET got == epochPromises[x] \cup {As(m, e)} IN
              /\ epochPromises' = [epochPromises EXCEPT ![x] = got]
              /\ \/ /\ \E Q \in ValidQuorums(got) :
                          rnd' = [rnd EXCEPT ![x] = ExtractRnd(Q)]
                    /\ up' = up \cup {x}
                 \/ /\ ValidQuorums(got) = {}
                    /\ UNCHANGED <<rnd, up>>
        BY <1>4, <3>2 DEF HandleEpochPromise
      <4>2. epochPromises[x] \cup {As(m, e)} \in SUBSET EpochPromise
        BY <2>3
      <4>3. rnd' = rnd \/ \E r \in Rnd0 : rnd' = [rnd EXCEPT ![x] = r]
        BY <4>1, <4>2, ExtractFact
      <4>4. rnd' \in [ID -> Rnd0] /\ \A i \in ID : vote[i] <= rnd'[i]
        <5>1. CASE rnd' = rnd
          BY <5>1 DEF Rnd0
        <5>2. ASSUME NEW r \in Rnd0, rnd' = [rnd EXCEPT ![x] = r]
              PROVE  rnd' \in [ID -> Rnd0] /\ \A i \in ID : vote[i] <= rnd'[i]
          <6>1. vote[x] = 0 /\ r >= 0
            BY <2>1, <3>2 DEF Rnd0
          <6> QED
            BY <2>1, <5>2, <6>1 DEF Rnd0
        <5> QED
          BY <4>3, <5>1, <5>2
      <4>5. epochPromises' \in [Replacer -> SUBSET EpochPromise]
        BY <4>1, <4>2
      <4>6. up' \subseteq ID /\ up \subseteq up' /\ up' \subseteq up \cup {x}
        BY <2>1, <4>1
      <4> QED
        BY <4>4, <4>5, <4>6
    <3> QED
      BY <3>1, <3>2
  <2>5. x \notin stuck /\ UNCHANGED <<vote, installing, stuck, eps, prepares, startEv,
                                      phaseOne, used, accepts, promises, learns, slot>>
    BY <1>4 DEF HandleEpochPromise, propVars
  <2> QED
    BY <2>2, <2>4, <2>5 DEF Rnd0
<1> QED
  BY <1>1, <1>2, <1>3, <1>4 DEF Replacing

LEMMA TypeReplace ==
    ASSUME LrType, NEW i \in ID, Replace(i)
    PROVE  LrType'
<1> USE DEF LrType, TypeOK
<1>1. installing[i] \in Replacer /\ installing[i] \in ID
  BY IdFacts DEF Replace
<1>2. Pxid(installing[i]) \in Pid /\ Epoch(installing[i]) \in Nat
  BY <1>1, IdFacts
<1>3. ev' \in [ID -> [Pid -> Nat]]
  BY <1>2 DEF Replace
<1> QED
  BY <1>3 DEF Replace, propVars

(* The messages that As and Shared make.                                   *)
LEMMA AsFact ==
    ASSUME NEW T, T \in {Promise, Learn}, NEW m \in T, NEW e \in Vector
    PROVE  /\ As(m, e) \in T /\ As(m, e).id = m.id /\ As(m, e).ev = e
           /\ As(m, e).rnd = m.rnd
<1>1. CASE T = Promise
  BY <1>1 DEF As, Promise
<1>2. CASE T = Learn
  BY <1>2 DEF As, Learn
<1> QED
  BY <1>1, <1>2

LEMMA SharedFact ==
    ASSUME LrType, NEW i \in ID, NEW T, T \in {Promise, Learn},
           NEW msgs \in SUBSET T
    PROVE  /\ Shared(msgs, i) \in SUBSET T
           /\ \A a \in Shared(msgs, i) : \E b \in msgs :
                  a.id = b.id /\ a.rnd = b.rnd /\ a.ev = IF b.id = i THEN ev[i] ELSE b.ev
<1>1. ev[i] \in Vector
  BY DEF LrType, TypeOK, Vector
<1>2. ASSUME NEW a \in Shared(msgs, i)
      PROVE  /\ a \in T
             /\ \E b \in msgs : a.id = b.id /\ a.rnd = b.rnd
                                /\ a.ev = IF b.id = i THEN ev[i] ELSE b.ev
  <2>1. PICK b \in msgs : a = IF b.id = i THEN As(b, ev[i]) ELSE b
    BY DEF Shared
  <2>2. /\ As(b, ev[i]) \in T /\ As(b, ev[i]).id = b.id /\ As(b, ev[i]).ev = ev[i]
        /\ As(b, ev[i]).rnd = b.rnd
    BY <1>1, AsFact
  <2> QED
    BY <2>1, <2>2
<1> QED
  BY <1>2

(* Received messages have the IDs of those before and of the new one.      *)
LEMMA DistinctIds ==
    ASSUME LrType, NEW i \in ID, NEW T, T \in {Promise, Learn},
           NEW msgs \in SUBSET T, NEW m \in T, NEW e \in Vector,
           \A a, b \in msgs : a.id = b.id => a = b,
           \A a \in msgs : a.id # m.id
    PROVE  \A a, b \in Shared(msgs, i) \cup {As(m, e)} : a.id = b.id => a = b
<1>1. \A a \in Shared(msgs, i) : a.id # As(m, e).id
  <2>1. As(m, e).id = m.id
    BY AsFact
  <2>2. \A a \in Shared(msgs, i) : \E b \in msgs : a.id = b.id
    BY SharedFact
  <2> QED
    BY <2>1, <2>2
<1>2. ASSUME NEW a \in Shared(msgs, i), NEW b \in Shared(msgs, i), a.id = b.id
      PROVE  a = b
  <2>1. PICK c \in msgs : a = IF c.id = i THEN As(c, ev[i]) ELSE c
    BY DEF Shared
  <2>2. PICK d \in msgs : b = IF d.id = i THEN As(d, ev[i]) ELSE d
    BY DEF Shared
  <2>3. ev[i] \in Vector /\ c \in T /\ d \in T
    BY DEF LrType, TypeOK, Vector
  <2>4. As(c, ev[i]).id = c.id /\ As(d, ev[i]).id = d.id
    BY <2>3, AsFact
  <2>5. c = d
    <3>1. a.id = c.id
      BY <2>1, <2>4, Zenon
    <3>2. b.id = d.id
      BY <2>2, <2>4, Zenon
    <3> QED
      BY <1>2, <3>1, <3>2
  <2> QED
    BY <2>1, <2>2, <2>5
<1> QED
  BY <1>1, <1>2

(* What handlePromLr does, in terms of the promises it then has.           *)
PromOutcome(r, m, e, got, check) ==
    /\ e \in Vector
    /\ got = Shared(phaseOne[r].got, Proposer[r]) \cup {As(m, e)}
    /\ got \in SUBSET Promise
    /\ check \in BOOLEAN
    /\ check <=> (phaseOne[r].check \/ e # ev[Proposer[r]])
    /\ \/ /\ phaseOne' = [phaseOne EXCEPT ![r] = [got |-> {}, check |-> FALSE]]
          /\ \E S \in SUBSET got :
                /\ used' = [used EXCEPT ![r] = S]
                /\ \/ check /\ S \in ValidQuorums(got)
                   \/ ~check /\ S = got /\ Cardinality(S) >= Quorum
       \/ /\ phaseOne' = [phaseOne EXCEPT ![r] = [got |-> got, check |-> check]]
          /\ UNCHANGED used

LEMMA PromStep ==
    ASSUME LrType, NEW r \in Round, NEW m \in promises, HandlePromLr(r, m)
    PROVE  /\ Proposer[r] \in ID /\ m \in Promise /\ m.rnd = r
           /\ used[r] = {}
           /\ \A n \in phaseOne[r].got : n.id # m.id
           /\ \E e, got, check : PromOutcome(r, m, e, got, check)
<1>1. Proposer[r] \in ID /\ m \in Promise /\ m.rnd = r /\ used[r] = {} /\ m.id \in ID
      /\ m.ev \in Vector /\ \A n \in phaseOne[r].got : n.id # m.id
  BY LrAssumption DEF HandlePromLr, LrType, Promise
<1>2. PICK e \in Carried(m, Proposer[r]) :
        LET got == Shared(phaseOne[r].got, Proposer[r]) \cup {As(m, e)}
            check == phaseOne[r].check \/ e # ev[Proposer[r]]
            done == IF check THEN ValidQuorums(got)
                    ELSE {S \in {got} : Cardinality(S) >= Quorum} IN
        \/ /\ \E S \in done : used' = [used EXCEPT ![r] = S]
           /\ phaseOne' = [phaseOne EXCEPT ![r] = [got |-> {}, check |-> FALSE]]
        \/ /\ done = {}
           /\ phaseOne' = [phaseOne EXCEPT ![r] = [got |-> got, check |-> check]]
           /\ UNCHANGED used
  BY DEF HandlePromLr
<1>3. e \in Vector
  BY <1>1, CarriedFact
<1> DEFINE got == Shared(phaseOne[r].got, Proposer[r]) \cup {As(m, e)}
           check == phaseOne[r].check \/ e # ev[Proposer[r]]
<1>4. got \in SUBSET Promise
  <2>1. phaseOne[r].got \in SUBSET Promise
    BY DEF LrType
  <2> QED
    BY <1>1, <1>3, <2>1, SharedFact, AsFact
<1>5. check \in BOOLEAN /\ (check <=> (phaseOne[r].check \/ e # ev[Proposer[r]]))
  BY DEF LrType
<1>6. \/ /\ phaseOne' = [phaseOne EXCEPT ![r] = [got |-> {}, check |-> FALSE]]
         /\ \E S \in SUBSET got :
               /\ used' = [used EXCEPT ![r] = S]
               /\ \/ check /\ S \in ValidQuorums(got)
                  \/ ~check /\ S = got /\ Cardinality(S) >= Quorum
      \/ /\ phaseOne' = [phaseOne EXCEPT ![r] = [got |-> got, check |-> check]]
         /\ UNCHANGED used
  <2>1. ValidQuorums(got) \subseteq SUBSET got
    BY DEF ValidQuorums
  <2> HIDE DEF got
  <2> QED
    BY <1>2, <1>5, <2>1 DEF got
<1>7. PromOutcome(r, m, e, got, check)
  <2> HIDE DEF check
  <2> QED
    BY <1>3, <1>4, <1>5, <1>6 DEF PromOutcome
<1> HIDE DEF got, check
<1> QED
  BY <1>1, <1>7

LEMMA TypePaxos ==
    ASSUME LrType, NEW r \in Round, Paxos(r)
    PROVE  LrType'
<1> USE DEF LrType, TypeOK
<1>1. Proposer[r] \in ID /\ r \in Rnd0 /\ MaxRound \in Nat
  BY LrAssumption DEF Round, Rnd0
<1>2. CASE StartPhaseOne(r)
  <2>1. IDs(Proposer[r]) \subseteq Pid \X Nat
    BY <1>1, IDsFact
  <2> QED
    BY <1>1, <1>2, <2>1 DEF StartPhaseOne, lrVars, Vector
<1>3. ASSUME NEW i \in ID, HandlePrepLr(i, r) PROVE LrType'
  <2>1. [id |-> i, rnd |-> r, vote |-> vote[i], ev |-> ev[i]] \in Promise
    BY DEF Promise, Rnd0, Vector
  <2>2. rnd' = [rnd EXCEPT ![i] = r] /\ rnd[i] < r
        /\ promises' = promises \cup
             {[id |-> i, rnd |-> r, vote |-> vote[i], ev |-> ev[i]]}
        /\ UNCHANGED <<vote, lrVars, propVars, learns, slot>>
    BY <1>3 DEF HandlePrepLr
  <2>3. rnd' \in [ID -> 0..MaxRound] /\ \A k \in ID : vote[k] <= rnd'[k]
    BY <1>1, <2>2 DEF Rnd0
  <2> QED
    BY <2>1, <2>2, <2>3 DEF lrVars, propVars
<1>4. ASSUME NEW i \in ID, HandleAccLr(i, r) PROVE LrType'
  <2>1. [id |-> i, rnd |-> r, ev |-> ev[i]] \in Learn
    BY DEF Learn, Vector
  <2>2. /\ i \in up /\ rnd' = [rnd EXCEPT ![i] = r] /\ vote' = [vote EXCEPT ![i] = r]
        /\ learns' = learns \cup {[id |-> i, rnd |-> r, ev |-> ev[i]]}
        /\ UNCHANGED <<lrVars, propVars, promises, slot>>
    BY <1>4 DEF HandleAccLr, Running
  <2>3. /\ rnd' \in [ID -> 0..MaxRound] /\ vote' \in [ID -> 0..MaxRound]
        /\ \A k \in ID : vote'[k] <= rnd'[k]
        /\ \A k \in ID \ up : vote'[k] = 0
    BY <1>1, <2>2 DEF Rnd0
  <2> QED
    BY <2>1, <2>2, <2>3 DEF lrVars, propVars
<1>5. ASSUME NEW m \in promises, HandlePromLr(r, m) PROVE LrType'
  <2>1. UNCHANGED <<rnd, vote, lrVars, prepares, startEv, promises, accepts, learns, slot>>
    BY <1>5 DEF HandlePromLr
  <2>2. /\ used' \in [Round -> SUBSET Promise]
        /\ phaseOne' \in [Round -> [got : SUBSET Promise, check : BOOLEAN]]
    <3>1. PICK e, got, check : PromOutcome(r, m, e, got, check)
      BY <1>5, PromStep
    <3>2. /\ got \in SUBSET Promise /\ check \in BOOLEAN
          /\ phaseOne' = [phaseOne EXCEPT ![r] = [got |-> {}, check |-> FALSE]]
             \/ phaseOne' = [phaseOne EXCEPT ![r] = [got |-> got, check |-> check]]
          /\ used' = used \/ \E S \in SUBSET got : used' = [used EXCEPT ![r] = S]
      BY <3>1 DEF PromOutcome
    <3>3. phaseOne' \in [Round -> [got : SUBSET Promise, check : BOOLEAN]]
      <4> DEFINE R == [got : SUBSET Promise, check : BOOLEAN]
      <4>1. [got |-> {}, check |-> FALSE] \in R /\ [got |-> got, check |-> check] \in R
        BY <3>2
      <4>2. phaseOne \in [Round -> R]
        OBVIOUS
      <4> HIDE DEF R
      <4>3. phaseOne' \in [Round -> R]
        BY <3>2, <4>1, <4>2
      <4> QED
        BY <4>3 DEF R
    <3>4. used' \in [Round -> SUBSET Promise]
      BY <3>2
    <3> QED
      BY <3>3, <3>4
  <2> QED
    BY <2>1, <2>2 DEF lrVars
<1>6. CASE SendAccept(r)
  <2>1. IDs(Proposer[r]) \subseteq Pid \X Nat
    BY <1>1, IDsFact
  <2> QED
    BY <1>1, <1>6, <2>1 DEF SendAccept, lrVars
<1> QED
  BY <1>2, <1>3, <1>4, <1>5, <1>6, LrAssumption DEF Paxos

(* handleLrnLr, in terms of the Learns it keeps of those it had, and then. *)
LearnOutcome(m, e, old, got, check, learned) ==
    /\ e \in Vector
    /\ old \in {{}, slot.got}
    /\ old # {} => slot.rnd = m.rnd
    /\ \A n \in old : n.id = m.id => n.rnd # m.rnd
    /\ got = Shared(old, Learner) \cup {As(m, e)}
    /\ got \in SUBSET Learn
    /\ check \in BOOLEAN
    /\ slot' = [rnd |-> m.rnd, got |-> got, check |-> check, learned |-> learned]
    /\ \/ learned = 0
       \/ learned = m.rnd /\ \E S \in SUBSET got : Cardinality(S) >= Quorum

LEMMA LearnStep ==
    ASSUME LrType, NEW m \in learns, HandleLrnLr(m)
    PROVE  /\ Learner \in ID /\ m \in Learn
           /\ UNCHANGED <<rnd, vote, lrVars, propVars, promises, learns>>
           /\ slot.learned = 0
           /\ \E e, old, got, check, learned : LearnOutcome(m, e, old, got, check, learned)
<1>1. /\ Learner \in ID /\ m \in Learn /\ slot.learned = 0 /\ m.id \in ID /\ m.ev \in Vector
      /\ UNCHANGED <<rnd, vote, lrVars, propVars, promises, learns>>
      /\ slot.rnd <= m.rnd
      /\ ~\E n \in slot.got : n.id = m.id /\ n.rnd = m.rnd
      /\ slot.rnd \in Int /\ m.rnd \in Int
  BY LrAssumption DEF HandleLrnLr, LrType, Learn, Round, Rnd0
<1>2. PICK e \in Carried(m, Learner) :
        LET old == IF slot.rnd < m.rnd THEN {} ELSE Shared(slot.got, Learner)
            got == old \cup {As(m, e)}
            check == slot.check \/ e # ev[Learner]
            done == IF check THEN ValidQuorums(got) # {}
                    ELSE Cardinality(got) >= Quorum IN
        slot' = [rnd |-> m.rnd, got |-> got, check |-> check,
                 learned |-> IF done THEN m.rnd ELSE 0]
  BY DEF HandleLrnLr
<1>3. e \in Vector
  BY <1>1, CarriedFact
<1>4. PICK old : old = IF slot.rnd < m.rnd THEN {} ELSE slot.got
  OBVIOUS
<1>5. /\ old \in {{}, slot.got} /\ (old # {} => slot.rnd = m.rnd)
      /\ \A n \in old : n.id = m.id => n.rnd # m.rnd
      /\ Shared(old, Learner) = IF slot.rnd < m.rnd THEN {} ELSE Shared(slot.got, Learner)
  BY <1>1, <1>4 DEF Shared
<1>6. PICK got : got = Shared(old, Learner) \cup {As(m, e)}
  OBVIOUS
<1>7. got \in SUBSET Learn
  <2>1. old \in SUBSET Learn
    BY <1>4 DEF LrType
  <2> QED
    BY <1>1, <1>3, <1>6, <2>1, SharedFact, AsFact
<1>8. PICK check : check = (slot.check \/ e # ev[Learner])
  OBVIOUS
<1>9. check \in BOOLEAN
  BY <1>8 DEF LrType
<1>10. PICK learned :
         /\ learned = IF (IF check THEN ValidQuorums(got) # {} ELSE Cardinality(got) >= Quorum)
                      THEN m.rnd ELSE 0
         /\ slot' = [rnd |-> m.rnd, got |-> got, check |-> check, learned |-> learned]
  BY <1>2, <1>5, <1>6, <1>8
<1>11. learned = 0 \/ (learned = m.rnd /\ \E S \in SUBSET got : Cardinality(S) >= Quorum)
  BY <1>9, <1>10, QuorumFact DEF ValidQuorums
<1>12. LearnOutcome(m, e, old, got, check, learned)
  BY <1>3, <1>5, <1>6, <1>7, <1>9, <1>10, <1>11 DEF LearnOutcome
<1> QED
  BY <1>1, <1>12

LEMMA TypeLearn ==
    ASSUME LrType, NEW m \in learns, HandleLrnLr(m)
    PROVE  LrType'
<1>1. m \in Learn /\ UNCHANGED <<rnd, vote, lrVars, propVars, promises, learns>>
  BY LearnStep
<1>2. PICK e, old, got, check, learned : LearnOutcome(m, e, old, got, check, learned)
  BY LearnStep
<1>3. m.rnd \in Rnd0 /\ 0 \in Rnd0
  BY <1>1, LrAssumption DEF Learn, Round, Rnd0
<1>4. slot' \in [rnd : Rnd0, got : SUBSET Learn, check : BOOLEAN, learned : Rnd0]
  BY <1>2, <1>3 DEF LearnOutcome
<1> QED
  BY <1>1, <1>4 DEF LrType, TypeOK, lrVars, propVars

LEMMA TypeStep ==
    ASSUME LrType, [Next]_vars
    PROVE  LrType'
<1>1. CASE UNCHANGED vars
  BY <1>1 DEF vars, lrVars, propVars, LrType, TypeOK
<1> QED
  BY <1>1, TypeReplacing, TypeReplace, TypePaxos, TypeLearn DEF Next

-----------------------------------------------------------------------------
(* Epoch vectors.                                                          *)

(* A replica that is being installed is newer than the one it replaces,    *)
(* and of replicas that are not in the node map no epoch is known.         *)
EvInv ==
    /\ \A i \in ID : installing[i] # None =>
           Epoch(installing[i]) > ev[i][Pxid(installing[i])]
    /\ \A i \in ID : \A p \in Pid \ Known(i) : ev[i][p] = 0

LEMMA EvInit == Init => EvInv
<1> SUFFICES ASSUME Init PROVE EvInv
  OBVIOUS
<1>1. ASSUME NEW i \in ID, NEW p \in Pid \ Known(i) PROVE ev[i][p] = 0
  <2>1. i \in Replacer /\ p # Pxid(i)
    BY IdFacts DEF Known
  <2> QED
    BY <2>1 DEF Init
<1>2. \A i \in ID : installing[i] = None
  BY DEF Init
<1> QED
  BY <1>1, <1>2 DEF EvInv

(* Known replicas stay known, and epochs only grow.                        *)
EvGrows ==
    \A i \in ID : \A p \in Pid : ev'[i][p] >= ev[i][p]

LEMMA EvQuiet ==
    ASSUME LrType, EvInv, UNCHANGED <<ev, installing, epochPromises>>
    PROVE  EvInv' /\ EvGrows
<1>1. \A i \in ID : Known(i)' = Known(i)
  BY DEF Known
<1>2. \A i \in ID : \A p \in Pid : ev[i][p] \in Nat
  BY DEF LrType, TypeOK
<1> QED
  BY <1>1, <1>2 DEF EvInv, EvGrows

LEMMA EvReplacing ==
    ASSUME LrType, EvInv, NEW x \in Replacer, Replacing(x)
    PROVE  EvInv' /\ EvGrows
<1>1. ASSUME NEW i \in ID, HandleRecMsg(i, x) \/ HandlePrepareEpochTooEarly(i, x)
      PROVE  EvInv' /\ EvGrows
  <2>1. UNCHANGED <<ev, installing, epochPromises>>
    BY <1>1 DEF HandleRecMsg, HandlePrepareEpochTooEarly
  <2> QED
    BY <2>1, EvQuiet
<1>2. ASSUME NEW i \in ID, HandlePrepareEpoch(i, x)
      PROVE  EvInv' /\ EvGrows
  <2>1. /\ UNCHANGED <<ev, epochPromises>> /\ installing' = [installing EXCEPT ![i] = x]
        /\ Epoch(x) > ev[i][Pxid(x)]
    BY <1>2 DEF HandlePrepareEpoch, HasPrepareEpoch
  <2>2. \A k \in ID : Known(k)' = Known(k)
    BY <2>1 DEF Known
  <2>3. \A k \in ID : installing'[k] # None =>
            Epoch(installing'[k]) > ev'[k][Pxid(installing'[k])]
    BY <2>1 DEF EvInv, LrType, TypeOK
  <2>4. \A k \in ID : \A p \in Pid : ev[k][p] \in Nat
    BY DEF LrType, TypeOK
  <2> QED
    BY <2>1, <2>2, <2>3, <2>4 DEF EvInv, EvGrows
<1>3. ASSUME NEW m \in eps, HandleEpochPromise(x, m)
      PROVE  EvInv' /\ EvGrows
  <2>1. /\ x \in ID /\ m.id \in ID /\ Pxid(m.id) \in Pid /\ Epoch(m.id) \in Nat
        /\ m \in EpochPromise /\ m.ev \in Vector
    BY IdFacts DEF LrType, EpochPromise
  <2>2. PICK n \in EpochPromise :
          n.id = m.id /\ epochPromises' = [epochPromises EXCEPT ![x] = @ \cup {n}]
    <3>1. \A e \in Vector : As(m, e) \in EpochPromise /\ As(m, e).id = m.id
      BY <2>1 DEF As, EpochPromise
    <3>2. Carried(m, x) \subseteq Vector
      BY <2>1, CarriedFact
    <3> QED
      BY <1>3, <2>1, <3>1, <3>2 DEF HandleEpochPromise
  <2>3. /\ installing[x] = None /\ UNCHANGED installing
        /\ ev' = IF Pxid(m.id) \in Known(x) THEN ev
                 ELSE [ev EXCEPT ![x][Pxid(m.id)] = Epoch(m.id)]
    BY <1>3 DEF HandleEpochPromise
  <2>4. \A k \in ID \ {x} : Known(k)' = Known(k)
    BY <2>2, IdFacts DEF Known, LrType
  <2>5. Known(x) \subseteq Known(x)' /\ Pxid(m.id) \in Known(x)'
    <3>1. CASE x \in Original
      BY <2>1, <3>1 DEF Known
    <3>2. CASE x \notin Original
      BY <2>2, <3>2 DEF Known, LrType
    <3> QED
      BY <3>1, <3>2
  <2>6. \A k \in ID : \A p \in Pid : ev[k][p] \in Nat /\ ev'[k] \in Vector
    BY <2>1, <2>3 DEF LrType, TypeOK, Vector
  <2>7. /\ \A k \in ID \ {x} : ev'[k] = ev[k]
        /\ \A p \in Pid : p # Pxid(m.id) \/ Pxid(m.id) \in Known(x) => ev'[x][p] = ev[x][p]
        /\ Pxid(m.id) \notin Known(x) => ev[x][Pxid(m.id)] = 0
    BY <2>1, <2>3 DEF LrType, TypeOK, EvInv
  <2>8. EvGrows
    BY <2>1, <2>6, <2>7 DEF EvGrows, Vector
  <2>9. \A k \in ID : installing'[k] # None =>
            Epoch(installing'[k]) > ev'[k][Pxid(installing'[k])]
    BY <2>3, <2>7 DEF EvInv
  <2>10. \A k \in ID : \A p \in Pid \ Known(k)' : ev'[k][p] = 0
    BY <2>4, <2>5, <2>7 DEF EvInv
  <2> QED
    BY <2>8, <2>9, <2>10 DEF EvInv
<1> QED
  BY <1>1, <1>2, <1>3 DEF Replacing

LEMMA EvReplace ==
    ASSUME LrType, EvInv, NEW i \in ID, Replace(i)
    PROVE  EvInv' /\ EvGrows
<1>1. PICK x \in Replacer : x = installing[i]
  BY DEF Replace, LrType, TypeOK
<1>2. Pxid(x) \in Pid /\ Epoch(x) \in Nat /\ Epoch(x) > ev[i][Pxid(x)]
  BY <1>1, IdFacts DEF EvInv, Replace
<1>3. /\ UNCHANGED epochPromises /\ installing' = [installing EXCEPT ![i] = None]
      /\ ev' = IF Pxid(x) \in Known(i)
               THEN [ev EXCEPT ![i][Pxid(x)] = Epoch(x)] ELSE ev
  BY <1>1 DEF Replace
<1>4. \A k \in ID : Known(k)' = Known(k)
  BY <1>3 DEF Known
<1>5. \A k \in ID : \A p \in Pid : ev[k][p] \in Nat /\ ev'[k] \in Vector
  BY <1>2, <1>3 DEF LrType, TypeOK, Vector
<1>6. /\ \A k \in ID \ {i} : ev'[k] = ev[k]
      /\ \A p \in Pid : ev'[i][p] = ev[i][p]
                        \/ (p = Pxid(x) /\ p \in Known(i) /\ ev'[i][p] = Epoch(x))
  BY <1>2, <1>3 DEF LrType, TypeOK
<1>7. EvGrows
  BY <1>2, <1>5, <1>6 DEF EvGrows
<1>8. \A k \in ID : installing'[k] # None =>
          Epoch(installing'[k]) > ev'[k][Pxid(installing'[k])]
  BY <1>3, <1>6 DEF EvInv, LrType, TypeOK
<1>9. \A k \in ID : \A p \in Pid \ Known(k)' : ev'[k][p] = 0
  BY <1>4, <1>6 DEF EvInv
<1> QED
  BY <1>7, <1>8, <1>9 DEF EvInv

LEMMA EvStep ==
    ASSUME LrType, EvInv, [Next]_vars
    PROVE  EvInv' /\ EvGrows
<1>1. CASE UNCHANGED vars
  BY <1>1, EvQuiet DEF vars, lrVars
<1>2. ASSUME NEW r \in Round, Paxos(r) PROVE EvInv' /\ EvGrows
  <2>1. UNCHANGED lrVars
    BY <1>2 DEF Paxos, StartPhaseOne, HandlePrepLr, HandleAccLr, HandlePromLr, SendAccept
  <2> QED
    BY <2>1, EvQuiet DEF lrVars
<1>3. ASSUME NEW m \in learns, HandleLrnLr(m) PROVE EvInv' /\ EvGrows
  <2>1. UNCHANGED lrVars
    BY <1>3 DEF HandleLrnLr
  <2> QED
    BY <2>1, EvQuiet DEF lrVars
<1> QED
  BY <1>1, <1>2, <1>3, EvReplacing, EvReplace DEF Next

-----------------------------------------------------------------------------
(* Phase 1.                                                                *)

(* A Prepare was sent to the IDs of the vector its proposer had then; that *)
(* has only grown since.                                                   *)
PreparesSent(r) ==
    prepares[r] # {} =>
        /\ \A q \in prepares[r] : q = <<Pxid(q), startEv[r][Pxid(q)]>>
        /\ \A p \in Pid : startEv[r][p] <= ev[Proposer[r]][p]

(* Promises kept of a round; without a check all have the vector of the    *)
(* proposer, as long as that has not changed.                              *)
PromisesKept(r) ==
    /\ \A a \in phaseOne[r].got : a.id \in prepares[r]
    /\ \A a, b \in phaseOne[r].got : a.id = b.id => a = b
    /\ ~phaseOne[r].check /\ ev[Proposer[r]] = startEv[r] =>
           \A a \in phaseOne[r].got : a.ev = startEv[r]

PromisesUsed(r) ==
    /\ \A a \in used[r] : a.id \in prepares[r]
    /\ used[r] # {} =>
           \/ ev[Proposer[r]] # startEv[r]
           \/ Cardinality(used[r]) >= Quorum /\ Valid(used[r])

PhaseInv ==
    /\ \A m \in promises : m.id \in prepares[m.rnd]
    /\ \A r \in Round : PreparesSent(r) /\ PromisesKept(r) /\ PromisesUsed(r)

LEMMA PhaseInit == Init => PhaseInv
<1> SUFFICES ASSUME Init PROVE PhaseInv
  OBVIOUS
<1>1. \A r \in Round : prepares[r] = {} /\ phaseOne[r].got = {} /\ used[r] = {}
  BY DEF Init
<1>2. promises = {}
  BY DEF Init
<1> QED
  BY <1>1, <1>2 DEF PhaseInv, PreparesSent, PromisesKept, PromisesUsed

(* The vectors of two states between which they grew, and in the later of  *)
(* which one is what it was at the start.                                  *)
LEMMA SameVector ==
    ASSUME LrType, LrType', EvGrows, NEW r \in Round, PreparesSent(r), prepares[r] # {},
           ev'[Proposer[r]] = startEv[r]
    PROVE  ev[Proposer[r]] = startEv[r]
<1>1. Proposer[r] \in ID
  BY LrAssumption
<1>2. ev[Proposer[r]] \in Vector /\ startEv[r] \in Vector
  BY <1>1 DEF LrType, TypeOK, Vector
<1>3. \A p \in Pid : startEv[r][p] <= ev[Proposer[r]][p]
                     /\ ev[Proposer[r]][p] <= ev'[Proposer[r]][p]
                     /\ startEv[r][p] \in Nat /\ ev[Proposer[r]][p] \in Nat
  BY <1>1, <1>2 DEF PreparesSent, EvGrows, Vector
<1>4. \A p \in Pid : ev[Proposer[r]][p] = startEv[r][p]
  BY <1>3
<1> QED
  BY <1>2, <1>4 DEF Vector

(* What a step that does not touch a round's Phase 1 leaves of it.         *)
LEMMA PhaseQuiet ==
    ASSUME LrType, LrType', EvGrows, NEW r \in Round,
           PreparesSent(r), PromisesKept(r), PromisesUsed(r),
           prepares'[r] = prepares[r], startEv'[r] = startEv[r],
           phaseOne'[r] = phaseOne[r], used'[r] = used[r]
    PROVE  PreparesSent(r)' /\ PromisesKept(r)' /\ PromisesUsed(r)'
<1>1. Proposer[r] \in ID
  BY LrAssumption
<1>2. PreparesSent(r)'
  <2>1. \A p \in Pid : startEv[r][p] \in Nat /\ ev[Proposer[r]][p] \in Nat
                       /\ ev'[Proposer[r]][p] \in Nat
    BY <1>1 DEF LrType, TypeOK, Vector
  <2> QED
    BY <1>1, <2>1 DEF PreparesSent, EvGrows
<1>3. PromisesKept(r)'
  <2>1. ASSUME ~phaseOne[r].check, ev'[Proposer[r]] = startEv[r],
               NEW a \in phaseOne[r].got
        PROVE  a.ev = startEv[r]
    <3>1. ev[Proposer[r]] = startEv[r]
      BY <2>1, SameVector DEF PromisesKept
    <3> QED
      BY <2>1, <3>1 DEF PromisesKept
  <2> QED
    BY <2>1 DEF PromisesKept
<1>4. PromisesUsed(r)'
  <2>1. ASSUME used[r] # {}, ev'[Proposer[r]] = startEv[r]
        PROVE  Cardinality(used[r]) >= Quorum /\ Valid(used[r])
    <3>1. ev[Proposer[r]] = startEv[r]
      BY <2>1, SameVector DEF PromisesUsed
    <3> QED
      BY <2>1, <3>1 DEF PromisesUsed
  <2> QED
    BY <2>1 DEF PromisesUsed
<1> QED
  BY <1>2, <1>3, <1>4

(* startPhaseOne.                                                          *)
LEMMA PhaseStart ==
    ASSUME LrType, LrType', EvGrows, PhaseInv, NEW r \in Round, StartPhaseOne(r)
    PROVE  PhaseInv'
<1>1. /\ prepares[r] = {} /\ prepares' = [prepares EXCEPT ![r] = IDs(Proposer[r])]
      /\ startEv' = [startEv EXCEPT ![r] = ev[Proposer[r]]]
      /\ UNCHANGED <<ev, promises, phaseOne, used>>
  BY DEF StartPhaseOne, lrVars
<1>2. Proposer[r] \in ID
  BY LrAssumption
<1>3. phaseOne[r].got = {} /\ used[r] = {} /\ \A m \in promises : m.rnd # r /\ m.rnd \in Round
  BY <1>1 DEF PhaseInv, PromisesKept, PromisesUsed, LrType, Promise
<1>4. prepares'[r] = IDs(Proposer[r]) /\ startEv'[r] = ev[Proposer[r]]
  BY <1>1 DEF LrType
<1>5. PreparesSent(r)'
  <2>1. \A p \in Pid : ev[Proposer[r]][p] \in Nat
    BY <1>2 DEF LrType, TypeOK
  <2>2. \A q \in IDs(Proposer[r]) : q = <<Pxid(q), ev[Proposer[r]][Pxid(q)]>>
    BY <1>2, IDsFact
  <2> QED
    BY <1>1, <1>4, <2>1, <2>2 DEF PreparesSent
<1>6. PromisesKept(r)' /\ PromisesUsed(r)'
  BY <1>1, <1>3 DEF PromisesKept, PromisesUsed
<1>7. ASSUME NEW s \in Round, s # r
      PROVE  PreparesSent(s)' /\ PromisesKept(s)' /\ PromisesUsed(s)'
  <2>1. prepares'[s] = prepares[s] /\ startEv'[s] = startEv[s]
    BY <1>1, <1>7 DEF LrType
  <2> QED
    BY <1>1, <2>1, PhaseQuiet DEF PhaseInv
<1>8. \A m \in promises' : m.id \in prepares'[m.rnd]
  BY <1>1, <1>3 DEF PhaseInv, LrType
<1> QED
  BY <1>5, <1>6, <1>7, <1>8 DEF PhaseInv

(* Promises of different replicas, all with the vector of the Prepare.     *)
LEMMA SameVectorValid ==
    ASSUME NEW r \in Round, PreparesSent(r), NEW S,
           \A a \in S : a.id \in prepares[r] /\ a.ev = startEv[r],
           \A a, b \in S : a.id = b.id => a = b,
           LrType
    PROVE  Valid(S)
<1> SUFFICES ASSUME NEW a \in S, NEW b \in S, a # b PROVE ~Conflict(a, b)
  BY DEF Valid
<1>1. /\ a.id = <<Pxid(a.id), startEv[r][Pxid(a.id)]>>
      /\ b.id = <<Pxid(b.id), startEv[r][Pxid(b.id)]>>
      /\ a.id \in Pid \X Nat /\ b.id \in Pid \X Nat
  BY DEF PreparesSent, LrType
<1>2. Pxid(a.id) # Pxid(b.id)
  BY <1>1
<1>3. /\ Epoch(a.id) = startEv[r][Pxid(a.id)] /\ Epoch(b.id) = startEv[r][Pxid(b.id)]
      /\ Epoch(a.id) \in Nat /\ Epoch(b.id) \in Nat
  BY <1>1 DEF Epoch
<1> QED
  BY <1>2, <1>3 DEF Conflict

(* handlePromLr.                                                           *)
LEMMA PhasePromise ==
    ASSUME LrType, LrType', EvGrows, PhaseInv,
           NEW r \in Round, NEW m \in promises, HandlePromLr(r, m)
    PROVE  PhaseInv'
<1>1. /\ Proposer[r] \in ID /\ m \in Promise /\ m.rnd = r /\ used[r] = {}
      /\ \A n \in phaseOne[r].got : n.id # m.id
      /\ UNCHANGED <<ev, prepares, startEv, promises>>
  <2>1. UNCHANGED <<ev, prepares, startEv, promises>>
    BY DEF HandlePromLr, lrVars
  <2> QED
    BY <2>1, PromStep
<1>2. PICK e, got, check : PromOutcome(r, m, e, got, check)
  BY PromStep
<1>3. e \in Vector /\ got = Shared(phaseOne[r].got, Proposer[r]) \cup {As(m, e)}
      /\ got \in SUBSET Promise /\ check \in BOOLEAN
      /\ (check <=> (phaseOne[r].check \/ e # ev[Proposer[r]]))
  BY <1>2 DEF PromOutcome
<1>4. phaseOne[r].got \in SUBSET Promise
  BY DEF LrType
<1>5. /\ As(m, e).id = m.id /\ As(m, e).ev = e
      /\ \A a \in Shared(phaseOne[r].got, Proposer[r]) : \E b \in phaseOne[r].got :
            a.id = b.id /\ a.ev = IF b.id = Proposer[r] THEN ev[Proposer[r]] ELSE b.ev
  BY <1>1, <1>3, <1>4, AsFact, SharedFact
<1>6. \A a \in got : a.id \in prepares[r]
  BY <1>1, <1>3, <1>5 DEF PhaseInv, PromisesKept
<1>7. \A a, b \in got : a.id = b.id => a = b
  BY <1>1, <1>3, <1>4, DistinctIds DEF PhaseInv, PromisesKept
<1>8. ASSUME ~check, ev[Proposer[r]] = startEv[r]
      PROVE  \A a \in got : a.ev = startEv[r]
  <2>1. ~phaseOne[r].check /\ e = ev[Proposer[r]]
    BY <1>3, <1>8 DEF LrType
  <2>2. \A b \in phaseOne[r].got : b.ev = startEv[r]
    BY <1>8, <2>1 DEF PhaseInv, PromisesKept
  <2> QED
    BY <1>3, <1>5, <1>8, <2>1, <2>2
<1>9. PreparesSent(r)'
  BY <1>1 DEF PhaseInv, PreparesSent
<1>10. PromisesKept(r)' /\ PromisesUsed(r)'
  <2>1. CASE /\ phaseOne' = [phaseOne EXCEPT ![r] = [got |-> {}, check |-> FALSE]]
             /\ \E S \in SUBSET got :
                   /\ used' = [used EXCEPT ![r] = S]
                   /\ \/ check /\ S \in ValidQuorums(got)
                      \/ ~check /\ S = got /\ Cardinality(S) >= Quorum
    <3>1. phaseOne'[r].got = {}
      BY <2>1 DEF LrType
    <3>2. PICK S \in SUBSET got :
            /\ used'[r] = S
            /\ \/ check /\ S \in ValidQuorums(got)
               \/ ~check /\ S = got /\ Cardinality(S) >= Quorum
      BY <2>1 DEF LrType
    <3>3. CASE S \in ValidQuorums(got)
      <4>1. Cardinality(S) >= Quorum /\ Valid(S)
        BY <3>3, QuorumFact DEF ValidQuorums
      <4> QED
        BY <1>1, <1>6, <3>1, <3>2, <4>1 DEF PromisesKept, PromisesUsed
    <3>4. CASE ~check /\ S = got /\ Cardinality(S) >= Quorum
      <4>1. ev[Proposer[r]] = startEv[r] => Valid(S)
        BY <1>6, <1>7, <1>8, <3>4, SameVectorValid DEF PhaseInv
      <4> QED
        BY <1>1, <1>6, <3>1, <3>2, <3>4, <4>1 DEF PromisesKept, PromisesUsed
    <3> QED
      BY <3>2, <3>3, <3>4
  <2>2. CASE /\ phaseOne' = [phaseOne EXCEPT ![r] = [got |-> got, check |-> check]]
             /\ UNCHANGED used
    <3>1. phaseOne'[r].got = got /\ phaseOne'[r].check = check /\ used'[r] = {}
      BY <1>1, <2>2 DEF LrType
    <3> QED
      BY <1>1, <1>6, <1>7, <1>8, <3>1 DEF PromisesKept, PromisesUsed
  <2> QED
    BY <1>2, <2>1, <2>2 DEF PromOutcome
<1>11. ASSUME NEW s \in Round, s # r
       PROVE  PreparesSent(s)' /\ PromisesKept(s)' /\ PromisesUsed(s)'
  <2>1. phaseOne'[s] = phaseOne[s] /\ used'[s] = used[s]
    BY <1>2, <1>11 DEF PromOutcome, LrType
  <2> QED
    BY <1>1, <2>1, PhaseQuiet DEF PhaseInv
<1>12. \A n \in promises' : n.id \in prepares'[n.rnd]
  BY <1>1 DEF PhaseInv
<1> QED
  BY <1>9, <1>10, <1>11, <1>12 DEF PhaseInv

LEMMA PhaseStep ==
    ASSUME LrType, LrType', EvGrows, PhaseInv, [Next]_vars
    PROVE  PhaseInv'
<1>1. ASSUME UNCHANGED <<prepares, startEv, phaseOne, used>>,
             \A m \in promises' : m \in promises \/ m.id \in prepares[m.rnd]
      PROVE  PhaseInv'
  <2>1. \A r \in Round : PreparesSent(r)' /\ PromisesKept(r)' /\ PromisesUsed(r)'
    BY <1>1, PhaseQuiet DEF PhaseInv
  <2> QED
    BY <1>1, <2>1 DEF PhaseInv
<1>2. CASE UNCHANGED vars
  BY <1>1, <1>2 DEF vars, propVars
<1>3. ASSUME NEW x \in Replacer, Replacing(x) PROVE PhaseInv'
  <2>1. UNCHANGED propVars /\ UNCHANGED promises
    BY <1>3 DEF Replacing, HandleRecMsg, HandlePrepareEpoch, HandlePrepareEpochTooEarly,
                HandleEpochPromise
  <2> QED
    BY <1>1, <2>1 DEF propVars
<1>4. ASSUME NEW i \in ID, Replace(i) PROVE PhaseInv'
  BY <1>1, <1>4 DEF Replace, propVars
<1>5. ASSUME NEW m \in learns, HandleLrnLr(m) PROVE PhaseInv'
  BY <1>1, <1>5 DEF HandleLrnLr, propVars
<1>6. ASSUME NEW r \in Round, NEW i \in ID, HandlePrepLr(i, r) PROVE PhaseInv'
  <2>1. /\ promises' = promises \cup
             {[id |-> i, rnd |-> r, vote |-> vote[i], ev |-> ev[i]]}
        /\ i \in prepares[r] /\ UNCHANGED propVars
    BY <1>6 DEF HandlePrepLr
  <2> QED
    BY <1>1, <2>1 DEF propVars
<1>7. ASSUME NEW r \in Round, NEW i \in ID, HandleAccLr(i, r) PROVE PhaseInv'
  BY <1>1, <1>7 DEF HandleAccLr, propVars
<1>8. ASSUME NEW r \in Round, SendAccept(r) PROVE PhaseInv'
  BY <1>1, <1>8 DEF SendAccept
<1> QED
  BY <1>2, <1>3, <1>4, <1>5, <1>6, <1>7, <1>8, PhaseStart, PhasePromise DEF Next, Paxos

-----------------------------------------------------------------------------
(* Learning.                                                               *)

Voters(r) == {Pxid(m.id) : m \in {n \in learns : n.rnd = r}}

(* The Accepts of a round go to one replica with each PaxosID; the learner *)
(* keeps one Learn of each replica, all of its round.                      *)
SlotInv ==
    /\ \A r \in Round : \A a, b \in accepts[r] : Pxid(a) = Pxid(b) => a = b
    /\ \A m \in learns : m.id \in accepts[m.rnd]
    /\ \A a \in slot.got : a.rnd = slot.rnd /\ \E m \in learns : m.id = a.id /\ m.rnd = a.rnd
    /\ \A a, b \in slot.got : a.id = b.id => a = b
    /\ slot.learned # 0 => Cardinality(Voters(slot.learned)) >= Quorum

LEMMA SlotInit == Init => SlotInv
<1> SUFFICES ASSUME Init PROVE SlotInv
  OBVIOUS
<1>1. /\ \A r \in Round : accepts[r] = {}
      /\ learns = {} /\ slot.got = {} /\ slot.learned = 0
  BY DEF Init
<1> QED
  BY <1>1 DEF SlotInv

LEMMA VotersFinite ==
    ASSUME LrType, NEW r, NEW S \in SUBSET Voters(r)
    PROVE  /\ IsFiniteSet(S) /\ Cardinality(S) \in Nat
           /\ Cardinality(S) <= Cardinality(Voters(r)) /\ Cardinality(Voters(r)) \in Nat
<1>1. Voters(r) \subseteq Pid
  BY IdFacts DEF Voters, LrType, Learn
<1>2. IsFiniteSet(Voters(r))
  BY <1>1, LrAssumption, FS_Subset
<1> QED
  BY <1>2, FS_Subset, FS_CardinalityType

(* Votes are only added.                                                   *)
LEMMA SlotQuiet ==
    ASSUME LrType, LrType', SlotInv, UNCHANGED <<accepts, slot>>,
           learns \subseteq learns',
           \A m \in learns' : m \in learns \/ m.id \in accepts[m.rnd]
    PROVE  SlotInv'
<1>1. ASSUME slot.learned # 0 PROVE Cardinality(Voters(slot.learned)') >= Quorum
  <2>1. PICK r : r = slot.learned
    OBVIOUS
  <2>2. Voters(r) \subseteq Voters(r)'
    BY DEF Voters
  <2>3. /\ Cardinality(Voters(r)) \in Nat
        /\ Cardinality(Voters(r)) <= Cardinality(Voters(r)')
        /\ Cardinality(Voters(r)') \in Nat
    <3>1. PICK W : W = Voters(r)'
      OBVIOUS
    <3>2. W \subseteq Pid
      BY <3>1, IdFacts DEF Voters, LrType, Learn
    <3>3. IsFiniteSet(W)
      BY <3>2, LrAssumption, FS_Subset
    <3> QED
      BY <2>2, <3>1, <3>3, FS_Subset, FS_CardinalityType
  <2>4. Voters(slot.learned)' = Voters(r)' /\ Cardinality(Voters(r)) >= Quorum
    BY <1>1, <2>1 DEF SlotInv, Voters
  <2> QED
    BY <2>3, <2>4, QuorumFact
<1> QED
  BY <1>1 DEF SlotInv, Quorum

(* Learns of different replicas that got the same Accept.                  *)
LEMMA QuorumOfVoters ==
    ASSUME LrType, SlotInv, NEW r \in Round, NEW S,
           \A a \in S : \E m \in learns : m.id = a.id /\ m.rnd = r,
           \A a, b \in S : a.id = b.id => a = b,
           Cardinality(S) >= Quorum
    PROVE  Cardinality(Voters(r)) >= Quorum
<1> DEFINE P == {Pxid(a.id) : a \in S}
           f == [a \in S |-> Pxid(a.id)]
<1>1. P \subseteq Voters(r)
  BY DEF Voters
<1>2. \A a, b \in S : Pxid(a.id) = Pxid(b.id) => a = b
  <2>1. \A a \in S : a.id \in accepts[r]
    BY DEF SlotInv
  <2> QED
    BY <2>1 DEF SlotInv
<1>3. IsFiniteSet(P) /\ Cardinality(P) \in Nat
      /\ Cardinality(P) <= Cardinality(Voters(r)) /\ Cardinality(Voters(r)) \in Nat
  BY <1>1, VotersFinite
<1>4. f \in Injection(S, P)
  <2>1. f \in [S -> P] /\ \A a, b \in S : f[a] = f[b] => a = b
    BY <1>2
  <2> HIDE DEF f, P
  <2> QED
    BY <2>1 DEF Injection, IsInjective
<1>5. IsFiniteSet(S) /\ Cardinality(S) <= Cardinality(P)
  <2> HIDE DEF f, P
  <2> QED
    BY <1>3, <1>4, FS_Injection
<1>6. Cardinality(S) \in Nat
  BY <1>5, FS_CardinalityType
<1> HIDE DEF P
<1> QED
  BY <1>3, <1>5, <1>6, QuorumFact

(* handleLrnLr.                                                            *)
LEMMA SlotLearn ==
    ASSUME LrType, SlotInv, NEW m \in learns, HandleLrnLr(m)
    PROVE  SlotInv'
<1>1. Learner \in ID /\ m \in Learn /\ UNCHANGED <<accepts, learns>> /\ m.rnd \in Round
  BY LearnStep DEF propVars, Learn
<1>2. PICK e, old, got, check, learned : LearnOutcome(m, e, old, got, check, learned)
  BY LearnStep
<1>3. /\ e \in Vector /\ got = Shared(old, Learner) \cup {As(m, e)} /\ old \in {{}, slot.got}
      /\ slot'.got = got /\ slot'.rnd = m.rnd /\ slot'.learned = learned
      /\ old # {} => slot.rnd = m.rnd
  BY <1>2 DEF LearnOutcome
<1>4. /\ old \in SUBSET Learn
      /\ \A a \in old : /\ a.rnd = m.rnd
                        /\ \E n \in learns : n.id = a.id /\ n.rnd = m.rnd
      /\ \A a, b \in old : a.id = b.id => a = b
  BY <1>3 DEF SlotInv, LrType
<1>5. \A a \in old : a.id # m.id
  BY <1>2, <1>4 DEF LearnOutcome
<1>6. /\ As(m, e).id = m.id /\ As(m, e).rnd = m.rnd
      /\ \A a \in Shared(old, Learner) : \E b \in old : a.id = b.id /\ a.rnd = b.rnd
  <2>1. As(m, e).id = m.id /\ As(m, e).rnd = m.rnd
    BY <1>1, <1>3, AsFact
  <2>2. \A a \in Shared(old, Learner) : \E b \in old : a.id = b.id /\ a.rnd = b.rnd
    BY <1>1, <1>4, SharedFact
  <2> QED
    BY <2>1, <2>2
<1>7. \A a \in got : a.rnd = m.rnd /\ \E n \in learns : n.id = a.id /\ n.rnd = m.rnd
  BY <1>3, <1>4, <1>6
<1>8. \A a, b \in got : a.id = b.id => a = b
  BY <1>1, <1>3, <1>4, <1>5, DistinctIds
<1>9. ASSUME learned # 0 PROVE Cardinality(Voters(slot.learned)') >= Quorum
  <2>1. PICK S \in SUBSET got : Cardinality(S) >= Quorum /\ learned = m.rnd
    BY <1>2, <1>9 DEF LearnOutcome
  <2>2. /\ \A a \in S : \E n \in learns : n.id = a.id /\ n.rnd = m.rnd
        /\ \A a, b \in S : a.id = b.id => a = b
    BY <1>7, <1>8
  <2>3. Cardinality(Voters(m.rnd)) >= Quorum
    BY <1>1, <2>1, <2>2, QuorumOfVoters
  <2>4. Voters(slot.learned)' = Voters(m.rnd)
    BY <1>1, <1>3, <2>1 DEF Voters
  <2> QED
    BY <2>3, <2>4
<1> QED
  BY <1>1, <1>3, <1>7, <1>8, <1>9 DEF SlotInv

LEMMA SlotStep ==
    ASSUME LrType, LrType', SlotInv, [Next]_vars
    PROVE  SlotInv'
<1>1. CASE UNCHANGED <<accepts, slot, learns>>
  BY <1>1, SlotQuiet
<1>2. CASE UNCHANGED vars
  BY <1>1, <1>2 DEF vars, propVars
<1>3. ASSUME NEW x \in Replacer, Replacing(x) PROVE SlotInv'
  <2>1. UNCHANGED propVars /\ UNCHANGED <<learns, slot>>
    BY <1>3 DEF Replacing, HandleRecMsg, HandlePrepareEpoch, HandlePrepareEpochTooEarly,
                HandleEpochPromise
  <2> QED
    BY <1>1, <2>1 DEF propVars
<1>4. ASSUME NEW i \in ID, Replace(i) PROVE SlotInv'
  BY <1>1, <1>4 DEF Replace, propVars
<1>5. ASSUME NEW r \in Round,
             StartPhaseOne(r) \/ (\E i \in ID : HandlePrepLr(i, r))
             \/ \E m \in promises : HandlePromLr(r, m)
      PROVE  SlotInv'
  <2>1. UNCHANGED <<accepts, slot, learns>>
    BY <1>5 DEF StartPhaseOne, HandlePrepLr, HandlePromLr, propVars
  <2> QED
    BY <1>1, <2>1
<1>6. ASSUME NEW r \in Round, NEW i \in ID, HandleAccLr(i, r) PROVE SlotInv'
  <2>1. /\ learns' = learns \cup {[id |-> i, rnd |-> r, ev |-> ev[i]]}
        /\ i \in accepts[r] /\ UNCHANGED <<accepts, slot>>
    BY <1>6 DEF HandleAccLr, propVars
  <2> QED
    BY <2>1, SlotQuiet
<1>7. ASSUME NEW r \in Round, SendAccept(r) PROVE SlotInv'
  <2>1. /\ accepts[r] = {} /\ accepts' = [accepts EXCEPT ![r] = IDs(Proposer[r])]
        /\ UNCHANGED <<learns, slot>>
    BY <1>7 DEF SendAccept
  <2>2. \A a, b \in IDs(Proposer[r]) : Pxid(a) = Pxid(b) => a = b
    BY LrAssumption, IDsFact
  <2>3. \A s \in Round : \A a, b \in accepts'[s] : Pxid(a) = Pxid(b) => a = b
    BY <2>1, <2>2 DEF SlotInv, LrType
  <2>4. \A m \in learns : m.rnd \in Round /\ m.rnd # r
    BY <2>1 DEF SlotInv, LrType, Learn
  <2>5. \A m \in learns' : m.id \in accepts'[m.rnd]
    BY <2>1, <2>4 DEF SlotInv, LrType
  <2> QED
    BY <2>1, <2>3, <2>5 DEF SlotInv, Voters
<1> QED
  BY <1>2, <1>3, <1>4, <1>5, <1>6, <1>7, SlotLearn DEF Next, Paxos

-----------------------------------------------------------------------------
LrInv == LrType /\ EvInv /\ PhaseInv /\ SlotInv

LEMMA LrInductive == Spec => []LrInv
<1>1. Init => LrInv
  BY TypeInit, EvInit, PhaseInit, SlotInit DEF LrInv
<1>2. LrInv /\ [Next]_vars => LrInv'
  BY TypeStep, EvStep, PhaseStep, SlotStep DEF LrInv
<1> QED
  BY <1>1, <1>2, PTL DEF Spec

(* Types, for any number of replicas, replacers and rounds: no acceptor    *)
(* votes above its round, and only a replacer that is not activated waits  *)
(* for its own acceptor in handlePrepareEpoch.                             *)
THEOREM LrTypeTheorem == Spec => []TypeOK
<1>1. LrInv => TypeOK
  BY DEF LrInv, LrType
<1> QED
  BY <1>1, LrInductive, PTL

(* No replica goes back to a lower epoch of another: NodeMap.Replace and   *)
(* Add only ever write higher ones, whatever is handled in between.        *)
THEOREM EpochsGrow == Spec => [][EvGrows]_vars
<1>1. LrInv /\ [Next]_vars => [EvGrows]_vars
  BY EvStep DEF LrInv
<1> QED
  BY <1>1, LrInductive, PTL DEF Spec

(* The promises handlePromLr goes on with, checked or not, are a valid     *)
(* quorum, unless the proposer's own vector has changed since it sent the  *)
(* Prepares: whatever is replaced meanwhile.                               *)
THEOREM PromisesValidTheorem == Spec => []PromisesValid
<1>1. LrInv => PromisesValid
  BY DEF LrInv, PhaseInv, PromisesUsed, PromisesValid
<1> QED
  BY <1>1, LrInductive, PTL

(* What handleLrnLr learns has the votes of a quorum of PaxosIDs in one    *)
(* round, however many replacements there are while it counts.             *)
THEOREM LearnedByQuorumTheorem == Spec => []LearnedByQuorum
<1>1. LrInv => LearnedByQuorum
  BY DEF LrInv, SlotInv, Voters, LearnedByQuorum
<1> QED
  BY <1>1, LrInductive, PTL

-----------------------------------------------------------------------------
(* What a replacer starts with, for three replicas.                        *)

ThreeReplicas == Cardinality(Pid) = 3

AtMost(v, w) == \A p \in Pid : v[p] <= w[p]

(* A PrepareEpoch is sent to one replica with each PaxosID.                *)
Asked ==
    \A x \in Replacer : \A i, j \in pes[x] : Pxid(i) = Pxid(j) => i = j

(* A replica whose acceptor is paused runs, and replaces another.          *)
Pausing ==
    \A i \in ID : installing[i] # None =>
        i \in up /\ Pxid(installing[i]) # Pxid(i)

(* An EpochPromise has the round and the vector its sender had; once it is *)
(* done with it, its vector has the epoch promised.                        *)
Promised(s) ==
    /\ s.id \in up /\ s.id \in pes[s.to] /\ Pxid(s.id) # Pxid(s.to)
    /\ s.rnd <= rnd[s.id]
    /\ AtMost(s.ev, ev[s.id])
    /\ s.ev[Pxid(s.to)] < Epoch(s.to)
    /\ installing[s.id] # s.to => ev[s.id][Pxid(s.to)] >= Epoch(s.to)

(* Of two EpochPromises of one replica, the later has the epoch promised   *)
(* in the other.                                                           *)
OneAfterAnother(s, t) ==
    s.id = t.id /\ Pxid(s.to) # Pxid(t.to) =>
        \/ s.ev[Pxid(t.to)] >= Epoch(t.to)
        \/ t.ev[Pxid(s.to)] >= Epoch(s.to)

(* A Learn and an EpochPromise of one replica: the first sent is seen in   *)
(* the other.                                                              *)
VoteOrPromise(n, s) ==
    n.id = s.id => n.rnd <= s.rnd \/ n.ev[Pxid(s.to)] >= Epoch(s.to)

(* The EpochPromises a replacer has received, with what it knows of their  *)
(* senders.                                                                *)
Got(x, g) ==
    /\ \E s \in eps : s.id = g.id /\ s.to = x /\ s.rnd = g.rnd /\ AtMost(s.ev, g.ev)
    /\ ev[x][Pxid(g.id)] >= Epoch(g.id)

(* An activated replacer has one of each other replica, a valid quorum.    *)
Activated(x) ==
    /\ \A p \in Pid \ {Pxid(x)} : \E g \in epochPromises[x] : Pxid(g.id) = p
    /\ Valid(epochPromises[x])
    /\ \A g \in epochPromises[x] : g.rnd <= rnd[x]

(* What a replacer sends covers the EpochPromises it was activated with.   *)
Covers(i, v) == \A g \in epochPromises[i] : v[Pxid(g.id)] >= Epoch(g.id)

CoverInv ==
    /\ Asked /\ Pausing
    /\ \A s \in eps : Promised(s)
    /\ \A s, t \in eps : OneAfterAnother(s, t)
    /\ \A x \in Replacer : \A g, h \in epochPromises[x] :
           Pxid(g.id) = Pxid(h.id) => g = h
    /\ \A x \in Replacer : \A g \in epochPromises[x] : Got(x, g)
    /\ \A x \in Replacer \cap up : Activated(x)
    /\ \A s \in eps : s.id \in Replacer =>
           /\ Covers(s.id, s.ev)
           /\ \A g \in epochPromises[s.id] : g.rnd <= s.rnd
    /\ \A n \in learns :
           /\ n.id \in up /\ n.rnd <= rnd[n.id]
           /\ n.id \in Replacer => Covers(n.id, n.ev)
           /\ \A s \in eps : VoteOrPromise(n, s)

LEMMA Epochs ==
    /\ \A i \in ID : i = <<Pxid(i), Epoch(i)>> /\ Pxid(i) \in Pid /\ Epoch(i) \in Nat
    /\ \A i \in ID : i \in Replacer \/ Epoch(i) = 0
    /\ \A i \in Replacer : i \in ID /\ Epoch(i) >= 1
BY LrAssumption DEF ID, Original, Pxid, Epoch

LEMMA ThreePids ==
    ASSUME ThreeReplicas, NEW p \in Pid, NEW q \in Pid, p # q
    PROVE  \E r \in Pid : r # p /\ r # q /\ Pid = {p, q, r}
<1>1. IsFiniteSet(Pid)
  BY LrAssumption
<1>2. IsFiniteSet(Pid \ {p}) /\ Cardinality(Pid \ {p}) = 2
  BY <1>1, FS_RemoveElement DEF ThreeReplicas
<1>3. IsFiniteSet((Pid \ {p}) \ {q}) /\ Cardinality((Pid \ {p}) \ {q}) = 1
  BY <1>2, FS_RemoveElement
<1>4. PICK r : (Pid \ {p}) \ {q} = {r}
  BY <1>3, FS_Singleton
<1> QED
  BY <1>4

-----------------------------------------------------------------------------
(* The epochs an activated replacer starts with.                           *)

From(x, p) == (CHOOSE g \in epochPromises[x] : Pxid(g.id) = p).id

Base(x) ==
    [p \in Pid |-> IF x \in Replacer /\ p # Pxid(x) THEN Epoch(From(x, p))
                   ELSE Epoch(x)]

(* The EpochPromise x has of the sender of s: the sender knew no more than *)
(* x starts with, x itself excepted, and no less than it started with.     *)
Source(x, s) ==
    /\ s \in eps /\ s.to = x /\ s.id \in up /\ Pxid(s.id) # Pxid(x)
    /\ Epoch(s.id) = Base(x)[Pxid(s.id)]
    /\ s.ev[Pxid(x)] < Epoch(x)
    /\ \A q \in Pid \ {Pxid(x), Pxid(s.id)} : s.ev[q] <= Base(x)[q]
    /\ \A q \in Pid \ {Pxid(s.id)} : Base(s.id)[q] <= s.ev[q]
    /\ \E g \in epochPromises[x] : g.rnd = s.rnd

LEMMA BaseFact ==
    ASSUME CoverInv, LrType, NEW x \in Replacer \cap up, NEW g \in epochPromises[x],
           Pxid(g.id) # Pxid(x)
    PROVE  Base(x)[Pxid(g.id)] = Epoch(g.id)
<1>1. g.id \in ID /\ Pxid(g.id) \in Pid
  BY Epochs DEF LrType, EpochPromise
<1>2. \A h \in epochPromises[x] : Pxid(h.id) = Pxid(g.id) => h = g
  BY DEF CoverInv
<1>3. From(x, Pxid(g.id)) = g.id
  BY <1>2 DEF From
<1> QED
  BY <1>1, <1>3 DEF Base

(* What a replica sends covers what it started with.                       *)
LEMMA BaseCovered ==
    ASSUME CoverInv, LrType, NEW i \in up, NEW v \in Vector,
           i \in Replacer => Covers(i, v), NEW q \in Pid, q # Pxid(i)
    PROVE  Base(i)[q] <= v[q]
<1>1. i \in ID /\ v[q] \in Nat
  BY DEF LrType, TypeOK, Vector
<1>2. CASE i \in Replacer
  <2>1. PICK g \in epochPromises[i] : Pxid(g.id) = q
    BY <1>2 DEF CoverInv, Activated
  <2>2. Base(i)[q] = Epoch(g.id)
    BY <1>2, <2>1, BaseFact
  <2> QED
    BY <1>1, <1>2, <2>1, <2>2, Epochs DEF Covers, LrType, EpochPromise
<1>3. CASE i \notin Replacer
  BY <1>1, <1>3, Epochs DEF Base
<1> QED
  BY <1>2, <1>3

LEMMA Sources ==
    ASSUME CoverInv, LrType, NEW x \in Replacer \cap up, NEW p \in Pid, p # Pxid(x)
    PROVE  \E s \in eps : Source(x, s) /\ Pxid(s.id) = p
<1>1. PICK g \in epochPromises[x] : Pxid(g.id) = p
  BY DEF CoverInv, Activated
<1>2. PICK s \in eps : s.id = g.id /\ s.to = x /\ s.rnd = g.rnd /\ AtMost(s.ev, g.ev)
  BY DEF CoverInv, Got
<1>3. /\ s \in EpochPromise /\ g \in EpochPromise /\ s.ev \in Vector /\ g.ev \in Vector
  BY DEF LrType, EpochPromise
<1>4. s.id \in up /\ s.ev[Pxid(x)] < Epoch(x)
  BY <1>2 DEF CoverInv, Promised
<1>5. Epoch(s.id) = Base(x)[p]
  BY <1>1, <1>2, BaseFact
<1>6. ASSUME NEW q \in Pid \ {Pxid(x), p} PROVE s.ev[q] <= Base(x)[q]
  <2>1. PICK h \in epochPromises[x] : Pxid(h.id) = q
    BY DEF CoverInv, Activated
  <2>2. Base(x)[q] = Epoch(h.id)
    BY <1>6, <2>1, BaseFact
  <2>3. ~Conflict(g, h)
    BY <1>1, <1>6, <2>1 DEF CoverInv, Activated, Valid
  <2>4. g.ev[q] <= Epoch(h.id)
    <3>1. ~(Epoch(h.id) < g.ev[q])
      BY <2>1, <2>3 DEF Conflict
    <3> QED
      BY <1>3, <2>1, <3>1, Epochs DEF Vector, LrType, EpochPromise
  <2>5. s.ev[q] <= g.ev[q] /\ s.ev[q] \in Nat /\ g.ev[q] \in Nat
    BY <1>2, <1>3 DEF AtMost, Vector
  <2>6. Epoch(h.id) \in Nat
    BY Epochs DEF LrType, EpochPromise
  <2> QED
    BY <2>2, <2>4, <2>5, <2>6
<1>7. ASSUME NEW q \in Pid \ {p} PROVE Base(s.id)[q] <= s.ev[q]
  <2>1. s.id \in Replacer => Covers(s.id, s.ev)
    BY DEF CoverInv
  <2> QED
    BY <1>1, <1>2, <1>3, <1>4, <1>7, <2>1, BaseCovered
<1> QED
  BY <1>1, <1>2, <1>4, <1>5, <1>6, <1>7 DEF Source

LEMMA BaseType ==
    ASSUME CoverInv, LrType, NEW i \in up, NEW q \in Pid
    PROVE  Base(i)[q] \in Nat
<1>1. CASE i \in Replacer /\ q # Pxid(i)
  <2>1. PICK g \in epochPromises[i] : Pxid(g.id) = q
    BY <1>1 DEF CoverInv, Activated
  <2>2. Base(i)[q] = Epoch(g.id)
    BY <1>1, <2>1, BaseFact
  <2> QED
    BY <1>1, <2>2, Epochs DEF LrType, EpochPromise
<1>2. CASE ~(i \in Replacer /\ q # Pxid(i))
  BY <1>2, Epochs DEF Base, LrType, TypeOK
<1> QED
  BY <1>1, <1>2

Weight(i, a, b, c) == Base(i)[a] + Base(i)[b] + Base(i)[c]

(* Along EpochPromises, replacers start with ever higher epochs.           *)
LEMMA Lighter ==
    ASSUME CoverInv, LrType, NEW x \in Replacer \cap up, NEW s, Source(x, s),
           NEW a \in Pid, NEW b \in Pid, NEW c \in Pid, Pid = {a, b, c}
    PROVE  /\ Weight(s.id, a, b, c) \in Nat /\ Weight(x, a, b, c) \in Nat
           /\ Weight(s.id, a, b, c) < Weight(x, a, b, c)
<1> DEFINE v == Base(s.id)  w == Base(x)
<1>1. s.id \in up /\ s.id \in ID /\ x \in ID /\ s.ev \in Vector
  BY DEF Source, LrType, TypeOK, EpochPromise
<1>2. \A q \in Pid : v[q] \in Nat /\ w[q] \in Nat /\ s.ev[q] \in Nat
  BY <1>1, BaseType DEF Vector
<1>3. Pxid(s.id) \in Pid /\ v[Pxid(s.id)] = w[Pxid(s.id)]
  BY <1>1, Epochs DEF Source, Base
<1>4. Pxid(x) \in Pid /\ v[Pxid(x)] < w[Pxid(x)]
  <2>1. Pxid(x) \in Pid /\ w[Pxid(x)] = Epoch(x) /\ Epoch(x) \in Nat
    BY <1>1, Epochs DEF Base
  <2>2. v[Pxid(x)] <= s.ev[Pxid(x)] /\ s.ev[Pxid(x)] < Epoch(x)
    BY <2>1 DEF Source
  <2> QED
    BY <1>2, <2>1, <2>2
<1>5. ASSUME NEW q \in Pid \ {Pxid(x), Pxid(s.id)} PROVE v[q] <= w[q]
  <2>1. v[q] <= s.ev[q] /\ s.ev[q] <= w[q]
    BY DEF Source
  <2> QED
    BY <1>2, <2>1
<1>6. \A q \in Pid : v[q] <= w[q]
  BY <1>2, <1>3, <1>4, <1>5
<1>7. v[a] < w[a] \/ v[b] < w[b] \/ v[c] < w[c]
  BY <1>4
<1> HIDE DEF v, w
<1>8. /\ v[a] + v[b] + v[c] \in Nat /\ w[a] + w[b] + w[c] \in Nat
      /\ v[a] + v[b] + v[c] < w[a] + w[b] + w[c]
  BY <1>2, <1>6, <1>7
<1> QED
  BY <1>8 DEF Weight, v, w

(* Two activated replacers that do not know of each other: what the        *)
(* overlap of their quorums excludes.                                      *)
Clash(z, i) ==
    /\ z \in Replacer \cap up /\ i \in Replacer \cap up /\ Pxid(z) # Pxid(i)
    /\ Epoch(i) > Base(z)[Pxid(i)]
    /\ Epoch(z) > Base(i)[Pxid(z)]

(* If the third replica they were activated by is not the same one, the    *)
(* newer of the two clashes with what the other was activated by, or       *)
(* what activated it does.                                                 *)
LEMMA ClashLower ==
    ASSUME ThreeReplicas, CoverInv, LrType, NEW z, NEW i, Clash(z, i),
           NEW f, Source(z, f), NEW h, Source(i, h), Pxid(f.id) = Pxid(h.id),
           Epoch(f.id) <= Epoch(h.id)
    PROVE  \/ \E e \in eps : Source(z, e) /\ Clash(h.id, e.id)
           \/ \E s \in eps : /\ h.id \in Replacer /\ Source(h.id, s)
                             /\ Clash(z, s.id)
<1> DEFINE w == h.id
           P == Pxid(i)
           O == Pxid(z)
           T == Pxid(w)
<1>1. /\ z \in Replacer \cap up /\ i \in Replacer \cap up /\ O # P
      /\ Epoch(i) > Base(z)[P] /\ Epoch(z) > Base(i)[O]
  BY DEF Clash
<1>2. /\ z \in ID /\ i \in ID /\ w \in ID /\ f.id \in ID /\ w \in up /\ f.id \in up
      /\ f \in eps /\ h \in eps /\ f.to = z /\ h.to = i /\ T # O /\ T # P
      /\ f.ev \in Vector /\ h.ev \in Vector
  BY <1>1 DEF Source, LrType, TypeOK, EpochPromise
<1>3. /\ O \in Pid /\ P \in Pid /\ T \in Pid
      /\ Epoch(z) \in Nat /\ Epoch(i) \in Nat /\ Epoch(w) \in Nat /\ Epoch(f.id) \in Nat
  BY <1>2, Epochs
<1>4. \A q \in Pid : Base(z)[q] \in Nat /\ Base(i)[q] \in Nat /\ Base(w)[q] \in Nat
  BY <1>1, <1>2, BaseType
<1>5. PICK e \in eps : Source(z, e) /\ Pxid(e.id) = P
  BY <1>1, <1>3, Sources
<1>6. /\ e.id \in up /\ e.id \in ID /\ Epoch(e.id) \in Nat /\ e.to = z
      /\ Epoch(e.id) = Base(z)[P] /\ e.ev \in Vector /\ e.ev[T] <= Epoch(f.id)
  <2>1. e.id \in up /\ e.to = z /\ Epoch(e.id) = Base(z)[P] /\ e.ev[T] <= Base(z)[T]
    BY <1>2, <1>3, <1>5 DEF Source
  <2>2. Epoch(f.id) = Base(z)[T]
    BY DEF Source
  <2> QED
    BY <2>1, <2>2, Epochs DEF LrType, TypeOK, EpochPromise
<1>7. h.ev[O] <= Base(i)[O] /\ h.ev[O] \in Nat /\ Base(w)[O] <= h.ev[O]
  BY <1>1, <1>2, <1>3 DEF Source, Vector
<1>8. CASE Epoch(f.id) = Epoch(w)
  <2>1. f.id = w
    BY <1>2, <1>8, Epochs
  <2>2. f.ev[P] >= Epoch(i) \/ h.ev[O] >= Epoch(z)
    BY <1>1, <1>2, <2>1 DEF CoverInv, OneAfterAnother
  <2>3. f.ev[P] <= Base(z)[P] /\ f.ev[P] \in Nat
    BY <1>1, <1>2, <1>3 DEF Source, Vector
  <2> QED
    BY <1>1, <1>3, <1>4, <1>7, <2>2, <2>3
<1>9. CASE Epoch(f.id) < Epoch(w)
  <2>1. w \in Replacer \cap up
    BY <1>2, <1>3, <1>9, Epochs
  <2>2. PICK s \in eps : Source(w, s) /\ Pxid(s.id) = P
    BY <1>2, <1>3, <2>1, Sources
  <2>3. /\ s.id \in up /\ s.id \in ID /\ Epoch(s.id) \in Nat /\ s.to = w
        /\ Epoch(s.id) = Base(w)[P] /\ s.ev \in Vector /\ s.ev[O] <= Base(w)[O]
        /\ Base(s.id)[O] <= s.ev[O]
    <3>1. /\ s.id \in up /\ s.to = w /\ Epoch(s.id) = Base(w)[P]
          /\ s.ev[O] <= Base(w)[O] /\ Base(s.id)[O] <= s.ev[O]
      BY <1>1, <1>2, <1>3, <2>2 DEF Source
    <3> QED
      BY <3>1, Epochs DEF LrType, TypeOK, EpochPromise
  <2>4. e.ev[T] < Epoch(w) /\ e.ev[T] \in Nat /\ s.ev[O] < Epoch(z) /\ s.ev[O] \in Nat
    <3>1. e.ev[T] \in Nat /\ s.ev[O] \in Nat
      BY <1>3, <1>6, <2>3 DEF Vector
    <3> QED
      BY <1>1, <1>3, <1>4, <1>6, <1>7, <1>9, <2>3, <3>1
  <2>5. CASE s.id = e.id
    <3>1. e.ev[T] >= Epoch(w) \/ s.ev[O] >= Epoch(z)
      BY <1>2, <1>6, <2>3, <2>5 DEF CoverInv, OneAfterAnother
    <3> QED
      BY <1>3, <2>4, <3>1
  <2>6. CASE Epoch(s.id) < Epoch(e.id)
    <3>1. e.id \in Replacer \cap up
      BY <1>6, <2>3, <2>6, Epochs
    <3>2. Base(e.id)[T] <= e.ev[T] /\ Base(e.id)[T] \in Nat
      BY <1>2, <1>3, <1>5, <1>6, BaseType DEF Source
    <3>3. Clash(w, e.id)
      BY <1>2, <1>3, <1>5, <2>1, <2>3, <2>4, <2>6, <3>1, <3>2 DEF Clash
    <3> QED
      BY <1>5, <3>3
  <2>7. CASE Epoch(s.id) > Epoch(e.id)
    <3>1. s.id \in Replacer \cap up
      BY <1>6, <2>3, <2>7, Epochs
    <3>2. Base(s.id)[O] \in Nat
      BY <1>3, <2>3, BaseType
    <3>3. Clash(z, s.id)
      BY <1>1, <1>3, <1>6, <2>2, <2>3, <2>4, <2>7, <3>1, <3>2 DEF Clash
    <3> QED
      BY <2>1, <2>2, <3>3
  <2>8. s.id = e.id \/ Epoch(s.id) < Epoch(e.id) \/ Epoch(s.id) > Epoch(e.id)
    <3>1. Epoch(s.id) = Epoch(e.id) => s.id = e.id
      BY <1>5, <1>6, <2>2, <2>3, Epochs
    <3> QED
      BY <1>6, <2>3, <3>1
  <2> QED
    BY <2>5, <2>6, <2>7, <2>8
<1> QED
  BY <1>3, <1>8, <1>9

(* Of two replacers that were both activated, one knew of the other.       *)
LEMMA NoClash ==
    ASSUME ThreeReplicas, CoverInv, LrType, NEW y, NEW j
    PROVE  ~Clash(y, j)
<1> SUFFICES ASSUME Clash(y, j) PROVE FALSE
  OBVIOUS
<1>1. /\ y \in Replacer \cap up /\ j \in Replacer \cap up
      /\ Pxid(y) \in Pid /\ Pxid(j) \in Pid /\ Pxid(y) # Pxid(j)
  BY Epochs DEF Clash
<1>2. PICK a \in Pid, b \in Pid, c \in Pid : Pid = {a, b, c}
  BY <1>1, ThreePids
<1> DEFINE W(i) == Weight(i, a, b, c)
           S == {n \in Nat : \E z, i \in Replacer \cap up :
                                 Clash(z, i) /\ n = W(z) + W(i)}
<1>3. \A i \in up : W(i) \in Nat
  BY BaseType DEF Weight
<1>4. \A x \in Replacer \cap up : \A s : Source(x, s) => s.id \in up /\ W(s.id) < W(x)
  BY <1>2, Lighter DEF Source
<1>5. S # {}
  <2>1. W(y) + W(j) \in Nat
    BY <1>1, <1>3
  <2>2. W(y) + W(j) \in S
    BY <1>1, <2>1
  <2> QED
    BY <2>2
<1>6. PICK n \in S : \A k \in S : ~(<<k, n>> \in OpToRel(<, Nat))
  <2>1. S \subseteq Nat
    OBVIOUS
  <2> HIDE DEF S
  <2> QED
    BY <1>5, <2>1, NatLessThanWellFounded, WFMin
<1>7. \A k \in S : ~(k < n)
  BY <1>6 DEF OpToRel
<1>8. PICK z \in Replacer \cap up, i \in Replacer \cap up : Clash(z, i) /\ n = W(z) + W(i)
  OBVIOUS
<1>9. ASSUME NEW u \in Replacer \cap up, NEW v \in Replacer \cap up, Clash(u, v)
      PROVE  ~(W(u) + W(v) < W(z) + W(i))
  <2>1. W(u) + W(v) \in Nat
    BY <1>3
  <2>2. W(u) + W(v) \in S
    BY <1>9, <2>1
  <2> QED
    BY <1>7, <1>8, <2>2
<1> HIDE DEF S, W
<1>10. ASSUME NEW u \in Replacer \cap up, NEW v \in Replacer \cap up, Clash(u, v),
              W(u) + W(v) = W(z) + W(i),
              NEW f, Source(u, f), NEW h, Source(v, h), Pxid(f.id) = Pxid(h.id),
              Epoch(f.id) <= Epoch(h.id)
       PROVE  FALSE
  <2>1. ASSUME NEW e \in eps, Source(u, e), Clash(h.id, e.id) PROVE FALSE
    <3>1. h.id \in Replacer \cap up /\ e.id \in Replacer \cap up
      BY <2>1 DEF Clash
    <3>2. W(e.id) < W(u) /\ W(h.id) < W(v)
      BY <1>4, <1>10, <2>1
    <3>3. ~(W(h.id) + W(e.id) < W(z) + W(i))
      BY <1>9, <2>1, <3>1
    <3> QED
      BY <1>3, <1>10, <3>1, <3>2, <3>3
  <2>2. ASSUME NEW s \in eps, h.id \in Replacer, Source(h.id, s), Clash(u, s.id)
        PROVE  FALSE
    <3>1. h.id \in Replacer \cap up /\ s.id \in Replacer \cap up
      BY <1>10, <2>2 DEF Clash, Source
    <3>2. W(s.id) < W(h.id) /\ W(h.id) < W(v)
      BY <1>4, <1>10, <2>2, <3>1
    <3>3. ~(W(u) + W(s.id) < W(z) + W(i))
      BY <1>9, <2>2, <3>1
    <3> QED
      BY <1>3, <1>10, <3>1, <3>2, <3>3
  <2> QED
    BY <1>10, <2>1, <2>2, ClashLower
<1>11. Pxid(z) \in Pid /\ Pxid(i) \in Pid /\ Pxid(z) # Pxid(i) /\ Clash(i, z)
  BY <1>8, Epochs DEF Clash
<1>12. PICK t \in Pid : t # Pxid(z) /\ t # Pxid(i)
  BY <1>11, ThreePids
<1>13. PICK f \in eps : Source(z, f) /\ Pxid(f.id) = t
  BY <1>12, Sources
<1>14. PICK h \in eps : Source(i, h) /\ Pxid(h.id) = t
  BY <1>12, Sources
<1>15. Epoch(f.id) \in Nat /\ Epoch(h.id) \in Nat
  BY Epochs DEF LrType, EpochPromise
<1>16. CASE Epoch(f.id) <= Epoch(h.id)
  BY <1>8, <1>10, <1>13, <1>14, <1>16
<1>17. CASE Epoch(h.id) <= Epoch(f.id)
  <2>1. W(i) + W(z) = W(z) + W(i)
    BY <1>3
  <2> QED
    BY <1>10, <1>11, <1>13, <1>14, <1>17, <2>1
<1> QED
  BY <1>15, <1>16, <1>17

(* x replaced m.id, whose Learn and n's do not conflict, and was activated *)
(* by promises of lower rounds only.                                       *)
Late(x, m, n) ==
    /\ x \in Replacer \cap up /\ m \in learns /\ n \in learns
    /\ Pxid(x) = Pxid(m.id) /\ Epoch(m.id) < Epoch(x)
    /\ m.rnd = n.rnd /\ ~Conflict(m, n)
    /\ \A g \in epochPromises[x] : g.rnd < m.rnd

(* Then x was activated by one that replaced n.id, and came too late too.  *)
LEMMA LateLower ==
    ASSUME ThreeReplicas, CoverInv, LrType, NEW x, NEW m, NEW n, Late(x, m, n)
    PROVE  \E s \in eps : Source(x, s) /\ Late(s.id, n, m)
<1> DEFINE P == Pxid(x)
           O == Pxid(n.id)
<1>1. /\ x \in Replacer \cap up /\ m \in Learn /\ n \in Learn /\ n \in learns /\ m \in learns
      /\ P = Pxid(m.id) /\ Epoch(m.id) < Epoch(x) /\ m.rnd = n.rnd /\ ~Conflict(m, n)
  BY DEF Late, LrType
<1>2. /\ m.id \in ID /\ n.id \in ID /\ m.rnd \in Nat
      /\ \A q \in Pid : m.ev[q] \in Nat /\ n.ev[q] \in Nat
  BY <1>1 DEF Learn, Vector, Round
<1>3. /\ P \in Pid /\ O \in Pid /\ Epoch(m.id) \in Nat /\ Epoch(n.id) \in Nat
      /\ Epoch(x) \in Nat /\ x \in ID
  BY <1>1, <1>2, Epochs
<1>4. O # P /\ n.ev[P] <= Epoch(m.id) /\ m.ev[O] <= Epoch(n.id) /\ ~Conflict(n, m)
  BY <1>1, <1>2, <1>3 DEF Conflict
<1>5. PICK e \in eps : Source(x, e) /\ Pxid(e.id) = O
  BY <1>1, <1>3, <1>4, Sources
<1>6. /\ e.id \in up /\ e.id \in ID /\ Epoch(e.id) \in Nat /\ e.to = x
      /\ Epoch(e.id) = Base(x)[O] /\ e.rnd \in Nat /\ e.rnd < m.rnd
  <2>1. e \in EpochPromise
    BY DEF LrType
  <2>2. e.rnd \in Nat /\ e.id \in ID
    BY <2>1 DEF EpochPromise, Rnd0
  <2>3. e.rnd < m.rnd
    BY <1>5 DEF Source, Late
  <2> QED
    BY <1>5, <2>2, <2>3, Epochs DEF Source
<1>7. e.id # n.id
  <2> SUFFICES ASSUME e.id = n.id PROVE FALSE
    OBVIOUS
  <2>1. n.rnd <= e.rnd \/ n.ev[P] >= Epoch(x)
    BY <1>1, <1>6 DEF CoverInv, VoteOrPromise
  <2> QED
    BY <1>1, <1>2, <1>3, <1>4, <1>6, <2>1
<1>8. ~(Epoch(e.id) < Epoch(n.id))
  <2> SUFFICES ASSUME Epoch(e.id) < Epoch(n.id) PROVE FALSE
    OBVIOUS
  <2>1. n.id \in Replacer \cap up /\ Covers(n.id, n.ev)
    BY <1>1, <1>2, <1>3, <1>6, Epochs DEF CoverInv
  <2>2. Base(n.id)[P] <= n.ev[P] /\ Base(n.id)[P] \in Nat
    BY <1>1, <1>3, <1>4, <2>1, BaseCovered, BaseType DEF Learn
  <2>3. Clash(x, n.id)
    BY <1>1, <1>2, <1>3, <1>4, <1>6, <2>1, <2>2 DEF Clash
  <2> QED
    BY <2>3, NoClash
<1>9. Epoch(n.id) < Epoch(e.id)
  <2>1. Epoch(e.id) = Epoch(n.id) => e.id = n.id
    BY <1>2, <1>5, <1>6, Epochs
  <2> QED
    BY <1>3, <1>6, <1>7, <1>8, <2>1
<1>10. e.id \in Replacer \cap up
  BY <1>3, <1>6, <1>9, Epochs
<1>11. ASSUME NEW g \in epochPromises[e.id] PROVE g.rnd < n.rnd
  <2>1. g.rnd <= e.rnd /\ g.rnd \in Nat
    BY <1>10 DEF CoverInv, LrType, EpochPromise, Rnd0
  <2> QED
    BY <1>1, <1>2, <1>6, <2>1
<1>12. Late(e.id, n, m)
  BY <1>1, <1>4, <1>5, <1>9, <1>10, <1>11 DEF Late
<1> QED
  BY <1>5, <1>12

LEMMA NeverLate ==
    ASSUME ThreeReplicas, CoverInv, LrType, NEW y, NEW k, NEW l
    PROVE  ~Late(y, k, l)
<1> SUFFICES ASSUME Late(y, k, l) PROVE FALSE
  OBVIOUS
<1>1. /\ y \in Replacer \cap up /\ Pxid(y) \in Pid /\ l.id \in ID
      /\ Pxid(l.id) \in Pid /\ Pxid(l.id) # Pxid(y)
  BY Epochs DEF Late, LrType, Learn, Conflict
<1>2. PICK a \in Pid, b \in Pid, c \in Pid : Pid = {a, b, c}
  BY <1>1, ThreePids
<1> DEFINE W(i) == Weight(i, a, b, c)
           S == {n \in Nat : \E x \in Replacer \cap up : \E m, n2 \in learns :
                                 Late(x, m, n2) /\ n = W(x)}
<1>3. \A i \in up : W(i) \in Nat
  BY BaseType DEF Weight
<1>4. \A x \in Replacer \cap up : \A s : Source(x, s) => W(s.id) < W(x)
  BY <1>2, Lighter
<1>5. S # {}
  <2>1. W(y) \in Nat /\ k \in learns /\ l \in learns
    BY <1>1, <1>3 DEF Late
  <2>2. W(y) \in S
    BY <1>1, <2>1
  <2> QED
    BY <2>2
<1>6. PICK n \in S : \A j \in S : ~(<<j, n>> \in OpToRel(<, Nat))
  <2>1. S \subseteq Nat
    OBVIOUS
  <2> HIDE DEF S
  <2> QED
    BY <1>5, <2>1, NatLessThanWellFounded, WFMin
<1>7. \A j \in S : ~(j < n)
  BY <1>6 DEF OpToRel
<1>8. PICK x \in Replacer \cap up, m \in learns, o \in learns : Late(x, m, o) /\ n = W(x)
  OBVIOUS
<1>9. PICK s \in eps : Source(x, s) /\ Late(s.id, o, m)
  BY <1>8, LateLower
<1>10. s.id \in Replacer \cap up /\ W(s.id) \in Nat
  BY <1>3, <1>9 DEF Late
<1>11. W(s.id) \in S
  BY <1>9, <1>10
<1> HIDE DEF S, W
<1> QED
  BY <1>4, <1>7, <1>8, <1>9, <1>11

LEMMA QuorumIsTwo == ASSUME ThreeReplicas PROVE Quorum = 2
BY DEF ThreeReplicas, Quorum

(* A set of two elements or more has another than each of them.            *)
LEMMA AnotherOne ==
    ASSUME NEW S, Cardinality(S) = 2, NEW m \in S
    PROVE  \E n \in S : n # m
<1> SUFFICES ASSUME \A n \in S : n = m PROVE FALSE
  OBVIOUS
<1>1. S = {m}
  OBVIOUS
<1> QED
  BY <1>1, FS_Singleton

LEMMA CoversChosen ==
    ASSUME ThreeReplicas, CoverInv, LrType
    PROVE  ReplacerCoversChosen
<1> SUFFICES ASSUME NEW x \in Replacer \cap up, NEW r \in Round, rnd[x] < r,
                    NEW Q \in ValidQuorums({m \in learns : m.rnd = r}), NEW m \in Q,
                    Pxid(m.id) = Pxid(x), Epoch(m.id) < Epoch(x)
             PROVE  FALSE
  BY DEF ReplacerCoversChosen
<1>1. Cardinality(Q) = 2 /\ Valid(Q) /\ \A n \in Q : n \in learns /\ n.rnd = r
  BY QuorumIsTwo DEF ValidQuorums
<1>2. PICK n \in Q : n # m
  BY <1>1, AnotherOne
<1>3. ~Conflict(m, n)
  BY <1>1, <1>2 DEF Valid
<1>4. ASSUME NEW g \in epochPromises[x] PROVE g.rnd < r
  <2>1. g.rnd <= rnd[x]
    BY DEF CoverInv, Activated
  <2>2. g \in EpochPromise /\ x \in ID
    BY Epochs DEF LrType
  <2>3. g.rnd \in Nat /\ rnd[x] \in Nat /\ r \in Nat
    BY <2>2 DEF LrType, TypeOK, EpochPromise, Rnd0, Round
  <2> QED
    BY <2>1, <2>3
<1>5. Late(x, m, n)
  BY <1>1, <1>2, <1>3, <1>4 DEF Late
<1> QED
  BY <1>5, NeverLate

-----------------------------------------------------------------------------
(* Every step preserves this.                                              *)

LEMMA CoverInit == Init => CoverInv
<1> SUFFICES ASSUME Init PROVE CoverInv
  OBVIOUS
<1>1. Replacer \cap up = {}
  BY LrAssumption DEF Init, Original
<1> QED
  BY <1>1 DEF Init, CoverInv, Asked, Pausing

LEMMA PromisedStays ==
    ASSUME LrType, LrType', EvGrows, NEW s \in EpochPromise, Promised(s),
           s.id \in up', s.id \in pes'[s.to], rnd[s.id] <= rnd'[s.id],
           installing'[s.id] # s.to =>
               installing[s.id] # s.to \/ ev'[s.id][Pxid(s.to)] >= Epoch(s.to)
    PROVE  Promised(s)'
<1>1. s.id \in ID /\ s.to \in Replacer /\ s.ev \in Vector /\ s.rnd \in Nat
  BY DEF EpochPromise, Rnd0
<1>2. Pxid(s.to) \in Pid /\ Epoch(s.to) \in Nat
  BY <1>1, Epochs
<1>3. \A q \in Pid : ev[s.id][q] \in Nat /\ ev'[s.id][q] \in Nat /\ s.ev[q] \in Nat
  BY <1>1 DEF LrType, TypeOK, Vector
<1>4. rnd[s.id] \in Nat /\ rnd'[s.id] \in Nat
  BY <1>1 DEF LrType, TypeOK
<1>5. \A q \in Pid : ev[s.id][q] <= ev'[s.id][q]
  BY <1>1, <1>3 DEF EvGrows
<1>6. AtMost(s.ev, ev'[s.id])
  BY <1>3, <1>5 DEF AtMost, Promised
<1>7. s.rnd <= rnd'[s.id]
  BY <1>1, <1>4 DEF Promised
<1>8. installing'[s.id] # s.to => ev'[s.id][Pxid(s.to)] >= Epoch(s.to)
  BY <1>2, <1>3, <1>5 DEF Promised
<1> QED
  BY <1>6, <1>7, <1>8 DEF Promised

LEMMA GotStays ==
    ASSUME LrType, LrType', EvGrows, NEW x \in Replacer, NEW g \in EpochPromise,
           Got(x, g), eps \subseteq eps'
    PROVE  Got(x, g)'
<1>1. x \in ID /\ Pxid(g.id) \in Pid /\ Epoch(g.id) \in Nat
  BY Epochs DEF EpochPromise
<1>2. ev[x][Pxid(g.id)] \in Nat /\ ev'[x][Pxid(g.id)] \in Nat
  BY <1>1 DEF LrType, TypeOK
<1>3. ev[x][Pxid(g.id)] <= ev'[x][Pxid(g.id)]
  BY <1>1, <1>2 DEF EvGrows
<1>4. ev'[x][Pxid(g.id)] >= Epoch(g.id)
  BY <1>1, <1>2, <1>3 DEF Got
<1>5. \E s \in eps' : s.id = g.id /\ s.to = x /\ s.rnd = g.rnd /\ AtMost(s.ev, g.ev)
  BY DEF Got
<1> QED
  BY <1>4, <1>5 DEF Got

(* Steps that only raise rounds.                                           *)
LEMMA CoverQuiet ==
    ASSUME LrType, LrType', EvGrows, CoverInv,
           UNCHANGED <<up, pes, installing, eps, epochPromises, ev>>,
           learns \subseteq learns', \A i \in ID : rnd[i] <= rnd'[i],
           \A n \in learns' \ learns :
               /\ n.id \in up /\ n.rnd <= rnd'[n.id]
               /\ n.id \in Replacer => Covers(n.id, n.ev)
               /\ \A s \in eps : VoteOrPromise(n, s)
    PROVE  CoverInv'
<1>1. Asked' /\ Pausing'
  BY DEF CoverInv, Asked, Pausing
<1>2. ASSUME NEW s \in eps PROVE Promised(s)'
  BY PromisedStays DEF CoverInv, Promised, LrType, EpochPromise
<1>3. \A s, t \in eps : OneAfterAnother(s, t)
  BY DEF CoverInv
<1>4. \A x \in Replacer : \A g, h \in epochPromises[x] :
          Pxid(g.id) = Pxid(h.id) => g = h
  BY DEF CoverInv
<1>5. ASSUME NEW x \in Replacer, NEW g \in epochPromises[x] PROVE Got(x, g)'
  BY GotStays DEF CoverInv, LrType
<1>6. ASSUME NEW x \in Replacer \cap up PROVE Activated(x)'
  <2>1. Activated(x)
    BY DEF CoverInv
  <2>2. ASSUME NEW g \in epochPromises[x] PROVE g.rnd <= rnd'[x]
    <3>1. g \in EpochPromise /\ x \in ID
      BY Epochs DEF LrType
    <3>2. g.rnd \in Nat /\ rnd[x] \in Nat /\ rnd'[x] \in Nat
      BY <3>1 DEF LrType, TypeOK, EpochPromise, Rnd0
    <3>3. g.rnd <= rnd[x]
      BY <2>1 DEF Activated
    <3> QED
      BY <3>1, <3>2, <3>3
  <2> QED
    BY <2>1, <2>2 DEF Activated
<1>7. \A s \in eps : s.id \in Replacer =>
          /\ Covers(s.id, s.ev)'
          /\ \A g \in epochPromises[s.id] : g.rnd <= s.rnd
  BY DEF CoverInv, Covers
<1>8. ASSUME NEW n \in learns'
      PROVE  /\ n.id \in up /\ n.rnd <= rnd'[n.id]
             /\ n.id \in Replacer => Covers(n.id, n.ev)'
             /\ \A s \in eps : VoteOrPromise(n, s)
  <2>1. CASE n \in learns
    <3>1. /\ n.id \in up /\ n.rnd <= rnd[n.id]
          /\ n.id \in Replacer => Covers(n.id, n.ev)
          /\ \A s \in eps : VoteOrPromise(n, s)
      BY <2>1 DEF CoverInv
    <3>2. n.id \in ID /\ n.rnd \in Nat
      BY <2>1 DEF LrType, Learn, Round
    <3>3. rnd[n.id] \in Nat /\ rnd'[n.id] \in Nat /\ rnd[n.id] <= rnd'[n.id]
      BY <3>2 DEF LrType, TypeOK
    <3>4. n.rnd <= rnd'[n.id]
      BY <3>1, <3>2, <3>3
    <3> QED
      BY <3>1, <3>4 DEF Covers
  <2>2. CASE n \notin learns
    BY <2>2 DEF Covers
  <2> QED
    BY <2>1, <2>2
<1> QED
  BY <1>1, <1>2, <1>3, <1>4, <1>5, <1>6, <1>7, <1>8
     DEF CoverInv, OneAfterAnother, VoteOrPromise

LEMMA CoverPaxos ==
    ASSUME LrType, LrType', EvGrows, CoverInv, NEW r \in Round, Paxos(r)
    PROVE  CoverInv'
<1>1. \A i \in ID : rnd[i] \in Nat
  BY DEF LrType, TypeOK
<1>2. r \in Nat
  BY DEF Round
<1>3. CASE \/ StartPhaseOne(r) \/ SendAccept(r)
           \/ \E m \in promises : HandlePromLr(r, m)
  <2>1. UNCHANGED <<up, pes, installing, eps, epochPromises, ev, rnd, learns>>
    BY <1>3 DEF StartPhaseOne, SendAccept, HandlePromLr, lrVars
  <2> QED
    BY <1>1, <2>1, CoverQuiet
<1>4. ASSUME NEW i \in ID, HandlePrepLr(i, r) PROVE CoverInv'
  <2>1. /\ UNCHANGED <<up, pes, installing, eps, epochPromises, ev, learns>>
        /\ rnd[i] < r /\ rnd' = [rnd EXCEPT ![i] = r]
    BY <1>4 DEF HandlePrepLr, lrVars
  <2>2. \A j \in ID : rnd[j] <= rnd'[j]
    BY <1>1, <1>2, <2>1 DEF LrType, TypeOK
  <2> QED
    BY <2>1, <2>2, CoverQuiet
<1>5. ASSUME NEW i \in ID, HandleAccLr(i, r) PROVE CoverInv'
  <2> DEFINE n == [id |-> i, rnd |-> r, ev |-> ev[i]]
  <2>1. /\ UNCHANGED <<up, pes, installing, eps, epochPromises, ev>>
        /\ rnd[i] <= r /\ rnd' = [rnd EXCEPT ![i] = r]
        /\ i \in up /\ installing[i] = None /\ learns' = learns \cup {n}
    BY <1>5 DEF HandleAccLr, Running, lrVars
  <2>2. \A j \in ID : rnd[j] <= rnd'[j]
    BY <1>1, <1>2, <2>1 DEF LrType, TypeOK
  <2>3. r <= rnd'[i]
    BY <1>2, <2>1 DEF LrType, TypeOK
  <2>4. i \in Replacer => Covers(i, ev[i])
    BY DEF Covers, CoverInv, Got
  <2>5. ASSUME NEW s \in eps, s.id = i PROVE ev[i][Pxid(s.to)] >= Epoch(s.to)
    <3>1. s.to # None
      BY IdFacts DEF LrType, EpochPromise
    <3> QED
      BY <2>1, <2>5, <3>1 DEF CoverInv, Promised
  <2>6. \A s \in eps : VoteOrPromise(n, s)
    BY <2>5 DEF VoteOrPromise
  <2>7. n.id = i /\ n.rnd = r /\ n.ev = ev[i]
    OBVIOUS
  <2> HIDE DEF n
  <2> QED
    BY <2>1, <2>2, <2>3, <2>4, <2>6, <2>7, CoverQuiet
<1> QED
  BY <1>3, <1>4, <1>5 DEF Paxos

LEMMA CoverRec ==
    ASSUME LrType, LrType', EvGrows, CoverInv, NEW i \in ID, NEW x \in Replacer,
           HandleRecMsg(i, x)
    PROVE  CoverInv'
<1>1. /\ UNCHANGED <<up, installing, eps, epochPromises, ev, rnd, learns>>
      /\ pes[x] = {} /\ pes' = [pes EXCEPT ![x] = IDs(i)]
  BY DEF HandleRecMsg
<1>2. \A q \in IDs(i) : q = <<Pxid(q), ev[i][Pxid(q)]>>
  BY IDsFact
<1>3. /\ \A y \in Replacer : pes'[y] = pes[y] \/ (y = x /\ pes'[y] = IDs(i))
      /\ \A s \in eps : pes'[s.to] = pes[s.to] \/ s.to = x
  BY <1>1 DEF LrType
<1>4. Asked'
  BY <1>2, <1>3 DEF CoverInv, Asked
<1>5. ASSUME NEW s \in eps PROVE Promised(s)'
  <2>1. Promised(s) /\ s \in EpochPromise
    BY DEF CoverInv, LrType
  <2>2. s.id \in pes'[s.to]
    BY <1>1, <1>3, <2>1 DEF Promised
  <2> QED
    BY <1>1, <2>1, <2>2 DEF Promised, AtMost
<1> QED
  BY <1>1, <1>4, <1>5
     DEF CoverInv, Pausing, OneAfterAnother, VoteOrPromise, Got, Activated, Covers

LEMMA CoverPrepareEpoch ==
    ASSUME LrType, LrType', EvGrows, CoverInv, NEW i \in ID, NEW x \in Replacer,
           HandlePrepareEpoch(i, x)
    PROVE  CoverInv'
<1> DEFINE n == [id |-> i, to |-> x, rnd |-> rnd[i], vote |-> vote[i], ev |-> ev[i]]
<1>1. /\ UNCHANGED <<up, pes, epochPromises, ev, rnd, learns>>
      /\ installing' = [installing EXCEPT ![i] = x] /\ eps' = eps \cup {n}
      /\ i \in up /\ i \in pes[x] /\ installing[i] = None
      /\ Epoch(x) > ev[i][Pxid(x)] /\ Pxid(x) # Pxid(i)
  BY DEF HandlePrepareEpoch, HasPrepareEpoch
<1>2. /\ n.id = i /\ n.to = x /\ n.rnd = rnd[i] /\ n.ev = ev[i]
      /\ rnd[i] \in Nat /\ \A p \in Pid : ev[i][p] \in Nat
  BY DEF LrType, TypeOK
<1> HIDE DEF n
<1>3. Asked' /\ Pausing'
  BY <1>1 DEF CoverInv, Asked, Pausing, LrType, TypeOK
<1>4. ASSUME NEW s \in eps, s.id = i PROVE ev[i][Pxid(s.to)] >= Epoch(s.to)
  <2>1. s.to # None
    BY IdFacts DEF LrType, EpochPromise
  <2> QED
    BY <1>1, <1>4, <2>1 DEF CoverInv, Promised
<1>5. ASSUME NEW s \in eps' PROVE Promised(s)'
  <2>1. CASE s \in eps
    <3>1. Promised(s) /\ s \in EpochPromise
      BY <2>1 DEF CoverInv, LrType
    <3>2. s.id # i => installing'[s.id] = installing[s.id]
      BY <1>1, <3>1 DEF LrType, TypeOK, EpochPromise
    <3> QED
      BY <1>1, <1>4, <2>1, <3>1, <3>2 DEF Promised, AtMost
  <2>2. CASE s = n
    <3>1. installing'[i] = x
      BY <1>1 DEF LrType, TypeOK
    <3>2. AtMost(ev[i], ev[i])
      BY <1>2 DEF AtMost
    <3> QED
      BY <1>1, <1>2, <2>2, <3>1, <3>2 DEF Promised, AtMost
  <2> QED
    BY <1>1, <2>1, <2>2
<1>6. ASSUME NEW s \in eps', NEW t \in eps' PROVE OneAfterAnother(s, t)
  <2>1. CASE s \in eps /\ t \in eps
    BY <2>1 DEF CoverInv
  <2>2. CASE s = n
    BY <1>1, <1>2, <1>4, <2>2 DEF OneAfterAnother
  <2>3. CASE t = n
    BY <1>1, <1>2, <1>4, <2>3 DEF OneAfterAnother
  <2> QED
    BY <1>1, <2>1, <2>2, <2>3
<1>7. \A y \in Replacer : \A g, h \in epochPromises'[y] :
          Pxid(g.id) = Pxid(h.id) => g = h
  BY <1>1 DEF CoverInv
<1>8. ASSUME NEW y \in Replacer, NEW g \in epochPromises'[y] PROVE Got(y, g)'
  <2>1. g \in EpochPromise /\ Got(y, g)
    BY <1>1 DEF CoverInv, LrType
  <2> QED
    BY <1>1, <2>1, GotStays
<1>9. \A y \in Replacer \cap up' : Activated(y)'
  BY <1>1 DEF CoverInv, Activated
<1>10. ASSUME NEW s \in eps', s.id \in Replacer
       PROVE  Covers(s.id, s.ev)' /\ \A g \in epochPromises'[s.id] : g.rnd <= s.rnd
  <2>1. CASE s \in eps
    BY <1>1, <1>10, <2>1 DEF CoverInv, Covers
  <2>2. CASE s = n
    BY <1>1, <1>2, <1>10, <2>2 DEF CoverInv, Covers, Got, Activated
  <2> QED
    BY <1>1, <2>1, <2>2
<1>11. ASSUME NEW m \in learns'
       PROVE  /\ m.id \in up' /\ m.rnd <= rnd'[m.id]
              /\ m.id \in Replacer => Covers(m.id, m.ev)'
              /\ \A s \in eps' : VoteOrPromise(m, s)
  <2>1. /\ m.id \in up /\ m.rnd <= rnd[m.id]
        /\ m.id \in Replacer => Covers(m.id, m.ev)
        /\ \A s \in eps : VoteOrPromise(m, s)
    BY <1>1 DEF CoverInv
  <2>2. VoteOrPromise(m, n)
    BY <1>2, <2>1 DEF VoteOrPromise
  <2> QED
    BY <1>1, <2>1, <2>2 DEF Covers
<1> QED
  BY <1>3, <1>5, <1>6, <1>7, <1>8, <1>9, <1>10, <1>11
     DEF CoverInv, OneAfterAnother, VoteOrPromise

(* An activated replacer knows all replicas: Replace never fails.          *)
LEMMA AllKnown ==
    ASSUME LrType, CoverInv, NEW i \in up, NEW p \in Pid
    PROVE  p \in Known(i)
<1>1. CASE i \in Original
  BY <1>1 DEF Known
<1>2. CASE i \notin Original
  <2>1. i \in Replacer
    BY <1>2 DEF LrType, TypeOK, ID
  <2>2. p = Pxid(i) \/ \E g \in epochPromises[i] : Pxid(g.id) = p
    BY <2>1 DEF CoverInv, Activated
  <2> QED
    BY <1>2, <2>2 DEF Known
<1> QED
  BY <1>1, <1>2

LEMMA CoverReplace ==
    ASSUME LrType, LrType', EvGrows, CoverInv, NEW i \in ID, Replace(i)
    PROVE  CoverInv'
<1>1. PICK x \in Replacer : x = installing[i]
  BY DEF Replace, LrType, TypeOK
<1>2. /\ i \in up /\ Pxid(x) \in Pid
      /\ UNCHANGED <<up, pes, eps, epochPromises, rnd, learns>>
      /\ installing' = [installing EXCEPT ![i] = None]
  BY <1>1, IdFacts DEF Replace, CoverInv, Pausing
<1>3. ev'[i][Pxid(x)] = Epoch(x)
  BY <1>1, <1>2, AllKnown DEF Replace, LrType, TypeOK
<1>4. Asked' /\ Pausing'
  BY <1>2 DEF CoverInv, Asked, Pausing, LrType, TypeOK
<1>5. ASSUME NEW s \in eps' PROVE Promised(s)'
  <2>1. Promised(s) /\ s \in EpochPromise /\ s.id \in ID /\ Epoch(x) \in Nat
    BY <1>2, Epochs DEF CoverInv, LrType, EpochPromise
  <2>2. s.id # i => installing'[s.id] = installing[s.id]
    BY <1>2, <2>1 DEF LrType, TypeOK
  <2>3. rnd[s.id] <= rnd'[s.id]
    BY <1>2, <2>1 DEF LrType, TypeOK
  <2>4. installing'[s.id] # s.to =>
            installing[s.id] # s.to \/ ev'[s.id][Pxid(s.to)] >= Epoch(s.to)
    BY <1>1, <1>3, <2>1, <2>2
  <2>5. s.id \in up' /\ s.id \in pes'[s.to]
    BY <1>2, <2>1 DEF Promised
  <2> QED
    BY <2>1, <2>3, <2>4, <2>5, PromisedStays
<1>6. ASSUME NEW y \in Replacer, NEW g \in epochPromises'[y] PROVE Got(y, g)'
  <2>1. g \in EpochPromise /\ Got(y, g)
    BY <1>2 DEF CoverInv, LrType
  <2> QED
    BY <1>2, <2>1, GotStays
<1> QED
  BY <1>2, <1>4, <1>5, <1>6
     DEF CoverInv, OneAfterAnother, VoteOrPromise, Activated, Covers

(* With three replicas a quorum of EpochPromises is all there can be.      *)
LEMMA AllPromised ==
    ASSUME ThreeReplicas, NEW x \in Replacer, NEW got \in SUBSET EpochPromise,
           \A g, h \in got : Pxid(g.id) = Pxid(h.id) => g = h,
           \A g \in got : Pxid(g.id) # Pxid(x), NEW Q \in ValidQuorums(got)
    PROVE  /\ \A p \in Pid \ {Pxid(x)} : \E g \in got : Pxid(g.id) = p
           /\ Valid(got)
           /\ ExtractRnd(Q) \in Nat /\ \A g \in got : g.rnd <= ExtractRnd(Q)
<1>1. Q \subseteq got /\ Cardinality(Q) = 2 /\ Valid(Q)
  BY QuorumIsTwo DEF ValidQuorums
<1>2. PICK a \in Q : TRUE
  BY <1>1, FS_EmptySet
<1>3. PICK b \in Q : b # a
  BY <1>1, <1>2, AnotherOne
<1>4. /\ Pxid(x) \in Pid /\ Pxid(a.id) \in Pid /\ Pxid(b.id) \in Pid
      /\ Pxid(a.id) # Pxid(b.id) /\ Pxid(a.id) # Pxid(x) /\ Pxid(b.id) # Pxid(x)
  BY <1>1, <1>2, <1>3, Epochs DEF EpochPromise
<1>5. \A p \in Pid \ {Pxid(x)} : p = Pxid(a.id) \/ p = Pxid(b.id)
  BY <1>4, ThreePids
<1>6. \A g \in got : g = a \/ g = b
  <2> SUFFICES ASSUME NEW g \in got PROVE g = a \/ g = b
    OBVIOUS
  <2>1. Pxid(g.id) \in Pid \ {Pxid(x)}
    BY Epochs DEF EpochPromise
  <2> QED
    BY <1>1, <1>2, <1>3, <1>5, <2>1
<1>7. got = Q
  BY <1>1, <1>2, <1>3, <1>6
<1> DEFINE S == {m.rnd : m \in Q}
<1>8. S \in SUBSET Rnd0 /\ S # {}
  BY <1>1, <1>2 DEF EpochPromise
<1>9. \E r \in S : \A s \in S : s <= r
  <2> HIDE DEF S
  <2> QED
    BY <1>8, HighestRnd
<1>10. \E r \in S : \A m \in Q : m.rnd <= r
  BY <1>9
<1>11. ExtractRnd(Q) \in S /\ \A m \in Q : m.rnd <= ExtractRnd(Q)
  BY <1>10 DEF ExtractRnd
<1>12. ExtractRnd(Q) \in Nat
  <2>1. ExtractRnd(Q) \in Rnd0
    BY <1>8, <1>11
  <2> QED
    BY <2>1, LrAssumption DEF Rnd0
<1> QED
  BY <1>1, <1>2, <1>3, <1>5, <1>7, <1>11, <1>12

(* An EpochPromise of a replica with a PaxosID of which there is none yet: *)
(* the replacer is not activated.                                          *)
LEMMA NewPromise ==
    ASSUME LrType, CoverInv, NEW x \in Replacer, NEW m \in eps, m.to = x,
           m.id \notin {n.id : n \in epochPromises[x]}
    PROVE  /\ \A g \in epochPromises[x] : Pxid(g.id) # Pxid(m.id)
           /\ x \notin up /\ Pxid(m.id) # Pxid(x) /\ Pxid(m.id) \notin Known(x)
<1>1. Promised(m) /\ m.id \in ID /\ Pxid(m.id) \in Pid
  BY Epochs DEF CoverInv, LrType, EpochPromise
<1>2. \A g \in epochPromises[x] : g.id \in pes[x]
  BY DEF CoverInv, Got, Promised
<1>3. \A g \in epochPromises[x] : Pxid(g.id) # Pxid(m.id)
  BY <1>1, <1>2 DEF CoverInv, Asked, Promised
<1>4. x \notin up
  BY <1>1, <1>3 DEF CoverInv, Activated, Promised
<1>5. x \notin Original
  BY LrAssumption DEF Original
<1> QED
  BY <1>1, <1>3, <1>4, <1>5 DEF Promised, Known

LEMMA CoverEpochPromise ==
    ASSUME ThreeReplicas, LrType, LrType', EvGrows, CoverInv,
           NEW x \in Replacer, NEW m \in eps, HandleEpochPromise(x, m)
    PROVE  CoverInv'
<1>1. /\ m.to = x /\ m.id \notin {n.id : n \in epochPromises[x]}
      /\ UNCHANGED <<pes, installing, eps, learns>>
  BY DEF HandleEpochPromise
<1>2. /\ \A g \in epochPromises[x] : Pxid(g.id) # Pxid(m.id)
      /\ x \notin up /\ Pxid(m.id) # Pxid(x) /\ Pxid(m.id) \notin Known(x)
  BY <1>1, NewPromise
<1>3. /\ m \in EpochPromise /\ m.ev \in Vector /\ m.id \in ID /\ m.id \in up /\ x \in ID
      /\ Pxid(m.id) \in Pid /\ Epoch(m.id) \in Nat /\ Promised(m)
      /\ epochPromises[x] \subseteq EpochPromise
  BY Epochs DEF CoverInv, Promised, LrType, EpochPromise
<1>4. PICK e \in Carried(m, x) :
         /\ epochPromises' =
              [epochPromises EXCEPT ![x] = epochPromises[x] \cup {As(m, e)}]
         /\ \/ /\ \E Q \in ValidQuorums(epochPromises[x] \cup {As(m, e)}) :
                      rnd' = [rnd EXCEPT ![x] = ExtractRnd(Q)]
               /\ up' = up \cup {x}
            \/ UNCHANGED <<rnd, up>>
  BY <1>2 DEF HandleEpochPromise
<1> DEFINE n == As(m, e)
           got == epochPromises[x] \cup {n}
<1>5. e \in Vector /\ AtMost(m.ev, e)
  <2>1. m.id # x
    BY <1>2
  <2>2. e = m.ev \/ e = ev[m.id]
    BY <2>1 DEF Carried
  <2>3. \A p \in Pid : m.ev[p] \in Nat
    BY <1>3 DEF Vector
  <2>4. AtMost(m.ev, m.ev)
    BY <2>3 DEF AtMost
  <2> QED
    BY <1>3, <2>2, <2>4 DEF Promised, LrType, TypeOK, Vector
<1>6. n \in EpochPromise /\ n.id = m.id /\ n.to = x /\ n.rnd = m.rnd /\ n.ev = e
  BY <1>1, <1>3, <1>5 DEF As, EpochPromise
<1> HIDE DEF n
<1>7. /\ epochPromises'[x] = got
      /\ \A y \in Replacer \ {x} : epochPromises'[y] = epochPromises[y]
  BY <1>4 DEF n, LrType
<1>8. /\ up \subseteq up' /\ up' \subseteq up \cup {x}
      /\ \A i \in ID \ {x} : rnd'[i] = rnd[i]
  <2>1. rnd' = rnd \/ \E k : rnd' = [rnd EXCEPT ![x] = k]
    BY <1>4
  <2> QED
    BY <1>4, <2>1 DEF LrType, TypeOK
<1>9. ev'[x][Pxid(m.id)] = Epoch(m.id)
  BY <1>2, <1>3 DEF HandleEpochPromise, LrType, TypeOK
<1>10. Asked' /\ Pausing'
  BY <1>1, <1>8 DEF CoverInv, Asked, Pausing
<1>11. ASSUME NEW s \in eps' PROVE Promised(s)'
  <2>1. Promised(s) /\ s \in EpochPromise /\ s.id \in ID
    BY <1>1 DEF CoverInv, LrType, EpochPromise
  <2>2. s.id \in up /\ s.id # x /\ s.id \in pes[s.to]
    BY <1>2, <2>1 DEF Promised
  <2>3. rnd[s.id] <= rnd'[s.id] /\ s.id \in up'
    BY <1>8, <2>1, <2>2 DEF LrType, TypeOK
  <2> QED
    BY <1>1, <2>1, <2>2, <2>3, PromisedStays
<1>12. \A g, h \in got : Pxid(g.id) = Pxid(h.id) => g = h
  BY <1>2, <1>6 DEF CoverInv
<1>13. ASSUME NEW y \in Replacer, NEW g \in epochPromises'[y] PROVE Got(y, g)'
  <2>1. CASE g \in epochPromises[y]
    BY <1>1, <2>1, GotStays DEF CoverInv, LrType
  <2>2. CASE y = x /\ g = n
    <3>1. m \in eps' /\ m.id = g.id /\ m.to = y /\ m.rnd = g.rnd /\ AtMost(m.ev, g.ev)
      BY <1>1, <1>5, <1>6, <2>2
    <3>2. ev'[y][Pxid(g.id)] >= Epoch(g.id)
      BY <1>3, <1>6, <1>9, <2>2
    <3> QED
      BY <3>1, <3>2 DEF Got
  <2> QED
    BY <1>7, <2>1, <2>2
<1>14. \A g \in got : Pxid(g.id) # Pxid(x)
  BY <1>2, <1>6 DEF CoverInv, Got, Promised
<1>15. ASSUME NEW y \in Replacer \cap up' PROVE Activated(y)'
  <2>1. CASE y \in up
    <3>1. y # x /\ Activated(y) /\ y \in ID
      BY <1>2, <2>1, Epochs DEF CoverInv
    <3> QED
      BY <1>7, <1>8, <3>1 DEF Activated
  <2>2. CASE y \notin up
    <3>1. y = x
      BY <1>8, <2>2
    <3>2. PICK Q \in ValidQuorums(got) : rnd' = [rnd EXCEPT ![x] = ExtractRnd(Q)]
      BY <1>4, <2>2 DEF n
    <3>3. got \in SUBSET EpochPromise
      BY <1>3, <1>6
    <3>4. /\ \A p \in Pid \ {Pxid(x)} : \E g \in got : Pxid(g.id) = p
          /\ Valid(got)
          /\ \A g \in got : g.rnd <= ExtractRnd(Q)
      BY <1>12, <1>14, <3>2, <3>3, AllPromised
    <3>5. rnd'[x] = ExtractRnd(Q)
      BY <1>3, <3>2 DEF LrType, TypeOK
    <3> QED
      BY <1>7, <3>1, <3>4, <3>5 DEF Activated
  <2> QED
    BY <2>1, <2>2
<1>16. ASSUME NEW s \in eps', s.id \in Replacer
       PROVE  Covers(s.id, s.ev)' /\ \A g \in epochPromises'[s.id] : g.rnd <= s.rnd
  <2>1. s.id # x
    BY <1>1, <1>2 DEF CoverInv, Promised
  <2> QED
    BY <1>1, <1>7, <1>16, <2>1 DEF CoverInv, Covers
<1>17. ASSUME NEW k \in learns'
       PROVE  /\ k.id \in up' /\ k.rnd <= rnd'[k.id]
              /\ k.id \in Replacer => Covers(k.id, k.ev)'
              /\ \A s \in eps' : VoteOrPromise(k, s)
  <2>1. /\ k.id \in up /\ k.rnd <= rnd[k.id] /\ k.id \in ID
        /\ k.id \in Replacer => Covers(k.id, k.ev)
        /\ \A s \in eps : VoteOrPromise(k, s)
    BY <1>1 DEF CoverInv, LrType, Learn
  <2>2. k.id # x
    BY <1>2, <2>1
  <2> QED
    BY <1>1, <1>7, <1>8, <2>1, <2>2 DEF Covers
<1>18. ASSUME NEW y \in Replacer, NEW g \in epochPromises'[y], NEW h \in epochPromises'[y],
              Pxid(g.id) = Pxid(h.id)
       PROVE  g = h
  BY <1>7, <1>12, <1>18 DEF CoverInv
<1>19. \A s, t \in eps' : OneAfterAnother(s, t)
  BY <1>1 DEF CoverInv
<1> QED
  BY <1>10, <1>11, <1>13, <1>15, <1>16, <1>17, <1>18, <1>19
     DEF CoverInv, OneAfterAnother, VoteOrPromise

LEMMA CoverStep ==
    ASSUME ThreeReplicas, LrType, LrType', EvGrows, CoverInv, [Next]_vars
    PROVE  CoverInv'
<1>1. \A i \in ID : rnd[i] \in Nat
  BY DEF LrType, TypeOK
<1>2. CASE UNCHANGED vars \/ \E m \in learns : HandleLrnLr(m)
  <2>1. UNCHANGED <<up, pes, installing, eps, epochPromises, ev, rnd, learns>>
    BY <1>2 DEF vars, lrVars, HandleLrnLr
  <2> QED
    BY <1>1, <2>1, CoverQuiet
<1>3. ASSUME NEW x \in Replacer, Replacing(x) PROVE CoverInv'
  <2>1. ASSUME NEW i \in ID, HandlePrepareEpochTooEarly(i, x) PROVE CoverInv'
    <3>1. UNCHANGED <<up, pes, installing, eps, epochPromises, ev, rnd, learns>>
      BY <2>1 DEF HandlePrepareEpochTooEarly
    <3> QED
      BY <1>1, <3>1, CoverQuiet
  <2> QED
    BY <1>3, <2>1, CoverRec, CoverPrepareEpoch, CoverEpochPromise DEF Replacing
<1> QED
  BY <1>2, <1>3, CoverPaxos, CoverReplace DEF Next

LEMMA CoverInductive == ASSUME ThreeReplicas PROVE Spec => []CoverInv
<1>1. Init => CoverInv
  BY CoverInit
<1>2. LrInv /\ LrInv' /\ CoverInv /\ [Next]_vars => CoverInv'
  BY CoverStep, EvStep DEF LrInv
<1> QED
  BY <1>1, <1>2, LrInductive, PTL DEF Spec

(* The round an activated replacer starts with covers every value that the *)
(* replaced one helped to choose, for three replicas, however many are     *)
(* replaced, how often and in how many rounds: extractAcceptorState takes  *)
(* the highest round of EpochPromises that checkCombination accepts, and   *)
(* two replacers whose EpochPromises were accepted know of each other.     *)
THEOREM ReplacerCoversChosenTheorem ==
    ASSUME ThreeReplicas PROVE Spec => []ReplacerCoversChosen
<1>1. LrInv /\ CoverInv => ReplacerCoversChosen
  BY CoversChosen DEF LrInv
<1> QED
  BY <1>1, LrInductive, CoverInductive, PTL

(* What a replica promised to a replacer it keeps, for three replicas: all *)
(* it says after the EpochPromise has the epoch it promised.  Replace does *)
(* not fail, since an activated replacer has both others in its node map.  *)
THEOREM EpochPromiseKeptTheorem ==
    ASSUME ThreeReplicas PROVE Spec => []EpochPromiseKept
<1>1. CoverInv => EpochPromiseKept
  BY DEF CoverInv, Promised, EpochPromiseKept
<1> QED
  BY <1>1, CoverInductive, PTL
=============================================================================
