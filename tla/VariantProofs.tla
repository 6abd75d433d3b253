--------------------------- MODULE VariantProofs ----------------------------
(***************************************************************************)
(* Proofs about ParallelPaxos, for any number of processors, slots, rounds *)
(* and requests, and about BatchPaxos, for any number of replicas, clients *)
(* and batches.                                                            *)
(*   - ParallelAcceptor: the lock taken for writing by prepares is enough  *)
(*     to keep the promises, whatever accepts do to one another.           *)
(*   - ParallelLearner: the token goes round the processors in the order   *)
(*     of the slots, so that they are delivered in that order.             *)
(*   - ParallelProposer: the commands of the demuxer never ask for more    *)
(*     accepts than there are requests in the queue, nor for a slot beyond *)
(*     the window of alpha.                                                *)
(*   - BatchPaxos: the ranges of successive batches join, so the replicas  *)
(*     execute the same requests in the same order, and each client's      *)
(*     without gaps.                                                       *)
(***************************************************************************)
EXTENDS VariantParts, Sequences, FiniteSetTheorems, SequenceTheorems,
        WellFoundedInduction, TLAPS

Msg == Accept \cup {NoMsg}
Checked == {"vrnd", "higher", "raise", "vote", "val", "learn"}
Label == {"idle", "round"} \cup Checked

TypeInv ==
    /\ rnd \in Nat
    /\ promised \in Nat
    /\ pc \in [Processor -> Label]
    /\ msg \in [Processor -> Msg]
    /\ \A p \in Processor : pc[p] # "idle" => msg[p] \in Accept

(* A processor past the comparison of rounds handles an accept that is not *)
(* below the promise, and no promise is made until it has returned.        *)
CheckedCovers ==
    \A p \in Processor : pc[p] \in Checked => msg[p].rnd >= promised

IndInv == TypeInv /\ RoundCoversPromise /\ CheckedCovers

LEMMA AcceptRound ==
    ASSUME NEW m \in Accept
    PROVE  m.rnd \in Nat /\ m.slot \in SlotID
  BY AcceptorAssumption DEF Accept, Round

(* A processor goes on to a label past the comparison with its accept      *)
(* covered; nothing else changes.                                          *)
LEMMA GoesOn ==
    ASSUME IndInv, NEW p \in Processor, NEW l \in Checked,
           Goto(p, l), pc[p] # "idle", msg[p].rnd >= promised,
           UNCHANGED <<rnd, promised, msg>>
    PROVE  IndInv'
<1>1. \A q \in Processor : pc'[q] = IF q = p THEN l ELSE pc[q]
  BY DEF Goto, IndInv, TypeInv
<1>2. TypeInv'
  BY <1>1 DEF Goto, IndInv, TypeInv, Label, Checked
<1>3. CheckedCovers'
  BY <1>1 DEF IndInv, CheckedCovers
<1> QED
  BY <1>2, <1>3 DEF IndInv, RoundCoversPromise

(* handleAccept returns.                                                   *)
LEMMA Returns ==
    ASSUME IndInv, NEW p \in Processor, Return(p), UNCHANGED <<rnd, promised>>
    PROVE  IndInv'
<1>1. \A q \in Processor : /\ pc'[q] = IF q = p THEN "idle" ELSE pc[q]
                           /\ msg'[q] = IF q = p THEN NoMsg ELSE msg[q]
  BY DEF Return, Goto, IndInv, TypeInv
<1>2. TypeInv'
  BY <1>1 DEF Return, Goto, IndInv, TypeInv, Label, Checked, Msg
<1>3. CheckedCovers'
  BY <1>1 DEF IndInv, CheckedCovers, Checked
<1> QED
  BY <1>2, <1>3 DEF IndInv, RoundCoversPromise

LEMMA InitHolds == Init => IndInv
  BY DEF Init, IndInv, TypeInv, RoundCoversPromise, CheckedCovers, Label, Checked, Msg

LEMMA StepKeeps == IndInv /\ [Next]_vars => IndInv'
<1> SUFFICES ASSUME IndInv, [Next]_vars PROVE IndInv'
  OBVIOUS
<1>1. CASE UNCHANGED vars
  BY <1>1 DEF vars, IndInv, TypeInv, RoundCoversPromise, CheckedCovers
<1>2. ASSUME NEW p \in Processor, NEW r \in Round, HandlePrepare(p, r)
      PROVE  IndInv'
  <2>1. r \in Nat
    BY DEF Round
  <2>2. TypeInv' /\ RoundCoversPromise'
    BY <1>2, <2>1 DEF HandlePrepare, IndInv, TypeInv, RoundCoversPromise
  <2>3. CheckedCovers'
    BY <1>2 DEF HandlePrepare, CheckedCovers, Checked
  <2> QED
    BY <2>2, <2>3 DEF IndInv
<1>3. ASSUME NEW p \in Processor, NEW m \in Accept, HandleAccept(p, m)
      PROVE  IndInv'
  <2>1. \A q \in Processor : /\ pc'[q] = IF q = p THEN "round" ELSE pc[q]
                             /\ msg'[q] = IF q = p THEN m ELSE msg[q]
    BY <1>3 DEF HandleAccept, Goto, IndInv, TypeInv
  <2>2. TypeInv'
    BY <1>3, <2>1 DEF HandleAccept, Goto, IndInv, TypeInv, Label, Checked, Msg
  <2>3. CheckedCovers'
    BY <1>3, <2>1 DEF HandleAccept, IndInv, CheckedCovers, Checked
  <2> QED
    BY <1>3, <2>2, <2>3 DEF HandleAccept, IndInv, RoundCoversPromise
<1>4. ASSUME NEW p \in Processor,
             CompareRound(p) \/ CompareVRnd(p) \/ CompareHigher(p)
                \/ Raise(p) \/ SetVRnd(p) \/ SetVVal(p) \/ SendLearn(p)
      PROVE  IndInv'
  <2>1. pc[p] # "idle"
    BY <1>4 DEF CompareRound, CompareVRnd, CompareHigher, Raise, SetVRnd,
                SetVVal, SendLearn
  <2>2. msg[p] \in Accept /\ msg[p].rnd \in Nat
    BY <2>1, AcceptRound DEF IndInv, TypeInv
  <2>3. CASE CompareRound(p)
    <3>1. CASE rnd > msg[p].rnd
      BY <2>3, <3>1, Returns DEF CompareRound
    <3>2. CASE ~(rnd > msg[p].rnd)
      <4>1. msg[p].rnd >= promised
        BY <3>2, <2>2 DEF IndInv, TypeInv, RoundCoversPromise
      <4>2. Goto(p, "vrnd") /\ UNCHANGED <<rnd, promised, msg>>
        BY <2>3, <3>2 DEF CompareRound
      <4> QED
        BY <4>1, <4>2, <2>1, GoesOn DEF Checked
    <3> QED
      BY <3>1, <3>2
  <2>4. CASE CompareVRnd(p)
    <3>1. msg[p].rnd >= promised
      BY <2>4 DEF CompareVRnd, IndInv, CheckedCovers, Checked
    <3>2. \/ Return(p) /\ UNCHANGED <<rnd, promised>>
          \/ Goto(p, "higher") /\ UNCHANGED <<rnd, promised, msg>>
      BY <2>4 DEF CompareVRnd
    <3> QED
      BY <3>1, <3>2, <2>1, GoesOn, Returns DEF Checked
  <2>5. CASE CompareHigher(p)
    <3>1. msg[p].rnd >= promised
      BY <2>5 DEF CompareHigher, IndInv, CheckedCovers, Checked
    <3>2. \E l \in {"raise", "vote"} : Goto(p, l) /\ UNCHANGED <<rnd, promised, msg>>
      BY <2>5 DEF CompareHigher
    <3> QED
      BY <3>1, <3>2, <2>1, GoesOn DEF Checked
  <2>6. CASE Raise(p)
    <3>1. msg[p].rnd >= promised
      BY <2>6 DEF Raise, IndInv, CheckedCovers, Checked
    <3>2. \A q \in Processor : pc'[q] = IF q = p THEN "vote" ELSE pc[q]
      BY <2>6 DEF Raise, Goto, IndInv, TypeInv
    <3>3. TypeInv'
      BY <2>6, <2>2, <3>2 DEF Raise, Goto, IndInv, TypeInv, Label, Checked
    <3>4. CheckedCovers'
      BY <2>6, <3>1, <3>2 DEF Raise, IndInv, CheckedCovers
    <3>5. RoundCoversPromise'
      BY <2>6, <3>1 DEF Raise, RoundCoversPromise
    <3> QED
      BY <3>3, <3>4, <3>5 DEF IndInv
  <2>7. CASE SetVRnd(p)
    <3>1. msg[p].rnd >= promised
      BY <2>7 DEF SetVRnd, IndInv, CheckedCovers, Checked
    <3>2. Goto(p, "val") /\ UNCHANGED <<rnd, promised, msg>>
      BY <2>7 DEF SetVRnd
    <3> QED
      BY <3>1, <3>2, <2>1, GoesOn DEF Checked
  <2>8. CASE SetVVal(p)
    <3>1. msg[p].rnd >= promised
      BY <2>8 DEF SetVVal, IndInv, CheckedCovers, Checked
    <3>2. Goto(p, "learn") /\ UNCHANGED <<rnd, promised, msg>>
      BY <2>8 DEF SetVVal
    <3> QED
      BY <3>1, <3>2, <2>1, GoesOn DEF Checked
  <2>9. CASE SendLearn(p)
    BY <2>9, Returns DEF SendLearn
  <2> QED
    BY <1>4, <2>3, <2>4, <2>5, <2>6, <2>7, <2>8, <2>9
<1> QED
  BY <1>1, <1>2, <1>3, <1>4 DEF Next

(* slots.Rnd is never below what handlePrepare has promised.               *)
THEOREM RoundCovers == Spec => []RoundCoversPromise
<1>1. IndInv => RoundCoversPromise
  BY DEF IndInv
<1> QED
  BY <1>1, InitHolds, StepKeeps, PTL DEF Spec

(* handleAccept casts no vote below a promise: of the steps only SetVRnd   *)
(* casts one, past the comparison of rounds.                               *)
LEMMA StepKeepsPromise ==
    IndInv /\ [Next]_vars => [\A m \in cast' \ cast : m.rnd >= promised]_vars
<1> SUFFICES ASSUME IndInv, Next, NEW m \in cast' \ cast
             PROVE  m.rnd >= promised
  BY DEF vars
<1>1. PICK p \in Processor : SetVRnd(p)
  BY DEF Next, HandlePrepare, HandleAccept, CompareRound, CompareVRnd,
         CompareHigher, Raise, SetVVal, SendLearn
<1>2. m = msg[p]
  BY <1>1 DEF SetVRnd
<1> QED
  BY <1>1, <1>2 DEF SetVRnd, IndInv, CheckedCovers, Checked

(* The acceptor of ParallelPaxos keeps its promises.                       *)
THEOREM KeepsPromise == Spec => PromiseKept
<1>1. Spec => []IndInv
  BY InitHolds, StepKeeps, PTL DEF Spec
<1> QED
  BY <1>1, StepKeepsPromise, PTL DEF Spec, PromiseKept

-----------------------------------------------------------------------------
(* The processors of slots.                                                *)

LEMMA DivMod ==
    ASSUME NEW x \in Nat, NEW N \in Nat \ {0}
    PROVE  \E q \in Nat, r \in 0..(N - 1) : x = N * q + r /\ r = x % N
<1>1. /\ x % N \in 0..(N - 1) /\ x \div N \in Nat
      /\ x = N * (x \div N) + (x % N)
  OBVIOUS
<1> QED
  BY <1>1

LEMMA ModUnique ==
    ASSUME NEW N \in Nat \ {0}, NEW x \in Nat, NEW y \in Nat,
           x % N = y % N, x <= y, y < x + N
    PROVE  x = y
<1>1. PICK a \in Nat, r \in 0..(N - 1) : x = N * a + r /\ r = x % N
  BY DivMod, Zenon
<1>2. PICK b \in Nat, s \in 0..(N - 1) : y = N * b + s /\ s = y % N
  BY DivMod, Zenon
<1>3. r = s
  BY <1>1, <1>2
<1>4. x = N * a + r /\ y = N * b + r
  BY <1>1, <1>2, <1>3
<1>5. N * b - N * a = N * (b - a)
  OBVIOUS
<1>6. b - a >= 1 => N * (b - a) >= N
  OBVIOUS
<1>7. b - a <= -1 => N * (b - a) <= -N
  OBVIOUS
<1> QED
  BY <1>4, <1>5, <1>6, <1>7

LEMMA ModIs ==
    ASSUME NEW N \in Nat \ {0}, NEW x \in Nat, NEW q \in Nat, NEW r \in 0..(N - 1),
           x = N * q + r
    PROVE  x % N = r
<1>1. PICK a \in Nat, s \in 0..(N - 1) : x = N * a + s /\ s = x % N
  BY DivMod
<1>2. N * q - N * a = N * (q - a)
  OBVIOUS
<1>3. PICK k \in Int, p \in Int : k = q - a /\ p = N * (q - a)
  OBVIOUS
<1>4. k >= 1 => p >= N
  BY <1>3
<1>5. k <= -1 => p <= -N
  BY <1>3
<1>6. p = s - r
  BY <1>1, <1>2, <1>3
<1>7. q = a
  <2>1. s - r < N /\ s - r > -N
    OBVIOUS
  <2>2. ~(k >= 1) /\ ~(k <= -1)
    BY <1>4, <1>5, <1>6, <2>1
  <2> QED
    BY <1>3, <2>2
<1>8. s = r
  <2>1. N * q \in Int
    OBVIOUS
  <2> QED
    BY <1>1, <1>7, <2>1
<1> QED
  BY <1>1, <1>8, Zenon

LEMMA ModShift ==
    ASSUME NEW N \in Nat \ {0}, NEW x \in Nat
    PROVE  (x + N) % N = x % N
<1>1. PICK q \in Nat, r \in 0..(N - 1) : x = N * q + r /\ r = x % N
  BY DivMod
<1>2. PICK y \in Nat, p \in Nat : y = x + N /\ p = q + 1
  OBVIOUS
<1>3. N * p = N * q + N
  BY <1>2
<1>4. y = N * p + r
  <2>1. x = N * q + r
    BY <1>1
  <2> QED
    BY <1>2, <1>3, <2>1
<1>5. y % N = r
  BY <1>4, ModIs
<1> QED
  BY <1>1, <1>2, <1>5

LEMMA ModNext ==
    ASSUME NEW N \in Nat \ {0}, NEW x \in Nat
    PROVE  ((x % N) + 1) % N = (x + 1) % N
<1>1. PICK q \in Nat, r \in 0..(N - 1) : x = N * q + r /\ r = x % N
  BY DivMod
<1>2. PICK y \in Nat, s \in Nat, z \in Nat, o \in Nat, p \in Nat :
         y = x + 1 /\ s = r + 1 /\ z = 0 /\ o = 1 /\ p = q + 1
  OBVIOUS
<1>3. CASE s < N
  <2>1. s \in 0..(N - 1)
    BY <1>3
  <2>2. y = N * q + s
    <3>1. x = N * q + r
      BY <1>1
    <3> QED
      BY <1>2, <3>1
  <2>3. N * z = 0
    BY <1>2
  <2>4. s = N * z + s
    BY <2>3
  <2>5. y % N = s /\ s % N = s
    BY <2>1, <2>2, <2>4, ModIs
  <2> QED
    BY <1>1, <1>2, <2>5
<1>4. CASE s = N
  <2>1. z \in 0..(N - 1)
    BY <1>2
  <2>2. N * p = N * q + N
    BY <1>2
  <2>3. y = N * p + z
    <3>1. x = N * q + r
      BY <1>1
    <3> QED
      BY <1>2, <1>4, <2>2, <3>1
  <2>4. N * o = N
    BY <1>2
  <2>5. s = N * o + z
    BY <1>2, <1>4, <2>4
  <2>6. y % N = z
    BY <2>1, <2>3, ModIs
  <2>7. s % N = z
    BY <2>1, <2>5, ModIs
  <2> QED
    BY <1>1, <1>2, <2>6, <2>7
<1>5. s <= N
  BY <1>2
<1> QED
  BY <1>3, <1>4, <1>5

LEMMA ModBelow ==
    ASSUME NEW N \in Nat \ {0}, NEW x \in 0..(N - 1)
    PROVE  x % N = x
OBVIOUS

LEMMA ModAdd ==
    ASSUME NEW N \in Nat \ {0}, NEW x \in Nat
    PROVE  ((1 % N) + x) % N = (1 + x) % N
<1>1. CASE N = 1
  BY <1>1
<1>2. CASE N # 1
  <2>1. 1 % N = 1
    BY <1>2, ModBelow
  <2> QED
    BY <2>1
<1> QED
  BY <1>1, <1>2

LEMMA ModSelf ==
    ASSUME NEW N \in Nat \ {0}
    PROVE  N % N = 0
OBVIOUS

-----------------------------------------------------------------------------
(* The learner.                                                            *)

LEMMA LearnerProcs ==
    ASSUME NEW s \in Nat
    PROVE  /\ Learner!ProcOf(s) \in Learner!Proc
           /\ Learner!ProcOf(s + NumLearners) = Learner!ProcOf(s)
           /\ Learner!ProcOf(Learner!ProcOf(s) + 1) = Learner!ProcOf(s + 1)
<1>1. NumLearners \in Nat \ {0}
  BY ProcessorsAssumption
<1>2. PICK q \in Nat, r \in 0..(NumLearners - 1) :
         s = NumLearners * q + r /\ r = s % NumLearners
  BY <1>1, DivMod
<1>3. (s + NumLearners) % NumLearners = s % NumLearners
  BY <1>1, ModShift
<1>4. ((s % NumLearners) + 1) % NumLearners = (s + 1) % NumLearners
  BY <1>1, ModNext
<1> QED
  BY <1>2, <1>3, <1>4 DEF Learner!ProcOf, Learner!Proc

LEMMA LearnerProcUnique ==
    ASSUME NEW x \in Nat, NEW y \in Nat, Learner!ProcOf(x) = Learner!ProcOf(y),
           x <= y, y < x + NumLearners
    PROVE  x = y
<1>1. NumLearners \in Nat \ {0}
  BY ProcessorsAssumption
<1> QED
  BY <1>1, ModUnique DEF Learner!ProcOf

LEMMA LearnerCardinality ==
    ASSUME NEW S
    PROVE  Learner!Cardinality(S) = Cardinality(S)
BY DEF Learner!Cardinality, Cardinality

SlotRec == [rnd : Nat, learns : SUBSET Acceptor, votes : Nat, learned : BOOLEAN,
            val : Nat]

LearnerType ==
    /\ learnChan \in [Learner!Proc -> Seq(Learner!Learn)]
    /\ tokenChan \in [Learner!Proc -> Nat]
    /\ token \in [Learner!Proc -> BOOLEAN]
    /\ nextToDecide \in [Learner!Proc -> Nat]
    /\ slots \in [Learner!Slot -> SlotRec]
    /\ decided \in Seq(Nat)
    /\ starter \in Learner!Proc \cup {Learner!Nowhere}

(* The slot of its own that each processor is to decide: NumLearners after *)
(* the one it decided when the token was there last, or its first.         *)
NextInTurn ==
    /\ \A p \in Learner!Proc : Learner!ProcOf(nextToDecide[p]) = p
    /\ starter = Learner!Nowhere =>
          \A p \in Learner!Proc : nextToDecide[p] \in 1..NumLearners
    /\ starter # Learner!Nowhere =>
          /\ \A i \in 1..Len(decided) : i + NumLearners > Len(decided) =>
                nextToDecide[Learner!ProcOf(starter + i - 1)] = decided[i] + NumLearners
          /\ \A i \in 1..NumLearners : i > Len(decided) =>
                nextToDecide[Learner!ProcOf(starter + i - 1)] \in 1..NumLearners

(* The token is where the next slot is to be decided.                      *)
TokenInTurn ==
    /\ starter = Learner!Nowhere =>
          /\ Len(decided) = 0
          /\ \A p \in Learner!Proc : tokenChan[p] = 0 /\ token[p] = FALSE
    /\ starter # Learner!Nowhere =>
          \A p \in Learner!Proc :
              IF p = Learner!ProcOf(starter + Len(decided))
              THEN \/ tokenChan[p] = 1 /\ token[p] = FALSE
                   \/ tokenChan[p] = 0 /\ token[p] = TRUE
              ELSE tokenChan[p] = 0 /\ token[p] = FALSE

(* The votes of a slot are counted once per acceptor.                      *)
VotesCounted ==
    \A s \in Learner!Slot :
        /\ slots[s].votes = Cardinality(slots[s].learns)
        /\ slots[s].learned => /\ slots[s].votes >= Learner!Quorum
                               /\ slots[s].val = slots[s].rnd

LearnerInv ==
    /\ LearnerType /\ NextInTurn /\ TokenInTurn /\ VotesCounted
    /\ Learner!InTurn

LEMMA LearnerInit == Learner!Init => LearnerInv
<1> SUFFICES ASSUME Learner!Init PROVE LearnerInv
  OBVIOUS
<1>1. PICK N \in Nat \ {0} : N = NumLearners
  BY ProcessorsAssumption
<1>2. Learner!Proc = 0..(N - 1)
  BY <1>1 DEF Learner!Proc
<1>3. Learner!NewSlot \in SlotRec
  BY DEF Learner!NewSlot, SlotRec
<1>4. LearnerType
  BY <1>1, <1>2, <1>3 DEF Learner!Init, LearnerType
<1>5. ASSUME NEW p \in Learner!Proc
      PROVE  /\ Learner!ProcOf(nextToDecide[p]) = p
             /\ 0 < nextToDecide[p] /\ nextToDecide[p] <= N
  <2>1. CASE p = 0
    <3>1. nextToDecide[p] = N
      BY <1>1, <2>1 DEF Learner!Init
    <3> QED
      BY <1>1, <2>1, <3>1, ModSelf DEF Learner!ProcOf
  <2>2. CASE p # 0
    <3>1. nextToDecide[p] = p
      BY <2>2 DEF Learner!Init
    <3>2. p \in 0..(N - 1)
      BY <1>2
    <3> QED
      BY <1>1, <2>2, <3>1, <3>2, ModBelow DEF Learner!ProcOf
  <2> QED
    BY <2>1, <2>2
<1>6. Len(decided) = 0 /\ starter = Learner!Nowhere
  BY DEF Learner!Init
<1>7. NextInTurn
  BY <1>1, <1>4, <1>5, <1>6 DEF NextInTurn, LearnerType
<1>8. TokenInTurn
  BY <1>6 DEF Learner!Init, TokenInTurn
<1>9. VotesCounted
  BY FS_EmptySet DEF Learner!Init, Learner!NewSlot, VotesCounted
<1>10. Learner!InTurn
  BY <1>6 DEF Learner!InTurn, Learner!InOrder
<1> QED
  BY <1>4, <1>7, <1>8, <1>9, <1>10 DEF LearnerInv

LEMMA Appended ==
    ASSUME NEW q \in Seq(Nat), NEW e \in Nat
    PROVE  /\ Append(q, e) \in Seq(Nat) /\ Len(Append(q, e)) = Len(q) + 1
           /\ Append(q, e)[Len(q) + 1] = e
           /\ \A i \in 1..Len(q) : Append(q, e)[i] = q[i] /\ q[i] \in Nat
OBVIOUS

(* Who has the token decides the next slot, and passes the token to the    *)
(* processor of the one after it.                                          *)
LEMMA DecidesNext ==
    ASSUME LearnerInv, starter # Learner!Nowhere, NEW p \in Learner!Proc,
           p = Learner!ProcOf(starter + Len(decided)),
           Learner!Decide(p),
           tokenChan' = [q \in Learner!Proc |->
                            IF q = Learner!ProcOf(p + 1) THEN 1 ELSE 0],
           UNCHANGED starter
    PROVE  /\ tokenChan' \in [Learner!Proc -> Nat]
           /\ token' \in [Learner!Proc -> BOOLEAN]
           /\ nextToDecide' \in [Learner!Proc -> Nat]
           /\ decided' \in Seq(Nat)
           /\ NextInTurn' /\ TokenInTurn' /\ Learner!InTurn'
<1>1. PICK N \in Nat \ {0}, L \in Nat, K \in Nat, s \in Nat, v \in Nat :
         /\ N = NumLearners /\ L = Len(decided) /\ K = L + 1 /\ s = starter
         /\ v = nextToDecide[p]
  <2>1. Len(decided) \in Nat /\ starter \in Learner!Proc /\ nextToDecide[p] \in Nat
    BY DEF LearnerInv, LearnerType
  <2>2. Len(decided) + 1 \in Nat
    BY <2>1
  <2>3. Learner!Proc \subseteq Nat
    BY ProcessorsAssumption DEF Learner!Proc
  <2> QED
    BY <2>1, <2>2, <2>3, ProcessorsAssumption
<1>2. p = Learner!ProcOf(s + K - 1) /\ Learner!ProcOf(v) = p
  <2>1. s + K - 1 = s + L
    BY <1>1
  <2> QED
    BY <1>1, <2>1 DEF LearnerInv, NextInTurn
<1>3. IF K <= N THEN v \in 1..N ELSE K - N \in 1..L /\ v = decided[K - N] + N
  <2>1. CASE K <= N
    BY <1>1, <1>2, <2>1 DEF LearnerInv, NextInTurn
  <2>2. CASE ~(K <= N)
    <3>1. PICK i \in 1..L : i = K - N
      <4>1. K - N \in 1..L
        BY <1>1, <2>2
      <4> QED
        BY <4>1
    <3>2. nextToDecide[Learner!ProcOf(s + i - 1)] = decided[i] + N
      BY <1>1, <3>1 DEF LearnerInv, NextInTurn
    <3>3. s + i - 1 \in Nat /\ s + K - 1 = (s + i - 1) + N
      BY <1>1, <3>1
    <3>4. Learner!ProcOf(s + i - 1) = p
      BY <1>1, <1>2, <3>3, LearnerProcs
    <3> QED
      BY <1>1, <2>2, <3>1, <3>2, <3>4
  <2> QED
    BY <2>1, <2>2
<1>4. /\ decided' = Append(decided, v)
      /\ nextToDecide' = [nextToDecide EXCEPT ![p] = v + N]
      /\ token' = [token EXCEPT ![p] = FALSE]
  BY <1>1 DEF Learner!Decide, LearnerInv, LearnerType
<1>5. /\ decided' \in Seq(Nat) /\ Len(decided') = K
      /\ nextToDecide' \in [Learner!Proc -> Nat]
      /\ token' \in [Learner!Proc -> BOOLEAN]
      /\ tokenChan' \in [Learner!Proc -> Nat]
  <2>1. decided \in Seq(Nat) /\ nextToDecide \in [Learner!Proc -> Nat]
        /\ token \in [Learner!Proc -> BOOLEAN]
    BY DEF LearnerInv, LearnerType
  <2>2. decided' \in Seq(Nat) /\ Len(decided') = K
    BY <1>1, <1>4, <2>1, Appended
  <2>3. v + N \in Nat
    BY <1>1
  <2>4. nextToDecide' \in [Learner!Proc -> Nat]
    BY <1>4, <2>1, <2>3
  <2>5. token' \in [Learner!Proc -> BOOLEAN]
    BY <1>4, <2>1
  <2>6. tokenChan' \in [Learner!Proc -> Nat]
    OBVIOUS
  <2> QED
    BY <2>2, <2>4, <2>5, <2>6
<1>6. decided'[K] = v /\ \A i \in 1..L : decided'[i] = decided[i] /\ decided[i] \in Nat
  <2>1. decided \in Seq(Nat)
    BY DEF LearnerInv, LearnerType
  <2> QED
    BY <1>1, <1>4, <2>1, Appended
<1>7. ASSUME NEW i \in 1..K
      PROVE  /\ Learner!ProcOf(decided'[i]) = Learner!ProcOf(s + i - 1)
             /\ IF i <= N THEN decided'[i] \in 1..N
                ELSE decided'[i] = decided'[i - N] + N
  <2>1. CASE i = K
    BY <1>1, <1>2, <1>3, <1>6, <2>1
  <2>2. CASE i # K
    <3>1. i \in 1..L
      BY <1>1, <2>2
    <3>2. /\ Learner!ProcOf(decided[i]) = Learner!ProcOf(s + i - 1)
          /\ IF i <= N THEN decided[i] \in 1..N ELSE decided[i] = decided[i - N] + N
      BY <1>1, <3>1 DEF LearnerInv, Learner!InTurn
    <3>3. i > N => i - N \in 1..L
      BY <1>1, <3>1
    <3>4. decided'[i] = decided[i] /\ (i > N => decided'[i - N] = decided[i - N])
      BY <1>6, <3>1, <3>3
    <3>5. CASE i <= N
      BY <3>2, <3>4, <3>5
    <3>6. CASE ~(i <= N)
      <4>1. i > N
        BY <1>1, <3>1, <3>6
      <4> QED
        BY <3>2, <3>4, <3>6, <4>1
    <3> QED
      BY <3>5, <3>6
  <2> QED
    BY <2>1, <2>2
<1>8. ASSUME s = Learner!ProcOf(1), NEW i \in 1..K PROVE decided'[i] = i
  <2>1. \A k \in 1..L : decided[k] = k
    BY <1>1, <1>8 DEF LearnerInv, Learner!InTurn, Learner!InOrder
  <2>2. CASE K <= N
    <3>1. Learner!ProcOf(s + L) = Learner!ProcOf(K)
      <4>1. L <= N - 1 /\ N - 1 \in Nat
        BY <1>1, <2>2
      <4>2. ((1 % N) + L) % N = (1 + L) % N
        BY <1>1, ModAdd
      <4> QED
        BY <1>1, <1>8, <4>2 DEF Learner!ProcOf
    <3>2. Learner!ProcOf(v) = Learner!ProcOf(K) /\ v \in 1..N /\ K \in 1..N
      BY <1>1, <1>2, <1>3, <2>2, <3>1
    <3>3. v = K
      <4>1. v <= K => v = K
        BY <1>1, <3>2, LearnerProcUnique
      <4>2. K <= v => v = K
        BY <1>1, <3>2, LearnerProcUnique
      <4> QED
        BY <1>1, <4>1, <4>2
    <3> QED
      BY <1>1, <1>6, <2>1, <3>3
  <2>3. CASE ~(K <= N)
    <3>1. v = K
      BY <1>1, <1>3, <2>1, <2>3
    <3> QED
      BY <1>1, <1>6, <2>1, <3>1
  <2> QED
    BY <2>2, <2>3
<1>9. Learner!InTurn'
  BY <1>1, <1>5, <1>7, <1>8 DEF Learner!InTurn, Learner!InOrder, Learner!ProcOf
<1>10. ASSUME NEW i \in Nat, i >= 1, i # K, i < K + N, K < i + N
       PROVE  /\ Learner!ProcOf(s + i - 1) \in Learner!Proc
              /\ nextToDecide'[Learner!ProcOf(s + i - 1)]
                    = nextToDecide[Learner!ProcOf(s + i - 1)]
  <2>1. s + i - 1 \in Nat /\ s + K - 1 \in Nat
    BY <1>1, <1>10
  <2>2. Learner!ProcOf(s + i - 1) \in Learner!Proc
    BY <2>1, LearnerProcs
  <2>3. Learner!ProcOf(s + i - 1) # p
    <3>1. CASE i < K
      <4>1. s + i - 1 <= s + K - 1 /\ s + K - 1 < (s + i - 1) + N
        BY <1>1, <1>10, <3>1
      <4>2. s + i - 1 # s + K - 1
        BY <1>1, <1>10
      <4> QED
        BY <1>1, <1>2, <2>1, <4>1, <4>2, LearnerProcUnique
    <3>2. CASE i > K
      <4>1. s + K - 1 <= s + i - 1 /\ s + i - 1 < (s + K - 1) + N
        BY <1>1, <1>10, <3>2
      <4>2. s + i - 1 # s + K - 1
        BY <1>1, <1>10
      <4> QED
        BY <1>1, <1>2, <2>1, <4>1, <4>2, LearnerProcUnique
    <3> QED
      BY <1>1, <1>10, <3>1, <3>2
  <2> QED
    BY <1>4, <2>2, <2>3 DEF LearnerInv, LearnerType
<1>11. NextInTurn'
  <2>1. ASSUME NEW q \in Learner!Proc PROVE Learner!ProcOf(nextToDecide'[q]) = q
    <3>1. CASE q = p
      <4>1. nextToDecide'[q] = v + N
        BY <1>4, <3>1 DEF LearnerInv, LearnerType
      <4> QED
        BY <1>1, <1>2, <3>1, <4>1, LearnerProcs
    <3>2. CASE q # p
      <4>1. nextToDecide'[q] = nextToDecide[q]
        BY <1>4, <3>2 DEF LearnerInv, LearnerType
      <4> QED
        BY <4>1 DEF LearnerInv, NextInTurn
    <3> QED
      BY <3>1, <3>2
  <2>2. ASSUME NEW i \in 1..K, i + N > K
        PROVE  nextToDecide'[Learner!ProcOf(s + i - 1)] = decided'[i] + N
    <3>1. CASE i = K
      BY <1>2, <1>4, <1>6, <3>1 DEF LearnerInv, LearnerType
    <3>2. CASE i # K
      <4>1. i \in 1..L /\ i + N > L
        BY <1>1, <2>2, <3>2
      <4>2. nextToDecide[Learner!ProcOf(s + i - 1)] = decided[i] + N
        BY <1>1, <4>1 DEF LearnerInv, NextInTurn
      <4>3. nextToDecide'[Learner!ProcOf(s + i - 1)]
               = nextToDecide[Learner!ProcOf(s + i - 1)]
        BY <1>1, <1>10, <2>2, <3>2
      <4> QED
        BY <1>6, <4>1, <4>2, <4>3
    <3> QED
      BY <3>1, <3>2
  <2>3. ASSUME NEW i \in 1..N, i > K
        PROVE  nextToDecide'[Learner!ProcOf(s + i - 1)] \in 1..N
    <3>1. nextToDecide[Learner!ProcOf(s + i - 1)] \in 1..N
      BY <1>1, <2>3 DEF LearnerInv, NextInTurn
    <3>2. nextToDecide'[Learner!ProcOf(s + i - 1)]
             = nextToDecide[Learner!ProcOf(s + i - 1)]
      BY <1>1, <1>10, <2>3
    <3> QED
      BY <3>1, <3>2
  <2> QED
    BY <1>1, <1>5, <2>1, <2>2, <2>3 DEF NextInTurn, Learner!ProcOf, Learner!Nowhere,
       Learner!Proc
<1>12. Learner!ProcOf(p + 1) = Learner!ProcOf(s + K)
  <2>1. s + L \in Nat /\ s + K = (s + L) + 1 /\ p = Learner!ProcOf(s + L)
    BY <1>1
  <2> QED
    BY <2>1, LearnerProcs
<1>13. TokenInTurn'
  <2>1. ASSUME NEW q \in Learner!Proc PROVE token'[q] = FALSE
    BY <1>1, <1>4 DEF LearnerInv, LearnerType, TokenInTurn
  <2> QED
    BY <1>1, <1>5, <1>12, <2>1 DEF TokenInTurn, Learner!ProcOf, Learner!Nowhere,
       Learner!Proc
<1> QED
  BY <1>5, <1>9, <1>11, <1>13

LEMMA LearnerDispatches ==
    ASSUME LearnerInv, NEW m \in Learner!Learn, Learner!Dispatch(m)
    PROVE  LearnerInv'
<1>1. PICK p : p = Learner!ProcOf(m.slot)
  OBVIOUS
<1>2. /\ learnChan' = [learnChan EXCEPT ![p] = Append(@, m)]
      /\ tokenChan' = IF starter = Learner!Nowhere THEN [tokenChan EXCEPT ![p] = @ + 1]
                      ELSE tokenChan
      /\ starter' = IF starter = Learner!Nowhere THEN p ELSE starter
      /\ UNCHANGED <<token, nextToDecide, slots, decided>>
  BY <1>1 DEF Learner!Dispatch
<1>3. p \in Learner!Proc
  <2>1. m.slot \in Nat
    BY ProcessorsAssumption DEF Learner!Learn, Learner!Slot
  <2> QED
    BY <1>1, <2>1, LearnerProcs
<1>4. p \in Nat /\ p # Learner!Nowhere /\ Learner!ProcOf(p) = p /\ p + 0 = p
  <2>1. NumLearners \in Nat \ {0} /\ p \in 0..(NumLearners - 1)
    BY <1>3, ProcessorsAssumption DEF Learner!Proc
  <2> QED
    BY <2>1, ModBelow DEF Learner!ProcOf, Learner!Nowhere
<1>5. LearnerType'
  <2>1. Append(learnChan[p], m) \in Seq(Learner!Learn)
    BY <1>3 DEF LearnerInv, LearnerType
  <2>2. learnChan' \in [Learner!Proc -> Seq(Learner!Learn)]
    BY <1>2, <2>1 DEF LearnerInv, LearnerType
  <2>3. tokenChan' \in [Learner!Proc -> Nat]
    <3>1. tokenChan[p] + 1 \in Nat /\ tokenChan \in [Learner!Proc -> Nat]
      BY <1>3 DEF LearnerInv, LearnerType
    <3> QED
      BY <1>2, <3>1
  <2> QED
    BY <1>2, <1>3, <2>2, <2>3 DEF LearnerInv, LearnerType
<1>6. TokenInTurn'
  <2>1. CASE starter = Learner!Nowhere
    <3>1. Len(decided) = 0 /\ starter' = p /\ p = Learner!ProcOf(p + Len(decided))
      BY <1>2, <1>4, <2>1 DEF LearnerInv, TokenInTurn
    <3>2. ASSUME NEW q \in Learner!Proc
          PROVE  tokenChan'[q] = (IF q = p THEN 1 ELSE 0) /\ token'[q] = FALSE
      BY <1>2, <1>3, <2>1 DEF LearnerInv, LearnerType, TokenInTurn
    <3> QED
      BY <1>2, <1>4, <3>1, <3>2 DEF TokenInTurn, Learner!ProcOf, Learner!Nowhere,
         Learner!Proc
  <2>2. CASE starter # Learner!Nowhere
    BY <1>2, <2>2 DEF LearnerInv, TokenInTurn, Learner!ProcOf, Learner!Nowhere,
       Learner!Proc
  <2> QED
    BY <2>1, <2>2
<1>7. VotesCounted'
  BY <1>2 DEF LearnerInv, VotesCounted, Learner!Quorum
<1>8. NextInTurn' /\ Learner!InTurn'
  <2>1. CASE starter # Learner!Nowhere
    BY <1>2, <2>1 DEF LearnerInv, NextInTurn, Learner!InTurn, Learner!InOrder,
       Learner!ProcOf, Learner!Nowhere, Learner!Proc
  <2>2. CASE starter = Learner!Nowhere
    <3>1. Len(decided') = 0 /\ starter' = p
      BY <1>2, <2>2 DEF LearnerInv, TokenInTurn
    <3>2. \A q \in Learner!Proc : /\ Learner!ProcOf(nextToDecide'[q]) = q
                                 /\ nextToDecide'[q] \in 1..NumLearners
      BY <1>2, <2>2 DEF LearnerInv, NextInTurn
    <3>3. ASSUME NEW i \in 1..NumLearners
          PROVE  Learner!ProcOf(p + i - 1) \in Learner!Proc
      <4>1. p + i - 1 \in Nat
        BY <1>4, ProcessorsAssumption
      <4> QED
        BY <4>1, LearnerProcs
    <3>4. NextInTurn'
      BY <1>4, <3>1, <3>2, <3>3 DEF NextInTurn, Learner!ProcOf, Learner!Nowhere,
         Learner!Proc
    <3>5. Learner!InTurn'
      BY <3>1 DEF Learner!InTurn, Learner!InOrder
    <3> QED
      BY <3>4, <3>5
  <2> QED
    BY <2>1, <2>2
<1> QED
  BY <1>5, <1>6, <1>7, <1>8 DEF LearnerInv

(* Whoever has or receives the token: a learn has come, and it is for the  *)
(* next slot.                                                              *)
LEMMA TokenHolder ==
    ASSUME LearnerInv, NEW p \in Learner!Proc, tokenChan[p] > 0 \/ token[p]
    PROVE  /\ starter # Learner!Nowhere /\ p = Learner!ProcOf(starter + Len(decided))
           /\ \/ tokenChan[p] = 1 /\ token[p] = FALSE
              \/ tokenChan[p] = 0 /\ token[p] = TRUE
           /\ \A q \in Learner!Proc \ {p} : tokenChan[q] = 0 /\ token[q] = FALSE
BY DEF LearnerInv, TokenInTurn

LEMMA LearnerReceivesToken ==
    ASSUME LearnerInv, NEW p \in Learner!Proc, Learner!ReceiveToken(p)
    PROVE  LearnerInv'
<1>1. /\ tokenChan[p] > 0
      /\ UNCHANGED <<starter, learnChan, slots>>
  BY DEF Learner!ReceiveToken
<1>2. /\ starter # Learner!Nowhere /\ p = Learner!ProcOf(starter + Len(decided))
      /\ tokenChan[p] = 1 /\ token[p] = FALSE
      /\ \A q \in Learner!Proc \ {p} : tokenChan[q] = 0 /\ token[q] = FALSE
  <2>1. /\ starter # Learner!Nowhere /\ p = Learner!ProcOf(starter + Len(decided))
        /\ \/ tokenChan[p] = 1 /\ token[p] = FALSE
           \/ tokenChan[p] = 0 /\ token[p] = TRUE
        /\ \A q \in Learner!Proc \ {p} : tokenChan[q] = 0 /\ token[q] = FALSE
    BY <1>1, TokenHolder, Zenon
  <2>2. tokenChan[p] # 0
    BY <1>1
  <2> QED
    BY <2>1, <2>2, Zenon
<1>3. VotesCounted'
  BY <1>1 DEF LearnerInv, VotesCounted, Learner!Quorum
<1>4. PICK chan \in [Learner!Proc -> Nat] :
        /\ chan = [tokenChan EXCEPT ![p] = @ - 1]
        /\ \A q \in Learner!Proc : chan[q] = 0
  <2>1. [tokenChan EXCEPT ![p] = @ - 1] \in [Learner!Proc -> Nat]
    BY <1>2 DEF LearnerInv, LearnerType
  <2>2. \A q \in Learner!Proc : [tokenChan EXCEPT ![p] = @ - 1][q] = 0
    BY <1>2 DEF LearnerInv, LearnerType
  <2> QED
    BY <2>1, <2>2
<1>5. CASE Learner!Decide(p) /\ tokenChan' = Learner!PassToken(chan, p)
  <2>1. Learner!ProcOf(p + 1) \in Learner!Proc
    <3>1. p + 1 \in Nat
      BY ProcessorsAssumption DEF Learner!Proc
    <3> QED
      BY <3>1, LearnerProcs
  <2>2. tokenChan' = [q \in Learner!Proc |-> IF q = Learner!ProcOf(p + 1) THEN 1 ELSE 0]
    <3>1. PICK k \in Learner!Proc : k = Learner!ProcOf(p + 1)
      BY <2>1
    <3>2. tokenChan' = [chan EXCEPT ![k] = chan[k] + 1] /\ chan[k] + 1 = 1
      BY <1>4, <1>5, <3>1 DEF Learner!PassToken
    <3> QED
      BY <1>4, <3>1, <3>2
  <2> QED
    BY <1>1, <1>2, <1>3, <1>5, <2>2, DecidesNext DEF LearnerInv, LearnerType
<1>6. CASE /\ token' = [token EXCEPT ![p] = TRUE]
           /\ tokenChan' = chan
           /\ UNCHANGED <<decided, nextToDecide>>
  <2>1. LearnerType'
    BY <1>1, <1>6 DEF LearnerInv, LearnerType
  <2>2. ASSUME NEW q \in Learner!Proc
        PROVE  tokenChan'[q] = 0 /\ token'[q] = (IF q = p THEN TRUE ELSE token[q])
    BY <1>4, <1>6 DEF LearnerInv, LearnerType
  <2>3. TokenInTurn'
    BY <1>1, <1>2, <1>6, <2>2 DEF TokenInTurn
  <2>4. NextInTurn' /\ Learner!InTurn'
    BY <1>1, <1>6 DEF LearnerInv, NextInTurn, Learner!InTurn, Learner!InOrder,
       Learner!ProcOf, Learner!Nowhere, Learner!Proc
  <2> QED
    BY <1>3, <2>1, <2>3, <2>4 DEF LearnerInv
<1> QED
  BY <1>4, <1>5, <1>6 DEF Learner!ReceiveToken

LEMMA SlotUpdate ==
    ASSUME NEW slot \in SlotRec, NEW r \in Nat, NEW L \in SUBSET Acceptor,
           NEW n \in Nat
    PROVE  [slot EXCEPT !.rnd = r, !.learns = L, !.votes = n] \in SlotRec
BY DEF SlotRec

(* Counting a learn that is not ignored.                                   *)
LEMMA CountsVote ==
    ASSUME NEW slot \in SlotRec, NEW m \in Learner!Learn,
           slot.votes = Cardinality(slot.learns), ~Learner!Ignored(slot, m)
    PROVE  /\ Learner!Counted(slot, m) \in SlotRec
           /\ Learner!Counted(slot, m).votes
                 = Cardinality(Learner!Counted(slot, m).learns)
           /\ Learner!Counted(slot, m).learned = FALSE
           /\ Learner!Counted(slot, m).rnd = m.rnd
<1>1. /\ m.rnd \in Nat /\ m.id \in Acceptor
      /\ slot.learned = FALSE /\ slot.learns \subseteq Acceptor
      /\ slot.rnd \in Nat /\ slot.votes \in Nat
      /\ slot.rnd <= m.rnd /\ (slot.rnd = m.rnd => m.id \notin slot.learns)
  BY AcceptorAssumption DEF Learner!Learn, Learner!Round, SlotRec, Learner!Ignored
<1>2. CASE m.rnd > slot.rnd
  <2>1. Learner!Counted(slot, m)
          = [slot EXCEPT !.rnd = m.rnd, !.learns = {m.id}, !.votes = 1]
    BY <1>2 DEF Learner!Counted
  <2>2. Cardinality({m.id}) = 1
    BY FS_Singleton
  <2>3. Learner!Counted(slot, m) \in SlotRec
    <3>1. m.rnd \in Nat /\ {m.id} \in SUBSET Acceptor /\ 1 \in Nat
      BY <1>1
    <3>2. [slot EXCEPT !.rnd = m.rnd, !.learns = {m.id}, !.votes = 1] \in SlotRec
      BY <3>1, SlotUpdate, Zenon
    <3> QED
      BY <2>1, <3>2, Zenon
  <2>4. /\ Learner!Counted(slot, m).votes = 1
        /\ Learner!Counted(slot, m).learns = {m.id}
        /\ Learner!Counted(slot, m).rnd = m.rnd
        /\ Learner!Counted(slot, m).learned = slot.learned
    BY <2>1 DEF SlotRec
  <2> QED
    BY <1>1, <2>2, <2>3, <2>4
<1>3. CASE ~(m.rnd > slot.rnd)
  <2>1. Learner!Counted(slot, m)
          = [slot EXCEPT !.rnd = m.rnd, !.learns = slot.learns \cup {m.id},
                         !.votes = slot.votes + 1]
    BY <1>3 DEF Learner!Counted
  <2>2. m.id \notin slot.learns
    BY <1>1, <1>3
  <2>3. IsFiniteSet(slot.learns)
    BY <1>1, ProcessorsAssumption, FS_Subset
  <2>4. Cardinality(slot.learns \cup {m.id}) = slot.votes + 1
    BY <2>2, <2>3, FS_AddElement
  <2>5. Learner!Counted(slot, m) \in SlotRec
    <3>1. /\ m.rnd \in Nat /\ slot.learns \cup {m.id} \in SUBSET Acceptor
          /\ slot.votes + 1 \in Nat
      BY <1>1
    <3>2. [slot EXCEPT !.rnd = m.rnd, !.learns = slot.learns \cup {m.id},
                       !.votes = slot.votes + 1] \in SlotRec
      BY <3>1, SlotUpdate, Zenon
    <3> QED
      BY <2>1, <3>2, Zenon
  <2>6. /\ Learner!Counted(slot, m).votes = slot.votes + 1
        /\ Learner!Counted(slot, m).learns = slot.learns \cup {m.id}
        /\ Learner!Counted(slot, m).rnd = m.rnd
        /\ Learner!Counted(slot, m).learned = slot.learned
    BY <2>1 DEF SlotRec
  <2> QED
    BY <1>1, <2>4, <2>5, <2>6
<1> QED
  BY <1>2, <1>3

LEMMA LearnerHandlesLearn ==
    ASSUME LearnerInv, NEW p \in Learner!Proc, Learner!HandleLearn(p)
    PROVE  LearnerInv'
<1>1. PICK q \in Seq(Learner!Learn) : q = learnChan[p] /\ q # << >>
  BY DEF Learner!HandleLearn, LearnerInv, LearnerType
<1>2. PICK m \in Learner!Learn, t \in Seq(Learner!Learn) : m = Head(q) /\ t = Tail(q)
  <2>1. Head(q) \in Learner!Learn /\ Tail(q) \in Seq(Learner!Learn)
    BY <1>1
  <2> QED
    BY <2>1
<1>3. PICK s \in Learner!Slot, slot \in SlotRec :
         /\ s = m.slot /\ slot = slots[s]
         /\ slot.votes = Cardinality(slot.learns)
  BY DEF Learner!Learn, LearnerInv, LearnerType, VotesCounted
<1>4. PICK ignored, quorum, counted :
         /\ ignored = Learner!Ignored(slot, m)
         /\ counted = Learner!Counted(slot, m)
         /\ quorum = (~Learner!Ignored(slot, m) /\ counted.votes >= Learner!Quorum)
  OBVIOUS
<1>5. /\ learnChan' = [learnChan EXCEPT ![p] = t]
      /\ UNCHANGED starter
  BY <1>1, <1>2 DEF Learner!HandleLearn
<1>6. /\ slots' = [slots EXCEPT ![s] =
              CASE Learner!Ignored(slot, m) -> slot
                [] ~Learner!Ignored(slot, m) /\ counted.votes >= Learner!Quorum
                      -> [counted EXCEPT !.learned = TRUE, !.val = m.rnd]
                [] OTHER -> counted]
  BY <1>1, <1>2, <1>3, <1>4 DEF Learner!HandleLearn
<1>7. \/ token[p] /\ Learner!Decide(p) /\ tokenChan' = Learner!PassToken(tokenChan, p)
      \/ UNCHANGED <<decided, nextToDecide, token, tokenChan>>
  BY DEF Learner!HandleLearn
<1>8. PICK new \in SlotRec :
         /\ slots' = [slots EXCEPT ![s] = new]
         /\ new.votes = Cardinality(new.learns)
         /\ new.learned => new.votes >= Learner!Quorum /\ new.val = new.rnd
  <2>1. CASE Learner!Ignored(slot, m)
    BY <1>3, <1>6, <2>1 DEF LearnerInv, VotesCounted
  <2>2. CASE ~Learner!Ignored(slot, m)
    <3>1. /\ counted \in SlotRec /\ counted.votes = Cardinality(counted.learns)
          /\ counted.learned = FALSE /\ counted.rnd = m.rnd
      BY <1>3, <1>4, <2>2, CountsVote
    <3>2. m.rnd \in Nat
      BY AcceptorAssumption DEF Learner!Learn, Learner!Round
    <3>3. CASE counted.votes >= Learner!Quorum
      <4>1. PICK n : n = [counted EXCEPT !.learned = TRUE, !.val = m.rnd]
        OBVIOUS
      <4>2. /\ n \in SlotRec /\ n.votes = counted.votes
            /\ n.learns = counted.learns /\ n.val = m.rnd /\ n.rnd = m.rnd
        BY <3>1, <3>2, <4>1 DEF SlotRec
      <4>3. slots' = [slots EXCEPT ![s] = n]
        BY <1>6, <2>2, <3>3, <4>1
      <4> QED
        BY <3>1, <3>3, <4>2, <4>3
    <3>4. CASE ~(counted.votes >= Learner!Quorum)
      <4>1. slots' = [slots EXCEPT ![s] = counted]
        BY <1>6, <2>2, <3>4
      <4> QED
        BY <3>1, <4>1
    <3> QED
      BY <3>3, <3>4
  <2> QED
    BY <2>1, <2>2
<1>9. /\ slots' \in [Learner!Slot -> SlotRec]
      /\ learnChan' \in [Learner!Proc -> Seq(Learner!Learn)]
  BY <1>5, <1>8 DEF LearnerInv, LearnerType
<1>10. VotesCounted'
  <2>1. ASSUME NEW x \in Learner!Slot
        PROVE  /\ slots'[x].votes = Cardinality(slots'[x].learns)
               /\ slots'[x].learned => /\ slots'[x].votes >= Learner!Quorum
                                       /\ slots'[x].val = slots'[x].rnd
    <3>1. CASE x = s
      BY <1>8, <3>1 DEF LearnerInv, LearnerType
    <3>2. CASE x # s
      BY <1>8, <3>2 DEF LearnerInv, LearnerType, VotesCounted
    <3> QED
      BY <3>1, <3>2
  <2> QED
    BY <2>1 DEF VotesCounted, Learner!Quorum
<1>11. CASE token[p] /\ Learner!Decide(p) /\ tokenChan' = Learner!PassToken(tokenChan, p)
  <2>1. /\ starter # Learner!Nowhere /\ p = Learner!ProcOf(starter + Len(decided))
        /\ tokenChan[p] = 0
        /\ \A k \in Learner!Proc \ {p} : tokenChan[k] = 0 /\ token[k] = FALSE
    <3>1. /\ starter # Learner!Nowhere /\ p = Learner!ProcOf(starter + Len(decided))
          /\ \/ tokenChan[p] = 1 /\ token[p] = FALSE
             \/ tokenChan[p] = 0 /\ token[p] = TRUE
          /\ \A k \in Learner!Proc \ {p} : tokenChan[k] = 0 /\ token[k] = FALSE
      BY <1>11, TokenHolder, Zenon
    <3> QED
      BY <1>11, <3>1, Zenon
  <2>2. PICK k \in Learner!Proc : k = Learner!ProcOf(p + 1)
    <3>1. p + 1 \in Nat
      BY ProcessorsAssumption DEF Learner!Proc
    <3> QED
      BY <3>1, LearnerProcs
  <2>3. tokenChan[k] = 0 /\ tokenChan \in [Learner!Proc -> Nat]
    BY <2>1 DEF LearnerInv, LearnerType
  <2>4. tokenChan' = [tokenChan EXCEPT ![k] = tokenChan[k] + 1] /\ tokenChan[k] + 1 = 1
    BY <1>11, <2>2, <2>3 DEF Learner!PassToken
  <2>5. tokenChan' = [r \in Learner!Proc |-> IF r = Learner!ProcOf(p + 1) THEN 1 ELSE 0]
    BY <2>1, <2>2, <2>3, <2>4
  <2> QED
    BY <1>5, <1>9, <1>10, <1>11, <2>1, <2>5, DecidesNext DEF LearnerInv, LearnerType
<1>12. CASE UNCHANGED <<decided, nextToDecide, token, tokenChan>>
  <2>1. LearnerType'
    BY <1>5, <1>9, <1>12 DEF LearnerInv, LearnerType, Learner!Nowhere, Learner!Proc
  <2>2. NextInTurn' /\ TokenInTurn' /\ Learner!InTurn'
    BY <1>5, <1>12 DEF LearnerInv, NextInTurn, TokenInTurn, Learner!InTurn,
       Learner!InOrder, Learner!ProcOf, Learner!Nowhere, Learner!Proc
  <2> QED
    BY <1>10, <2>1, <2>2 DEF LearnerInv
<1> QED
  BY <1>7, <1>11, <1>12

LEMMA LearnerStep == LearnerInv /\ [Learner!Next]_learnerVars => LearnerInv'
<1> SUFFICES ASSUME LearnerInv, [Learner!Next]_learnerVars PROVE LearnerInv'
  OBVIOUS
<1>1. CASE UNCHANGED learnerVars
  BY <1>1 DEF learnerVars, LearnerInv, LearnerType, NextInTurn, TokenInTurn,
              VotesCounted, Learner!InTurn, Learner!InOrder, Learner!Quorum,
              Learner!ProcOf, Learner!Nowhere, Learner!Proc
<1>2. CASE Learner!Next
  BY <1>2, LearnerDispatches, LearnerReceivesToken, LearnerHandlesLearn
     DEF Learner!Next
<1> QED
  BY <1>1, <1>2

LEMMA InvDelivers == LearnerInv => DeliversInTurn
<1> SUFFICES ASSUME LearnerInv PROVE DeliversInTurn
  OBVIOUS
<1>1. Learner!InTurn
  BY DEF LearnerInv
<1>2. Learner!OneToken
  <2> SUFFICES ASSUME starter # Learner!Nowhere
               PROVE  \E p \in Learner!Proc :
                          /\ tokenChan[p] + (IF token[p] THEN 1 ELSE 0) = 1
                          /\ \A q \in Learner!Proc \ {p} : tokenChan[q] = 0 /\ ~token[q]
    BY DEF Learner!OneToken
  <2>1. PICK p \in Learner!Proc : p = Learner!ProcOf(starter + Len(decided))
    <3>1. starter + Len(decided) \in Nat
      BY ProcessorsAssumption DEF LearnerInv, LearnerType, Learner!Proc
    <3> QED
      BY <3>1, LearnerProcs
  <2>2. /\ \/ tokenChan[p] = 1 /\ token[p] = FALSE
           \/ tokenChan[p] = 0 /\ token[p] = TRUE
        /\ \A q \in Learner!Proc \ {p} : tokenChan[q] = 0 /\ ~token[q]
    BY <2>1 DEF LearnerInv, TokenInTurn
  <2> QED
    BY <2>2
<1>3. Learner!LearnedByQuorum
  BY LearnerCardinality DEF LearnerInv, VotesCounted, Learner!LearnedByQuorum
<1> QED
  BY <1>1, <1>2, <1>3 DEF DeliversInTurn

(* The processors of ParallelPaxos's learner deliver in turn, with one     *)
(* token, each its own slots without a gap and each slot learned from a    *)
(* quorum of one round (learner.go), wherever the first learn makes the    *)
(* token; in the order of the slots if that is where slot 1 is handled.    *)
(* For any number of processors, acceptors, slots and rounds.              *)
THEOREM DeliversInTurnTheorem == Learner!Spec => []DeliversInTurn
<1>1. LearnerInv /\ [Learner!Next]_(Learner!vars) => LearnerInv'
  BY LearnerStep DEF learnerVars, Learner!vars
<1> QED
  BY <1>1, LearnerInit, InvDelivers, PTL DEF Learner!Spec

-----------------------------------------------------------------------------
(* The proposer.                                                           *)

LEMMA UintIs ==
    ASSUME NEW n \in Nat
    PROVE  /\ Proposer!Uint(n) \in Nat /\ Proposer!Uint(n) <= n
           /\ n <= MaxRequests + 1 => Proposer!Uint(n) = n
<1>1. PICK U \in Nat \ {0} : U = UintSize /\ MaxRequests + 1 < U
  BY RequestsAssumption
<1>2. PICK q \in Nat, r \in 0..(U - 1) : n = U * q + r /\ r = n % U
  BY DivMod
<1>3. U * q >= 0
  OBVIOUS
<1>4. n = U * q + r
  BY <1>2
<1>5. r <= n
  BY <1>3, <1>4
<1>6. n <= MaxRequests + 1 => n % U = n
  <2> SUFFICES ASSUME n <= MaxRequests + 1 PROVE n % U = n
    OBVIOUS
  <2>1. n \in 0..(U - 1)
    BY <1>1, RequestsAssumption
  <2> QED
    BY <2>1, ModBelow
<1> QED
  BY <1>1, <1>2, <1>5, <1>6 DEF Proposer!Uint

LEMMA ProposerProcs ==
    ASSUME NEW s \in Nat
    PROVE  /\ Proposer!ProcOf(s) \in Proposer!Proc
           /\ Proposer!ProcOf(s + NumProposers) = Proposer!ProcOf(s)
<1>1. NumProposers \in Nat \ {0}
  BY ProcessorsAssumption
<1>2. PICK q \in Nat, r \in 0..(NumProposers - 1) :
         s = NumProposers * q + r /\ r = s % NumProposers
  BY <1>1, DivMod
<1>3. (s + NumProposers) % NumProposers = s % NumProposers
  BY <1>1, ModShift
<1> QED
  BY <1>2, <1>3 DEF Proposer!ProcOf, Proposer!Proc

LEMMA ProposerProcUnique ==
    ASSUME NEW x \in Nat, NEW y \in Nat, Proposer!ProcOf(x) = Proposer!ProcOf(y),
           x <= y, y < x + NumProposers
    PROVE  x = y
<1>1. NumProposers \in Nat \ {0}
  BY ProcessorsAssumption
<1> QED
  BY <1>1, ModUnique DEF Proposer!ProcOf

(* The slots for which an accept was sent, among those of the requests.    *)
Sent == {s \in 1..requests : s < pnext[Proposer!ProcOf(s)]}

Command == [upTo : Nat, crnd : Nat]

(* What a command allows: a request for each slot, and slots in the window *)
(* of alpha.                                                               *)
Covered(upTo) == upTo <= requests /\ upTo <= slotsDecided + Alpha

ProposerType ==
    /\ requests \in Nat /\ requests <= MaxRequests
    /\ next \in Nat /\ reqQueueLength \in Nat
    /\ reqQueue \in Seq(Nat)
    /\ slotsDecided \in Nat /\ adu \in Nat /\ adu <= slotsDecided
    /\ crnd \in Nat
    /\ pnext \in [Proposer!Proc -> Nat]
    /\ command \in [Proposer!Proc -> Command]

(* next and reqQueueLength count the requests that came, next from 1 on.   *)
RequestsCounted == next + reqQueueLength = requests + 1

CommandsCovered ==
    /\ \A m \in sendAccepts :
          /\ m.proc \in Proposer!Proc /\ m.upTo \in Nat /\ m.crnd \in Nat
          /\ Covered(m.upTo)
    /\ \A p \in Proposer!Proc :
          command[p] # Proposer!NoCommand =>
              pnext[p] <= command[p].upTo /\ Covered(command[p].upTo)

WindowKept ==
    /\ \A m \in advanceChan : m.adu \in Nat /\ m.adu <= slotsDecided
    /\ \A a \in accepts : a.slot \in Nat /\ a.slot <= slotsDecided + Alpha

(* Each processor goes through its own slots, none beyond the requests.    *)
SlotsInTurn ==
    \A p \in Proposer!Proc :
        /\ pnext[p] > 0 /\ pnext[p] <= requests + NumProposers
        /\ Proposer!ProcOf(pnext[p]) = p

(* An accept took a request, and the others are in the queue.              *)
QueueHolds == Len(reqQueue) + Cardinality(Sent) = requests

ProposerInv ==
    /\ ProposerType /\ RequestsCounted /\ CommandsCovered /\ WindowKept
    /\ SlotsInTurn /\ QueueHolds

LEMMA SentFinite ==
    ASSUME requests \in Nat
    PROVE  IsFiniteSet(Sent) /\ Cardinality(Sent) \in Nat
<1>1. IsFiniteSet(1..requests)
  <2>1. PICK a \in Int, b \in Int : a = 1 /\ b = requests
    OBVIOUS
  <2> QED
    BY <2>1, FS_Interval
<1>2. Sent \subseteq 1..requests
  BY DEF Sent
<1> QED
  BY <1>1, <1>2, FS_Subset, FS_CardinalityType

(* demuxerSignalToSendAccepts, when R requests have come.                  *)
LEMMA Signals ==
    ASSUME ProposerInv, NEW a \in Nat, NEW len \in Nat, NEW R \in Nat, NEW rnd0,
           R <= MaxRequests, next + len = R + 1,
           Proposer!SignalToSendAccepts(a, len, rnd0)
    PROVE  \E u \in Nat :
              /\ u <= R /\ u <= a + Alpha
              /\ sendAccepts' = sendAccepts \cup
                    {[proc |-> p, upTo |-> u, crnd |-> rnd0] : p \in Proposer!Proc}
              /\ next' = u
              /\ reqQueueLength' \in Nat
              /\ next' + reqQueueLength' = R + 1
<1>1. next \in Nat /\ Alpha \in Nat /\ MaxRequests \in Nat
  BY RequestsAssumption DEF ProposerInv, ProposerType
<1>2. next + len - 1 = R
  BY <1>1
<1>3. Proposer!Uint(next + len - 1) = R
  BY <1>1, <1>2, UintIs
<1>4. PICK w \in Nat : w = Proposer!Uint(a + Alpha) /\ w <= a + Alpha
  <2>1. a + Alpha \in Nat
    BY <1>1
  <2> QED
    BY <2>1, UintIs
<1>5. PICK u \in Nat : u = (IF w < R THEN w ELSE R) /\ u <= R /\ u <= a + Alpha
  BY <1>1, <1>4
<1>6. /\ sendAccepts' = sendAccepts \cup
            {[proc |-> p, upTo |-> u, crnd |-> rnd0] : p \in Proposer!Proc}
      /\ reqQueueLength' = Proposer!Uint(len - (u - next))
      /\ next' = Proposer!Uint(next + (u - next))
  BY <1>3, <1>4, <1>5 DEF Proposer!SignalToSendAccepts
<1>7. PICK k \in Nat : k = R + 1 - u /\ k <= MaxRequests + 1
  <2>1. u <= R
    BY <1>5
  <2>2. R + 1 - u \in Nat /\ R + 1 - u <= MaxRequests + 1
    BY <1>1, <2>1
  <2> QED
    BY <2>2
<1>8. len - (u - next) = k /\ next + (u - next) = u /\ u <= MaxRequests + 1
  BY <1>1, <1>5, <1>7
<1>9. reqQueueLength' = k /\ next' = u
  BY <1>6, <1>7, <1>8, UintIs
<1> QED
  BY <1>5, <1>6, <1>7, <1>9

LEMMA ProposerInit == Proposer!Init => ProposerInv
<1> SUFFICES ASSUME Proposer!Init PROVE ProposerInv
  OBVIOUS
<1>1. PICK N \in Nat \ {0} : N = NumProposers
  BY ProcessorsAssumption
<1>2. Proposer!Proc = 0..(N - 1)
  BY <1>1 DEF Proposer!Proc
<1>3. Proposer!NoCommand \in Command
  BY DEF Proposer!NoCommand, Command
<1>4. ProposerType
  BY <1>1, <1>2, <1>3, RequestsAssumption DEF Proposer!Init, ProposerType
<1>5. ASSUME NEW p \in Proposer!Proc
      PROVE  /\ Proposer!ProcOf(pnext[p]) = p
             /\ 0 < pnext[p] /\ pnext[p] <= 0 + N
  <2>1. CASE p = 0
    <3>1. pnext[p] = N
      BY <1>1, <2>1 DEF Proposer!Init
    <3> QED
      BY <1>1, <2>1, <3>1, ModSelf DEF Proposer!ProcOf
  <2>2. CASE p # 0
    <3>1. pnext[p] = p
      BY <2>2 DEF Proposer!Init
    <3>2. p \in 0..(N - 1)
      BY <1>2
    <3> QED
      BY <1>1, <2>2, <3>1, <3>2, ModBelow DEF Proposer!ProcOf
  <2> QED
    BY <2>1, <2>2
<1>6. SlotsInTurn
  BY <1>1, <1>5 DEF SlotsInTurn, Proposer!Init
<1>7. RequestsCounted /\ WindowKept
  BY DEF Proposer!Init, RequestsCounted, WindowKept
<1>8. CommandsCovered
  BY DEF Proposer!Init, CommandsCovered
<1>9. QueueHolds
  <2>1. Sent = {}
    BY DEF Proposer!Init, Sent
  <2> QED
    BY <2>1, FS_EmptySet DEF Proposer!Init, QueueHolds
<1> QED
  BY <1>4, <1>6, <1>7, <1>8, <1>9 DEF ProposerInv

LEMMA InvQueueSuffices == ProposerInv => QueueSuffices
<1> SUFFICES ASSUME ProposerInv PROVE QueueSuffices
  OBVIOUS
<1>1. ASSUME NEW p \in Proposer!Proc, command[p] # Proposer!NoCommand
      PROVE  reqQueue # << >>
  <2>1. PICK k \in Nat : k = pnext[p] /\ k > 0 /\ k <= requests
                         /\ Proposer!ProcOf(k) = p
    BY <1>1 DEF ProposerInv, ProposerType, SlotsInTurn, CommandsCovered, Covered,
                Command
  <2>2. requests \in Nat /\ Len(reqQueue) + Cardinality(Sent) = requests
    BY DEF ProposerInv, ProposerType, QueueHolds
  <2>3. PICK I : I = 1..requests
    OBVIOUS
  <2>4. IsFiniteSet(I) /\ Cardinality(I) = requests
    <3>1. PICK a \in Int, b \in Int : a = 1 /\ b = requests
      BY <2>2
    <3> QED
      BY <2>2, <2>3, <3>1, FS_Interval
  <2>5. k \in I /\ k \notin Sent /\ Sent \subseteq I
    BY <2>1, <2>2, <2>3 DEF Sent
  <2>6. Sent # I
    BY <2>5
  <2>7. Cardinality(Sent) < Cardinality(I)
    <3>1. Cardinality(Sent) <= Cardinality(I) /\ Cardinality(Sent) # Cardinality(I)
      BY <2>4, <2>5, <2>6, FS_Subset
    <3> QED
      BY <2>2, <2>4, <3>1, SentFinite
  <2> QED
    BY <2>2, <2>4, <2>7, SentFinite
<1>2. Proposer!AlphaRespected
  BY DEF ProposerInv, WindowKept, Proposer!AlphaRespected
<1> QED
  BY <1>1, <1>2 DEF QueueSuffices, Proposer!QueueSuffices

(* A step of the demuxer: at most a command is given, for requests that    *)
(* have come and slots up to alpha after adu.                              *)
LEMMA DemuxerStep ==
    ASSUME ProposerInv,
           UNCHANGED <<requests, reqQueue, pnext, command, accepts, slotsDecided>>,
           crnd' \in Nat,
           adu' \in Nat, adu' <= slotsDecided,
           advanceChan' \subseteq advanceChan,
           \/ UNCHANGED <<sendAccepts, next, reqQueueLength>>
           \/ Proposer!SignalToSendAccepts(adu', reqQueueLength, crnd)
    PROVE  ProposerInv'
<1>1. /\ requests \in Nat /\ requests <= MaxRequests /\ reqQueueLength \in Nat
      /\ slotsDecided \in Nat /\ crnd \in Nat
      /\ next + reqQueueLength = requests + 1 /\ Alpha \in Nat
  BY RequestsAssumption DEF ProposerInv, ProposerType, RequestsCounted
<1>2. SlotsInTurn' /\ QueueHolds' /\ WindowKept'
  BY DEF ProposerInv, SlotsInTurn, QueueHolds, Sent, WindowKept
<1>3. CASE UNCHANGED <<sendAccepts, next, reqQueueLength>>
  <2>1. ProposerType' /\ RequestsCounted' /\ CommandsCovered'
    BY <1>3 DEF ProposerInv, ProposerType, RequestsCounted, CommandsCovered, Covered
  <2> QED
    BY <1>2, <2>1 DEF ProposerInv
<1>4. CASE Proposer!SignalToSendAccepts(adu', reqQueueLength, crnd)
  <2>1. PICK a \in Nat, R \in Nat : a = adu' /\ R = requests
    BY <1>1
  <2>2. PICK u \in Nat :
              /\ u <= R /\ u <= a + Alpha
              /\ sendAccepts' = sendAccepts \cup
                    {[proc |-> p, upTo |-> u, crnd |-> crnd] : p \in Proposer!Proc}
              /\ next' = u
              /\ reqQueueLength' \in Nat
              /\ next' + reqQueueLength' = R + 1
    <3>1. PICK len \in Nat : len = reqQueueLength
      BY <1>1
    <3>2. Proposer!SignalToSendAccepts(a, len, crnd)
      BY <1>4, <2>1, <3>1
    <3>3. R <= MaxRequests /\ next + len = R + 1
      BY <1>1, <2>1, <3>1
    <3> QED
      BY <3>2, <3>3, Signals
  <2>3. ProposerType' /\ RequestsCounted'
    BY <2>1, <2>2 DEF ProposerInv, ProposerType, RequestsCounted
  <2>4. u <= requests /\ u <= slotsDecided + Alpha
    <3>1. PICK d \in Nat, al \in Nat : d = slotsDecided /\ al = Alpha /\ a <= d
      BY <1>1, <2>1
    <3>2. u <= a + al
      BY <2>2, <3>1
    <3>3. u <= d + al
      BY <3>1, <3>2
    <3> QED
      BY <2>1, <2>2, <3>1, <3>3
  <2>5. CommandsCovered'
    <3>1. ASSUME NEW m \in sendAccepts'
          PROVE  /\ m.proc \in Proposer!Proc /\ m.upTo \in Nat /\ m.crnd \in Nat
                 /\ m.upTo <= requests' /\ m.upTo <= slotsDecided' + Alpha
      <4>1. CASE m \in sendAccepts
        BY <4>1 DEF ProposerInv, CommandsCovered, Covered
      <4>2. CASE m \notin sendAccepts
        <5>1. PICK p \in Proposer!Proc : m = [proc |-> p, upTo |-> u, crnd |-> crnd]
          BY <2>2, <4>2
        <5> QED
          BY <1>1, <2>4, <5>1
      <4> QED
        BY <4>1, <4>2
    <3>2. ASSUME NEW p \in Proposer!Proc, command'[p] # Proposer!NoCommand
          PROVE  /\ pnext'[p] <= command'[p].upTo
                 /\ command'[p].upTo <= requests'
                 /\ command'[p].upTo <= slotsDecided' + Alpha
      BY <3>2 DEF ProposerInv, CommandsCovered, Covered
    <3> QED
      BY <3>1, <3>2 DEF CommandsCovered, Covered, Proposer!NoCommand
  <2> QED
    BY <1>2, <2>3, <2>5 DEF ProposerInv
<1> QED
  BY <1>3, <1>4

LEMMA HandlesTrust ==
    ASSUME ProposerInv, NEW me \in BOOLEAN,
           Proposer!HandleTrust(me) \/ Proposer!HandlePhaseTick
    PROVE  ProposerInv'
<1>1. crnd \in Nat /\ adu \in Nat /\ adu <= slotsDecided
  BY DEF ProposerInv, ProposerType
<1>2. /\ UNCHANGED <<requests, reqQueue, pnext, command, accepts, slotsDecided,
                     adu, advanceChan, sendAccepts, next, reqQueueLength>>
      /\ crnd' = crnd + 1 \/ crnd' = crnd
  BY DEF Proposer!HandleTrust, Proposer!HandlePhaseTick, Proposer!StartPhase1,
         Proposer!processor
<1> QED
  BY <1>1, <1>2, DemuxerStep

LEMMA HandlesPromise ==
    ASSUME ProposerInv, NEW a, NEW report, Proposer!HandlePromise(a, report)
    PROVE  ProposerInv'
<1>1. crnd \in Nat /\ adu \in Nat /\ adu <= slotsDecided
  BY DEF ProposerInv, ProposerType
<1>2. UNCHANGED <<requests, reqQueue, pnext, command, accepts, slotsDecided,
                  adu, advanceChan, crnd>>
  BY DEF Proposer!HandlePromise
<1>3. \/ UNCHANGED <<sendAccepts, next, reqQueueLength>>
      \/ Proposer!SignalToSendAccepts(adu, reqQueueLength, crnd)
  BY DEF Proposer!HandlePromise
<1>4. \/ UNCHANGED <<sendAccepts, next, reqQueueLength>>
      \/ Proposer!SignalToSendAccepts(adu', reqQueueLength, crnd)
  BY <1>2, <1>3
<1> QED
  BY <1>1, <1>2, <1>4, DemuxerStep

LEMMA HandlesAdvance ==
    ASSUME ProposerInv, NEW m \in advanceChan, Proposer!HandleAdvance(m)
    PROVE  ProposerInv'
<1>1. /\ crnd \in Nat /\ adu \in Nat /\ adu <= slotsDecided
      /\ m.adu \in Nat /\ m.adu <= slotsDecided
  BY DEF ProposerInv, ProposerType, WindowKept
<1>2. /\ UNCHANGED <<requests, reqQueue, pnext, command, accepts, slotsDecided, crnd>>
      /\ advanceChan' \subseteq advanceChan
  BY DEF Proposer!HandleAdvance, Proposer!processor
<1>3. \/ UNCHANGED <<adu, sendAccepts, next, reqQueueLength>>
      \/ adu' = m.adu /\ UNCHANGED <<sendAccepts, next, reqQueueLength>>
      \/ adu' = m.adu /\ Proposer!SignalToSendAccepts(m.adu, reqQueueLength, crnd)
  BY DEF Proposer!HandleAdvance
<1>4. /\ adu' \in Nat /\ adu' <= slotsDecided
      /\ \/ UNCHANGED <<sendAccepts, next, reqQueueLength>>
         \/ Proposer!SignalToSendAccepts(adu', reqQueueLength, crnd)
  BY <1>1, <1>3
<1> QED
  BY <1>1, <1>2, <1>4, DemuxerStep

(* A request comes: it is counted and stored, and its slot has no accept.  *)
LEMMA HandlesRequest ==
    ASSUME ProposerInv, Proposer!HandleNewRequest
    PROVE  ProposerInv'
<1>1. PICK R \in Nat, N \in Nat \ {0} :
         R = requests /\ R <= MaxRequests /\ N = NumProposers
  BY ProcessorsAssumption DEF ProposerInv, ProposerType
<1>2. /\ UNCHANGED <<crnd, adu, pnext, command, advanceChan, accepts, slotsDecided>>
  BY DEF Proposer!HandleNewRequest, Proposer!processor
<1>3. CASE isLeader /\ Len(reqQueue) < QueueSize
  <2>1. PICK S \in Nat : S = R + 1 /\ S = requests' /\ S <= MaxRequests
    BY <1>1, <1>3, RequestsAssumption DEF Proposer!HandleNewRequest
  <2>2. /\ reqQueue' \in Seq(Nat) /\ Len(reqQueue') = Len(reqQueue) + 1
    <3>1. reqQueue' = Append(reqQueue, S) /\ reqQueue \in Seq(Nat)
      BY <1>3, <2>1 DEF Proposer!HandleNewRequest, ProposerInv, ProposerType
    <3> QED
      BY <3>1
  <2>3. PICK len \in Nat : len = reqQueueLength + 1 /\ next + len = S + 1
    <3>1. reqQueueLength \in Nat /\ next \in Nat /\ next + reqQueueLength = R + 1
      BY <1>1 DEF ProposerInv, ProposerType, RequestsCounted
    <3> QED
      BY <2>1, <3>1
  <2>4. \/ reqQueueLength' = len /\ UNCHANGED <<next, sendAccepts>>
        \/ Proposer!SignalToSendAccepts(adu, len, crnd)
    BY <1>3, <2>3 DEF Proposer!HandleNewRequest
  <2>5. PICK u \in Nat :
           /\ u <= S /\ u <= adu + Alpha
           /\ \/ sendAccepts' = sendAccepts
              \/ sendAccepts' = sendAccepts \cup
                    {[proc |-> p, upTo |-> u, crnd |-> crnd] : p \in Proposer!Proc}
           /\ next' \in Nat /\ reqQueueLength' \in Nat
           /\ next' + reqQueueLength' = S + 1
    <3>1. adu \in Nat /\ next \in Nat
      BY DEF ProposerInv, ProposerType
    <3>2. CASE reqQueueLength' = len /\ UNCHANGED <<next, sendAccepts>>
      <4>1. PICK z \in Nat : z = 0 /\ z <= S /\ z <= adu + Alpha
        BY <3>1, RequestsAssumption
      <4> QED
        BY <2>3, <3>1, <3>2, <4>1
    <3>3. CASE Proposer!SignalToSendAccepts(adu, len, crnd)
      <4>1. PICK u \in Nat :
              /\ u <= S /\ u <= adu + Alpha
              /\ sendAccepts' = sendAccepts \cup
                    {[proc |-> p, upTo |-> u, crnd |-> crnd] : p \in Proposer!Proc}
              /\ next' = u
              /\ reqQueueLength' \in Nat
              /\ next' + reqQueueLength' = S + 1
        BY <2>1, <2>3, <3>1, <3>3, Signals
      <4> QED
        BY <4>1
    <3> QED
      BY <2>4, <3>2, <3>3
  <2>6. ProposerType' /\ RequestsCounted'
    <3>1. slotsDecided' \in Nat /\ adu' <= slotsDecided'
      BY <1>2 DEF ProposerInv, ProposerType
    <3> QED
      BY <1>2, <2>1, <2>2, <2>5, <3>1 DEF ProposerInv, ProposerType, RequestsCounted
  <2>7. slotsDecided \in Nat /\ crnd \in Nat /\ adu \in Nat /\ adu <= slotsDecided
    BY DEF ProposerInv, ProposerType
  <2>8. ASSUME NEW x \in Nat, Covered(x) PROVE Covered(x)'
    <3>1. x <= R /\ x <= slotsDecided + Alpha /\ R <= S
      BY <1>1, <2>1, <2>8 DEF Covered
    <3>2. x <= S
      BY <3>1
    <3> QED
      BY <1>2, <2>1, <3>1, <3>2 DEF Covered
  <2>9. Covered(u)'
    <3>1. PICK al \in Nat, a \in Nat, d \in Nat :
             al = Alpha /\ a = adu /\ d = slotsDecided /\ a <= d
      BY <2>7, RequestsAssumption
    <3>2. u <= a + al
      BY <2>5, <3>1
    <3>3. u <= d + al
      BY <3>1, <3>2
    <3> QED
      BY <1>2, <2>1, <2>5, <3>1, <3>3 DEF Covered
  <2>10. CommandsCovered'
    <3>1. ASSUME NEW m \in sendAccepts'
          PROVE  /\ m.proc \in Proposer!Proc /\ m.upTo \in Nat /\ m.crnd \in Nat
                 /\ Covered(m.upTo)'
      <4>1. CASE m \in sendAccepts
        BY <2>8, <4>1 DEF ProposerInv, CommandsCovered
      <4>2. CASE m \notin sendAccepts
        <5>1. PICK p \in Proposer!Proc : m = [proc |-> p, upTo |-> u, crnd |-> crnd]
          BY <2>5, <4>2
        <5>2. m.upTo = u
          BY <5>1
        <5> QED
          BY <2>7, <2>9, <5>1, <5>2
      <4> QED
        BY <4>1, <4>2
    <3>2. ASSUME NEW p \in Proposer!Proc, command[p] # Proposer!NoCommand
          PROVE  pnext'[p] <= command'[p].upTo /\ Covered(command[p].upTo)'
      <4>1. PICK x \in Nat : x = command[p].upTo /\ pnext[p] <= x /\ Covered(x)
        BY <3>2 DEF ProposerInv, ProposerType, Command, CommandsCovered
      <4>2. Covered(x)'
        BY <2>8, <4>1
      <4> QED
        BY <1>2, <4>1, <4>2 DEF Covered
    <3> QED
      BY <1>2, <3>1, <3>2 DEF CommandsCovered, Proposer!NoCommand
  <2>11. WindowKept'
    BY <1>2 DEF ProposerInv, WindowKept
  <2>12. SlotsInTurn'
    <3>1. ASSUME NEW p \in Proposer!Proc
          PROVE  pnext[p] > 0 /\ pnext[p] <= S + N /\ Proposer!ProcOf(pnext[p]) = p
      <4>1. pnext[p] \in Nat /\ pnext[p] <= R + N
        BY <1>1 DEF ProposerInv, ProposerType, SlotsInTurn
      <4> QED
        BY <2>1, <4>1 DEF ProposerInv, SlotsInTurn
    <3> QED
      BY <1>1, <1>2, <2>1, <3>1 DEF SlotsInTurn
  <2>13. Sent' = Sent
    <3>1. PICK p \in Proposer!Proc, k \in Nat :
             /\ p = Proposer!ProcOf(S) /\ k = pnext[p] /\ k <= R + N
             /\ Proposer!ProcOf(k) = p
      BY <1>1, ProposerProcs DEF ProposerInv, ProposerType, SlotsInTurn
    <3>2. ~(S < k)
      <4> SUFFICES ASSUME S < k PROVE FALSE
        OBVIOUS
      <4>1. S <= k /\ k < S + N
        BY <1>1, <2>1, <3>1
      <4>2. S = k
        BY <1>1, <3>1, <4>1, ProposerProcUnique
      <4> QED
        BY <4>2
    <3>3. ASSUME NEW s \in 1..S, s < pnext[Proposer!ProcOf(s)] PROVE s \in 1..R
      <4>1. s # S
        BY <3>1, <3>2, <3>3
      <4> QED
        BY <2>1, <4>1
    <3>4. ASSUME NEW s \in 1..R PROVE s \in 1..S
      BY <2>1
    <3> QED
      BY <1>1, <1>2, <2>1, <3>3, <3>4 DEF Sent
  <2>14. QueueHolds'
    <3>1. /\ Len(reqQueue) + Cardinality(Sent) = R /\ Len(reqQueue) \in Nat
          /\ Cardinality(Sent) \in Nat
      BY <1>1, SentFinite DEF ProposerInv, ProposerType, QueueHolds
    <3> QED
      BY <2>1, <2>2, <2>13, <3>1 DEF QueueHolds
  <2> QED
    BY <2>6, <2>10, <2>11, <2>12, <2>14 DEF ProposerInv
<1>4. CASE ~(isLeader /\ Len(reqQueue) < QueueSize)
  <2>1. UNCHANGED <<requests, reqQueue, reqQueueLength, next, sendAccepts>>
    BY <1>4 DEF Proposer!HandleNewRequest
  <2>2. crnd \in Nat /\ adu \in Nat /\ adu <= slotsDecided
    BY DEF ProposerInv, ProposerType
  <2> QED
    BY <1>2, <2>1, <2>2, DemuxerStep
<1> QED
  BY <1>3, <1>4

(* A slot is decided: the window moves on.                                 *)
LEMMA HandlesDecided ==
    ASSUME ProposerInv, NEW s \in Proposer!Slot, Proposer!HandleDecided(s)
    PROVE  ProposerInv'
<1>1. PICK D \in Nat, E \in Nat : /\ D = slotsDecided /\ E = D + 1
                                 /\ s = E /\ slotsDecided' = E
  BY DEF Proposer!HandleDecided, ProposerInv, ProposerType
<1>2. UNCHANGED <<requests, next, reqQueueLength, reqQueue, adu, crnd, pnext,
                  command, sendAccepts, accepts>>
  BY DEF Proposer!HandleDecided, Proposer!demuxer
<1>3. \/ UNCHANGED advanceChan
      \/ \E p : advanceChan' = advanceChan \cup {[proc |-> p, adu |-> E]}
  BY <1>1 DEF Proposer!HandleDecided
<1>4. ProposerType' /\ RequestsCounted' /\ SlotsInTurn' /\ QueueHolds'
  BY <1>1, <1>2 DEF ProposerInv, ProposerType, RequestsCounted, SlotsInTurn,
     QueueHolds, Sent
<1>5. ASSUME NEW x \in Nat, x <= D + Alpha PROVE x <= E + Alpha
  <2>1. PICK a \in Nat : a = Alpha
    BY RequestsAssumption
  <2> QED
    BY <1>1, <1>5, <2>1
<1>6. WindowKept'
  <2>1. ASSUME NEW m \in advanceChan' PROVE m.adu \in Nat /\ m.adu <= E
    <3>1. CASE m \in advanceChan
      BY <1>1, <3>1 DEF ProposerInv, WindowKept
    <3>2. CASE m \notin advanceChan
      BY <1>1, <1>3, <3>2
    <3> QED
      BY <3>1, <3>2
  <2>2. ASSUME NEW a \in accepts PROVE a.slot \in Nat /\ a.slot <= E + Alpha
    BY <1>1, <1>5 DEF ProposerInv, WindowKept
  <2> QED
    BY <1>1, <1>2, <2>1, <2>2 DEF WindowKept
<1>7. CommandsCovered'
  <2>1. ASSUME NEW m \in sendAccepts
        PROVE  /\ m.proc \in Proposer!Proc /\ m.upTo \in Nat /\ m.crnd \in Nat
               /\ m.upTo <= requests /\ m.upTo <= E + Alpha
    BY <1>1, <1>5 DEF ProposerInv, CommandsCovered, Covered
  <2>2. ASSUME NEW p \in Proposer!Proc, command[p] # Proposer!NoCommand
        PROVE  /\ pnext[p] <= command[p].upTo
               /\ command[p].upTo <= requests /\ command[p].upTo <= E + Alpha
    <3>1. PICK x \in Nat : x = command[p].upTo /\ pnext[p] <= x /\ Covered(x)
      BY <2>2 DEF ProposerInv, ProposerType, Command, CommandsCovered
    <3> QED
      BY <1>1, <1>5, <3>1 DEF Covered
  <2> QED
    BY <1>1, <1>2, <2>1, <2>2 DEF CommandsCovered, Covered, Proposer!NoCommand
<1> QED
  BY <1>4, <1>6, <1>7 DEF ProposerInv

(* A processor takes a command.                                            *)
LEMMA TakesCommand ==
    ASSUME ProposerInv, NEW m \in sendAccepts, Proposer!TakeCommand(m)
    PROVE  ProposerInv'
<1>1. /\ UNCHANGED <<requests, next, reqQueueLength, reqQueue, adu, crnd, pnext,
                     advanceChan, accepts, slotsDecided>>
      /\ sendAccepts' \subseteq sendAccepts
  BY DEF Proposer!TakeCommand, Proposer!demuxer
<1>2. PICK q \in Proposer!Proc, c \in Command :
         /\ q = m.proc /\ command' = [command EXCEPT ![q] = c]
         /\ c # Proposer!NoCommand => pnext[q] <= c.upTo /\ Covered(c.upTo)
  <2>1. m.proc \in Proposer!Proc /\ m.upTo \in Nat /\ m.crnd \in Nat /\ Covered(m.upTo)
    BY DEF ProposerInv, CommandsCovered
  <2>2. CASE pnext[m.proc] <= m.upTo
    <3>1. PICK c : c = [upTo |-> m.upTo, crnd |-> m.crnd]
      OBVIOUS
    <3>2. c \in Command /\ c.upTo = m.upTo
      BY <2>1, <3>1 DEF Command
    <3>3. command' = [command EXCEPT ![m.proc] = c]
      BY <2>2, <3>1 DEF Proposer!TakeCommand
    <3> QED
      BY <2>1, <2>2, <3>2, <3>3
  <2>3. CASE ~(pnext[m.proc] <= m.upTo)
    <3>1. Proposer!NoCommand \in Command
      BY DEF Proposer!NoCommand, Command
    <3>2. command' = [command EXCEPT ![m.proc] = Proposer!NoCommand]
      BY <2>3 DEF Proposer!TakeCommand
    <3> QED
      BY <2>1, <3>1, <3>2
  <2> QED
    BY <2>2, <2>3
<1>3. ProposerType' /\ RequestsCounted' /\ SlotsInTurn' /\ QueueHolds' /\ WindowKept'
  BY <1>1, <1>2 DEF ProposerInv, ProposerType, RequestsCounted, SlotsInTurn,
     QueueHolds, Sent, WindowKept
<1>4. CommandsCovered'
  <2>1. ASSUME NEW n \in sendAccepts'
        PROVE  /\ n.proc \in Proposer!Proc /\ n.upTo \in Nat /\ n.crnd \in Nat
               /\ Covered(n.upTo)
    BY <1>1 DEF ProposerInv, CommandsCovered
  <2>2. ASSUME NEW p \in Proposer!Proc, command'[p] # Proposer!NoCommand
        PROVE  pnext[p] <= command'[p].upTo /\ Covered(command'[p].upTo)
    <3>1. CASE p = q
      BY <1>2, <2>2, <3>1 DEF ProposerInv, ProposerType
    <3>2. CASE p # q
      BY <1>2, <2>2, <3>2 DEF ProposerInv, ProposerType, CommandsCovered
    <3> QED
      BY <3>1, <3>2
  <2> QED
    BY <1>1, <2>1, <2>2 DEF CommandsCovered, Covered, Proposer!NoCommand
<1> QED
  BY <1>3, <1>4 DEF ProposerInv

(* A processor sends an accept for its next slot, and takes a request for  *)
(* it: the slot joins those that had one.                                  *)
LEMMA SendsAccept ==
    ASSUME ProposerInv, NEW p \in Proposer!Proc, Proposer!SendAccept(p)
    PROVE  ProposerInv'
<1>1. PICK R \in Nat, N \in Nat \ {0}, k \in Nat, j \in Nat, c \in Command :
         /\ R = requests /\ N = NumProposers /\ k = pnext[p] /\ j = k + N
         /\ c = command[p] /\ c # Proposer!NoCommand
  <2>1. requests \in Nat /\ pnext[p] \in Nat /\ command[p] \in Command
    BY DEF ProposerInv, ProposerType
  <2>2. NumProposers \in Nat \ {0}
    BY ProcessorsAssumption
  <2>3. command[p] # Proposer!NoCommand
    BY DEF Proposer!SendAccept
  <2>4. pnext[p] + NumProposers \in Nat
    BY <2>1, <2>2
  <2> QED
    BY <2>1, <2>2, <2>3, <2>4
<1>2. PICK u \in Nat : u = c.upTo /\ k <= u /\ Covered(u)
  BY <1>1 DEF ProposerInv, CommandsCovered, Command
<1>3. k <= R /\ k <= slotsDecided + Alpha
  <2>1. PICK d \in Nat : d = slotsDecided + Alpha
    BY RequestsAssumption DEF ProposerInv, ProposerType
  <2>2. u <= R /\ u <= d
    BY <1>1, <1>2, <2>1 DEF Covered
  <2>3. k <= R /\ k <= d
    BY <1>2, <2>2
  <2> QED
    BY <2>1, <2>3
<1>4. k > 0 /\ Proposer!ProcOf(k) = p /\ Proposer!ProcOf(j) = p
  <2>1. k > 0 /\ Proposer!ProcOf(k) = p
    BY <1>1 DEF ProposerInv, SlotsInTurn
  <2> QED
    BY <1>1, <2>1, ProposerProcs
<1>5. /\ UNCHANGED <<requests, next, reqQueueLength, adu, crnd, advanceChan,
                     sendAccepts, slotsDecided>>
      /\ reqQueue # << >> /\ reqQueue' = Tail(reqQueue)
      /\ pnext' = [pnext EXCEPT ![p] = j]
  BY <1>1 DEF Proposer!SendAccept, Proposer!demuxer
<1>6. pnext \in [Proposer!Proc -> Nat] /\ command \in [Proposer!Proc -> Command]
  BY DEF ProposerInv, ProposerType
<1>7. PICK e \in Command :
         /\ command' = [command EXCEPT ![p] = e]
         /\ e # Proposer!NoCommand => e = c /\ j <= u
  <2>1. pnext'[p] = j
    BY <1>5, <1>6
  <2>2. CASE j <= u
    <3>1. command' = [command EXCEPT ![p] = c]
      BY <1>1, <1>2, <2>1, <2>2 DEF Proposer!SendAccept
    <3> QED
      BY <2>2, <3>1
  <2>3. CASE ~(j <= u)
    <3>1. command' = [command EXCEPT ![p] = Proposer!NoCommand]
      BY <1>1, <1>2, <2>1, <2>3 DEF Proposer!SendAccept
    <3>2. Proposer!NoCommand \in Command
      BY DEF Proposer!NoCommand, Command
    <3> QED
      BY <3>1, <3>2
  <2> QED
    BY <2>2, <2>3
<1>8. reqQueue' \in Seq(Nat) /\ Len(reqQueue) \in Nat /\ Len(reqQueue') = Len(reqQueue) - 1
  <2>1. reqQueue \in Seq(Nat)
    BY DEF ProposerInv, ProposerType
  <2> QED
    BY <1>5, <2>1
<1>9. ProposerType' /\ RequestsCounted'
  BY <1>5, <1>6, <1>7, <1>8 DEF ProposerInv, ProposerType, RequestsCounted
<1>10. CommandsCovered'
  <2>1. ASSUME NEW m \in sendAccepts
        PROVE  /\ m.proc \in Proposer!Proc /\ m.upTo \in Nat /\ m.crnd \in Nat
               /\ Covered(m.upTo)
    BY DEF ProposerInv, CommandsCovered
  <2>2. ASSUME NEW q \in Proposer!Proc, command'[q] # Proposer!NoCommand
        PROVE  pnext'[q] <= command'[q].upTo /\ Covered(command'[q].upTo)
    <3>1. CASE q = p
      <4>1. command'[q] = c /\ j <= u /\ pnext'[q] = j
        BY <1>5, <1>6, <1>7, <2>2, <3>1
      <4> QED
        BY <1>2, <4>1
    <3>2. CASE q # p
      <4>1. command'[q] = command[q] /\ pnext'[q] = pnext[q]
        BY <1>5, <1>6, <1>7, <3>2
      <4> QED
        BY <2>2, <4>1 DEF ProposerInv, CommandsCovered
    <3> QED
      BY <3>1, <3>2
  <2> QED
    BY <1>5, <2>1, <2>2 DEF CommandsCovered, Covered, Proposer!NoCommand
<1>11. WindowKept'
  <2>1. ASSUME NEW a \in accepts'
        PROVE  a.slot \in Nat /\ a.slot <= slotsDecided + Alpha
    <3>1. CASE a \in accepts
      BY <3>1 DEF ProposerInv, WindowKept
    <3>2. CASE a \notin accepts
      <4>1. a.slot = k
        BY <1>1, <3>2 DEF Proposer!SendAccept
      <4> QED
        BY <1>3, <4>1
    <3> QED
      BY <3>1, <3>2
  <2>2. ASSUME NEW m \in advanceChan PROVE m.adu \in Nat /\ m.adu <= slotsDecided
    BY DEF ProposerInv, WindowKept
  <2> QED
    BY <1>5, <2>1, <2>2 DEF WindowKept
<1>12. SlotsInTurn'
  <2>1. ASSUME NEW q \in Proposer!Proc
        PROVE  /\ pnext'[q] > 0 /\ pnext'[q] <= R + N
               /\ Proposer!ProcOf(pnext'[q]) = q
    <3>1. CASE q = p
      <4>1. pnext'[q] = j
        BY <1>5, <1>6, <3>1
      <4>2. j > 0 /\ j <= R + N
        BY <1>1, <1>3
      <4> QED
        BY <1>4, <3>1, <4>1, <4>2
    <3>2. CASE q # p
      <4>1. pnext'[q] = pnext[q]
        BY <1>5, <1>6, <3>2
      <4> QED
        BY <1>1, <4>1 DEF ProposerInv, SlotsInTurn
    <3> QED
      BY <3>1, <3>2
  <2> QED
    BY <1>1, <1>5, <2>1 DEF SlotsInTurn, Proposer!ProcOf
<1>13. k \notin Sent /\ Sent' = Sent \cup {k}
  <2>1. k \notin Sent
    BY <1>1, <1>4 DEF Sent
  <2>2. ASSUME NEW s \in 1..R
        PROVE  s < pnext'[Proposer!ProcOf(s)] <=>
                   s < pnext[Proposer!ProcOf(s)] \/ s = k
    <3>1. PICK q \in Proposer!Proc : q = Proposer!ProcOf(s)
      BY ProposerProcs
    <3>2. CASE q # p
      <4>1. pnext'[q] = pnext[q] /\ s # k
        BY <1>4, <1>5, <1>6, <3>1, <3>2
      <4> QED
        BY <3>1, <4>1
    <3>3. CASE q = p
      <4>1. pnext'[q] = j /\ pnext[q] = k
        BY <1>1, <1>5, <1>6, <3>3
      <4>2. s < j => s < k \/ s = k
        <5> SUFFICES ASSUME s < j, ~(s < k) PROVE s = k
          OBVIOUS
        <5>1. s \in Nat /\ k <= s /\ s < k + N
          BY <1>1
        <5> QED
          BY <1>1, <1>4, <3>1, <3>3, <5>1, ProposerProcUnique
      <4>3. s < k \/ s = k => s < j
        BY <1>1
      <4> QED
        BY <3>1, <4>1, <4>2, <4>3
    <3> QED
      BY <3>2, <3>3
  <2>3. k \in 1..R
    BY <1>3, <1>4
  <2>4. Sent = {s \in 1..R : s < pnext[Proposer!ProcOf(s)]}
    BY <1>1 DEF Sent
  <2>5. Sent' = {s \in 1..R : s < pnext'[Proposer!ProcOf(s)]}
    BY <1>1, <1>5 DEF Sent, Proposer!ProcOf
  <2> QED
    BY <2>1, <2>2, <2>3, <2>4, <2>5
<1>14. QueueHolds'
  <2>1. /\ Len(reqQueue) + Cardinality(Sent) = R
        /\ IsFiniteSet(Sent) /\ Cardinality(Sent) \in Nat
    BY <1>1, SentFinite DEF ProposerInv, ProposerType, QueueHolds
  <2>2. Cardinality(Sent \cup {k}) = Cardinality(Sent) + 1
    BY <1>13, <2>1, FS_AddElement
  <2>3. Len(reqQueue') + Cardinality(Sent') = R
    BY <1>8, <1>13, <2>1, <2>2
  <2> QED
    BY <1>1, <1>5, <2>3 DEF QueueHolds
<1> QED
  BY <1>9, <1>10, <1>11, <1>12, <1>14 DEF ProposerInv

LEMMA ProposerStep ==
    ProposerInv /\ [Proposer!Next]_proposerVars => ProposerInv'
<1> SUFFICES ASSUME ProposerInv, [Proposer!Next]_proposerVars PROVE ProposerInv'
  OBVIOUS
<1>1. CASE UNCHANGED proposerVars
  BY <1>1 DEF proposerVars, ProposerInv, ProposerType, RequestsCounted,
     CommandsCovered, Covered, WindowKept, SlotsInTurn, QueueHolds, Sent
<1>2. CASE \/ \E me \in BOOLEAN : Proposer!HandleTrust(me)
           \/ Proposer!HandlePhaseTick
  BY <1>2, HandlesTrust
<1>3. CASE \E a \in Acceptor, r \in Proposer!Report : Proposer!HandlePromise(a, r)
  BY <1>3, HandlesPromise
<1>4. CASE Proposer!HandleNewRequest
  BY <1>4, HandlesRequest
<1>5. CASE \E m \in advanceChan : Proposer!HandleAdvance(m)
  BY <1>5, HandlesAdvance
<1>6. CASE \E s \in Proposer!Slot : Proposer!HandleDecided(s)
  BY <1>6, HandlesDecided
<1>7. CASE \E m \in sendAccepts : Proposer!TakeCommand(m)
  BY <1>7, TakesCommand
<1>8. CASE \E p \in Proposer!Proc : Proposer!SendAccept(p)
  BY <1>8, SendsAccept
<1> QED
  BY <1>1, <1>2, <1>3, <1>4, <1>5, <1>6, <1>7, <1>8 DEF Proposer!Next

(* A processor that is to send an accept finds a request in the queue it   *)
(* shares with the others, and its slot is at most alpha beyond what is    *)
(* decided: for any number of processors, requests and promises, whenever  *)
(* the commands of demuxerSignalToSendAccepts and the messages of the      *)
(* processors arrive, as long as the requests can be counted in a uint.    *)
THEOREM QueueSufficesTheorem == Proposer!Spec => []QueueSuffices
<1>1. [Proposer!Next]_(Proposer!vars) => [Proposer!Next]_proposerVars
  BY DEF Proposer!vars, Proposer!demuxer, Proposer!processor, proposerVars
<1> QED
  BY <1>1, ProposerInit, ProposerStep, InvQueueSuffices, PTL DEF Proposer!Spec
-----------------------------------------------------------------------------
(* Sequences put together.                                                 *)

LEMMA AllNaturals ==
    ASSUME NEW S \in SUBSET Nat, 0 \in S, \A n \in S : n + 1 \in S
    PROVE  S = Nat
<1> SUFFICES ASSUME Nat \ S # {} PROVE FALSE
  OBVIOUS
<1>1. PICK n \in Nat \ S : \A k \in Nat \ S : ~(<<k, n>> \in OpToRel(<, Nat))
  <2>1. Nat \ S \subseteq Nat
    OBVIOUS
  <2> QED
    BY <2>1, NatLessThanWellFounded, WFMin
<1>2. n # 0 /\ n \in Nat /\ n \notin S
  OBVIOUS
<1>3. PICK m \in Nat : n = m + 1
  <2>1. n - 1 \in Nat /\ n = (n - 1) + 1
    BY <1>2
  <2> QED
    BY <2>1
<1>4. m < n
  BY <1>3
<1>5. m \in S
  BY <1>1, <1>4 DEF OpToRel
<1> QED
  BY <1>2, <1>3, <1>5

(* The function in FlattenSeq, for s.                                      *)
Flattens(f, s) ==
    \A i \in 1..Len(s) : f[i] = IF i = 1 THEN s[i] ELSE f[i - 1] \o s[i]

LEMMA FlattensAt ==
    ASSUME NEW s, NEW f, Flattens(f, s), NEW n \in Nat \ {0}, n + 1 \in 1..Len(s)
    PROVE  f[n + 1] = f[n] \o s[n + 1]
<1>1. PICK k \in 1..Len(s) : k = n + 1
  OBVIOUS
<1>2. k # 1 /\ k - 1 = n
  BY <1>1
<1>3. f[k] = f[k - 1] \o s[k]
  BY <1>2 DEF Flattens
<1> QED
  BY <1>1, <1>2, <1>3

LEMMA FlattensType ==
    ASSUME NEW T, NEW s \in Seq(Seq(T)), NEW f, Flattens(f, s)
    PROVE  \A i \in 1..Len(s) : f[i] \in Seq(T)
<1> DEFINE S == {n \in Nat : n \in 1..Len(s) => f[n] \in Seq(T)}
<1>1. Len(s) \in Nat /\ \A i \in 1..Len(s) : s[i] \in Seq(T)
  BY LenProperties, ElementOfSeq
<1>2. ASSUME NEW n \in S PROVE n + 1 \in S
  <2> SUFFICES ASSUME n + 1 \in 1..Len(s) PROVE f[n + 1] \in Seq(T)
    OBVIOUS
  <2>1. n \in Nat
    OBVIOUS
  <2>2. CASE n = 0
    BY <1>1, <2>2 DEF Flattens
  <2>3. CASE n # 0
    <3>1. n \in 1..Len(s) /\ f[n] \in Seq(T) /\ s[n + 1] \in Seq(T)
      BY <1>1, <2>1, <2>3
    <3>2. f[n + 1] = f[n] \o s[n + 1]
      BY <2>1, <2>3, FlattensAt
    <3> QED
      BY <3>1, <3>2, ConcatProperties
  <2> QED
    BY <2>2, <2>3
<1>3. 0 \in S
  OBVIOUS
<1> HIDE DEF S
<1>4. S = Nat
  <2>1. S \in SUBSET Nat
    BY DEF S
  <2> QED
    BY <1>2, <1>3, <2>1, AllNaturals
<1>5. \A n \in Nat : n \in 1..Len(s) => f[n] \in Seq(T)
  BY <1>4, Zenon DEF S
<1> QED
  BY <1>1, <1>5

(* Functions for two sequences agree where the sequences do.               *)
LEMMA FlattensAgree ==
    ASSUME NEW T, NEW s \in Seq(T), NEW t \in Seq(T), Len(s) <= Len(t),
           NEW f, NEW g, Flattens(f, s), Flattens(g, t),
           \A i \in 1..Len(s) : s[i] = t[i]
    PROVE  \A i \in 1..Len(s) : f[i] = g[i]
<1> DEFINE S == {n \in Nat : n \in 1..Len(s) => f[n] = g[n]}
<1> USE LenProperties
<1>1. ASSUME NEW n \in S PROVE n + 1 \in S
  <2> SUFFICES ASSUME n + 1 \in 1..Len(s) PROVE f[n + 1] = g[n + 1]
    OBVIOUS
  <2>1. n \in Nat /\ n + 1 \in 1..Len(s) /\ n + 1 \in 1..Len(t) /\ s[n + 1] = t[n + 1]
    OBVIOUS
  <2>2. CASE n = 0
    BY <2>1, <2>2 DEF Flattens
  <2>3. CASE n # 0
    <3>1. n \in 1..Len(s) /\ f[n] = g[n]
      BY <2>1, <2>3
    <3>2. f[n + 1] = f[n] \o s[n + 1] /\ g[n + 1] = g[n] \o t[n + 1]
      BY <2>1, <2>3, FlattensAt
    <3> QED
      BY <2>1, <3>1, <3>2, Zenon
  <2> QED
    BY <2>2, <2>3
<1>2. 0 \in S
  OBVIOUS
<1> HIDE DEF S
<1>3. S = Nat
  <2>1. S \in SUBSET Nat
    BY DEF S
  <2> QED
    BY <1>1, <1>2, <2>1, AllNaturals
<1> QED
  BY <1>3 DEF S

Prefixed(s, n) == [i \in 1..n |-> s[i]]

LEMMA PrefixedSeq ==
    ASSUME NEW T, NEW s \in Seq(T), NEW n \in 0..Len(s)
    PROVE  /\ Prefixed(s, n) \in Seq(T) /\ Len(Prefixed(s, n)) = n
           /\ \A i \in 1..n : Prefixed(s, n)[i] = s[i]
<1>1. n \in Nat /\ \A i \in 1..n : s[i] \in T
  BY LenProperties, ElementOfSeq
<1> QED
  BY <1>1 DEF Prefixed

LEMMA FlattensExists ==
    ASSUME NEW T, NEW s \in Seq(Seq(T))
    PROVE  \E f : /\ Flattens(f, s)
                  /\ f = [i \in 1..Len(s) |-> IF i = 1 THEN s[i] ELSE f[i - 1] \o s[i]]
<1> DEFINE Good(f, n) == f = [i \in 1..n |-> IF i = 1 THEN s[i] ELSE f[i - 1] \o s[i]]
           S == {n \in Nat : \E f : Good(f, n)}
<1>1. ASSUME NEW n \in S PROVE n + 1 \in S
  <2>1. n \in Nat
    OBVIOUS
  <2>2. PICK f : Good(f, n)
    OBVIOUS
  <2> DEFINE g == [i \in 1..(n + 1) |->
                      IF i <= n THEN f[i] ELSE IF i = 1 THEN s[i] ELSE f[n] \o s[i]]
  <2>3. ASSUME NEW i \in 1..(n + 1)
        PROVE  g[i] = IF i = 1 THEN s[i] ELSE g[i - 1] \o s[i]
    <3>1. CASE i <= n
      <4>1. i \in 1..n /\ g[i] = f[i] /\ (i # 1 => i - 1 \in 1..(n + 1) /\ i - 1 <= n)
        BY <2>1, <3>1
      <4>2. i # 1 => g[i - 1] = f[i - 1]
        BY <4>1
      <4>3. f[i] = IF i = 1 THEN s[i] ELSE f[i - 1] \o s[i]
        BY <2>2, <4>1
      <4> QED
        BY <4>1, <4>2, <4>3
    <3>2. CASE ~(i <= n)
      <4>1. i = n + 1 /\ g[i] = IF i = 1 THEN s[i] ELSE f[n] \o s[i]
        BY <2>1, <3>2
      <4>2. i # 1 => i - 1 = n /\ n \in 1..(n + 1) /\ g[n] = f[n]
        BY <2>1, <4>1
      <4> QED
        BY <4>1, <4>2
    <3> QED
      BY <3>1, <3>2
  <2>4. g = [i \in 1..(n + 1) |-> g[i]]
    OBVIOUS
  <2> HIDE DEF g
  <2>5. Good(g, n + 1)
    BY <2>3, <2>4
  <2> HIDE DEF Good
  <2> QED
    BY <2>1, <2>5
<1>2. 0 \in S
  <2>1. Good(<<>>, 0)
    OBVIOUS
  <2> QED
    BY <2>1
<1>3. S = Nat
  <2>1. S \in SUBSET Nat
    OBVIOUS
  <2> HIDE DEF S
  <2> QED
    BY <1>1, <1>2, <2>1, AllNaturals
<1>4. Len(s) \in Nat
  BY LenProperties
<1>5. PICK f : Good(f, Len(s))
  BY <1>3, <1>4
<1>6. ASSUME NEW i \in 1..Len(s) PROVE f[i] = IF i = 1 THEN s[i] ELSE f[i - 1] \o s[i]
  BY <1>5
<1> QED
  BY <1>5, <1>6 DEF Flattens

(* FlattenSeq: what its function, whichever it is, has last.               *)
LEMMA FlattenIs ==
    ASSUME NEW T, NEW s \in Seq(Seq(T))
    PROVE  \E f : /\ Flattens(f, s)
                  /\ Batch!FlattenSeq(s) = IF Len(s) = 0 THEN s ELSE f[Len(s)]
<1> DEFINE Good(f) == f = [i \in 1..Len(s) |-> IF i = 1 THEN s[i] ELSE f[i - 1] \o s[i]]
           f0 == CHOOSE f : Good(f)
<1>1. Batch!FlattenSeq(s) = IF Len(s) = 0 THEN s ELSE f0[Len(s)]
  BY Zenon DEF Batch!FlattenSeq
<1>2. \E f : Good(f)
  BY FlattensExists
<1>3. Good(f0)
  BY <1>2
<1>4. ASSUME NEW i \in 1..Len(s) PROVE f0[i] = IF i = 1 THEN s[i] ELSE f0[i - 1] \o s[i]
  <2> HIDE DEF f0
  <2> QED
    BY <1>3
<1> QED
  BY <1>1, <1>4 DEF Flattens

LEMMA FlattenType ==
    ASSUME NEW T, NEW s \in Seq(Seq(T))
    PROVE  Batch!FlattenSeq(s) \in Seq(T)
<1>1. PICK f : /\ Flattens(f, s)
               /\ Batch!FlattenSeq(s) = IF Len(s) = 0 THEN s ELSE f[Len(s)]
  BY FlattenIs
<1>2. Len(s) \in Nat
  BY LenProperties
<1>3. CASE Len(s) = 0
  <2>1. s = <<>>
    BY <1>3, EmptySeq
  <2> QED
    BY <1>1, <1>3, <2>1, EmptySeq
<1>4. CASE Len(s) # 0
  BY <1>1, <1>2, <1>4, FlattensType
<1> QED
  BY <1>3, <1>4

LEMMA FlattenEmpty == Batch!FlattenSeq(<<>>) = <<>>
BY DEF Batch!FlattenSeq

(* What the last sequence adds.                                            *)
LEMMA FlattensNext ==
    ASSUME NEW S, NEW s \in Seq(S), NEW t \in Seq(S), Len(t) = Len(s) + 1, Len(s) # 0,
           \A i \in 1..Len(s) : s[i] = t[i],
           NEW f, Flattens(f, s), NEW g, Flattens(g, t)
    PROVE  g[Len(t)] = f[Len(s)] \o t[Len(t)]
<1>1. Len(s) \in Nat /\ Len(t) \in Nat /\ Len(s) <= Len(t)
  BY LenProperties
<1>2. Len(t) # 1 /\ Len(t) - 1 = Len(s) /\ Len(s) \in 1..Len(s) /\ Len(t) \in 1..Len(t)
  BY <1>1
<1>3. g[Len(t)] = g[Len(s)] \o t[Len(t)]
  BY <1>2 DEF Flattens
<1>4. \A i \in 1..Len(s) : f[i] = g[i]
  BY <1>1, FlattensAgree
<1> QED
  BY <1>2, <1>3, <1>4

(* One sequence more.                                                      *)
LEMMA FlattenNext ==
    ASSUME NEW T, NEW s \in Seq(Seq(T)), NEW t \in Seq(Seq(T)), Len(t) = Len(s) + 1,
           \A i \in 1..Len(s) : t[i] = s[i]
    PROVE  Batch!FlattenSeq(t) = Batch!FlattenSeq(s) \o t[Len(t)]
<1>1. PICK f : /\ Flattens(f, s)
               /\ Batch!FlattenSeq(s) = IF Len(s) = 0 THEN s ELSE f[Len(s)]
  BY FlattenIs
<1>2. PICK g : /\ Flattens(g, t)
               /\ Batch!FlattenSeq(t) = IF Len(t) = 0 THEN t ELSE g[Len(t)]
  BY FlattenIs
<1>3. Len(s) \in Nat /\ Len(t) \in Nat /\ Len(t) # 0 /\ Len(t) \in 1..Len(t)
  BY LenProperties
<1>4. t[Len(t)] \in Seq(T)
  BY <1>3, ElementOfSeq
<1>5. CASE Len(s) = 0
  <2>1. Batch!FlattenSeq(t) = t[Len(t)]
    BY <1>2, <1>3, <1>5 DEF Flattens
  <2>2. Batch!FlattenSeq(s) = <<>>
    BY <1>1, <1>5, EmptySeq
  <2> QED
    BY <1>4, <2>1, <2>2, ConcatEmptySeq
<1>6. CASE Len(s) # 0
  <2>1. Flattens(f, s) /\ Flattens(g, t) /\ \A i \in 1..Len(s) : s[i] = t[i]
    BY <1>1, <1>2
  <2>2. g[Len(t)] = f[Len(s)] \o t[Len(t)]
    BY <1>6, <2>1, FlattensNext
  <2> QED
    BY <1>1, <1>2, <1>3, <1>6, <2>2
<1> QED
  BY <1>5, <1>6

LEMMA UpTo ==
    ASSUME NEW N \in Nat, NEW S, 0 \in S, \A n \in 0..(N - 1) : n \in S => n + 1 \in S
    PROVE  \A n \in 0..N : n \in S
<1> DEFINE A == {n \in Nat : n <= N => n \in S}
<1>1. A \in SUBSET Nat /\ 0 \in A
  OBVIOUS
<1>2. ASSUME NEW n \in A PROVE n + 1 \in A
  OBVIOUS
<1> HIDE DEF A
<1>3. A = Nat
  BY <1>1, <1>2, AllNaturals
<1> QED
  BY <1>3 DEF A

(* The first n sequences of s put together.                                *)
Joined(s, n) == Batch!FlattenSeq(Prefixed(s, n))

LEMMA JoinedFirst == ASSUME NEW s PROVE Joined(s, 0) = <<>>
<1>1. Prefixed(s, 0) = <<>>
  BY DEF Prefixed
<1> QED
  BY <1>1, FlattenEmpty DEF Joined

LEMMA JoinedType ==
    ASSUME NEW T, NEW s \in Seq(Seq(T)), NEW n \in 0..Len(s)
    PROVE  Joined(s, n) \in Seq(T)
BY PrefixedSeq, FlattenType DEF Joined

LEMMA JoinedNext ==
    ASSUME NEW T, NEW s \in Seq(Seq(T)), NEW n \in 0..(Len(s) - 1)
    PROVE  Joined(s, n + 1) = Joined(s, n) \o s[n + 1]
<1>1. Len(s) \in Nat
  BY LenProperties
<1>2. n \in 0..Len(s) /\ n + 1 \in 0..Len(s) /\ n \in Nat
  BY <1>1
<1> DEFINE a == Prefixed(s, n)
           b == Prefixed(s, n + 1)
<1>3. /\ a \in Seq(Seq(T)) /\ Len(a) = n /\ \A i \in 1..n : a[i] = s[i]
      /\ b \in Seq(Seq(T)) /\ Len(b) = n + 1 /\ \A i \in 1..(n + 1) : b[i] = s[i]
  BY <1>2, PrefixedSeq
<1> HIDE DEF a, b
<1>4. /\ Len(b) = Len(a) + 1 /\ b[Len(b)] = s[n + 1]
      /\ \A i \in 1..Len(a) : b[i] = a[i]
  <2>1. n + 1 \in 1..(n + 1) /\ \A i \in 1..n : i \in 1..(n + 1)
    BY <1>2
  <2> QED
    BY <1>3, <2>1
<1>5. Batch!FlattenSeq(b) = Batch!FlattenSeq(a) \o b[Len(b)]
  BY <1>3, <1>4, FlattenNext
<1> QED
  BY <1>4, <1>5 DEF Joined, a, b

LEMMA JoinedAll ==
    ASSUME NEW T, NEW s \in Seq(T)
    PROVE  Joined(s, Len(s)) = Batch!FlattenSeq(s)
<1>1. Len(s) \in Nat /\ s \in [1..Len(s) -> T]
  BY LenProperties
<1>2. Prefixed(s, Len(s)) = s
  BY <1>1 DEF Prefixed
<1> QED
  BY <1>2 DEF Joined

Cat(p, q) == p \o q

LEMMA CatAssociative ==
    ASSUME NEW T, NEW p \in Seq(T), NEW q \in Seq(T), NEW e \in Seq(T)
    PROVE  Cat(p, Cat(q, e)) = Cat(Cat(p, q), e)
BY ConcatAssociative DEF Cat

(* What is put together after the first b is what comes after it.          *)
LEMMA JoinedOn ==
    ASSUME NEW T, NEW s \in Seq(Seq(T)), NEW u \in Seq(Seq(T)), NEW b \in 0..Len(s),
           b + Len(u) <= Len(s), \A i \in 1..Len(u) : u[i] = s[b + i]
    PROVE  Cat(Joined(s, b), Batch!FlattenSeq(u)) = Joined(s, b + Len(u))
<1> DEFINE S == {n \in Nat : Joined(s, b) \o Joined(u, n) = Joined(s, b + n)}
<1>1. Len(s) \in Nat /\ Len(u) \in Nat /\ b \in Nat
  BY LenProperties
<1>2. Joined(s, b) \in Seq(T)
  BY JoinedType
<1>3. 0 \in S
  <2>1. Joined(u, 0) = <<>> /\ b + 0 = b
    BY <1>1, JoinedFirst
  <2> QED
    BY <1>2, <2>1, ConcatEmptySeq
<1>4. ASSUME NEW n \in 0..(Len(u) - 1), n \in S PROVE n + 1 \in S
  <2>1. n \in Nat /\ n + 1 \in 1..Len(u) /\ n \in 0..Len(u)
        /\ b + n \in 0..(Len(s) - 1) /\ (b + n) + 1 = b + (n + 1) /\ b + (n + 1) \in 1..Len(s)
    BY <1>1
  <2>2. Joined(u, n) \in Seq(T)
    BY <2>1, JoinedType
  <2>3. u[n + 1] = s[b + (n + 1)] /\ u[n + 1] \in Seq(T)
    BY <2>1, ElementOfSeq
  <2>4. Joined(u, n + 1) = Cat(Joined(u, n), u[n + 1])
    BY JoinedNext, ZenonT(30) DEF Cat
  <2>5. Joined(s, (b + n) + 1) = Cat(Joined(s, b + n), s[(b + n) + 1])
    BY <2>1, JoinedNext, ZenonT(30) DEF Cat
  <2>6. Cat(Joined(s, b), Joined(u, n)) = Joined(s, b + n)
    BY <1>4 DEF Cat
  <2>7. Cat(Joined(s, b), Cat(Joined(u, n), u[n + 1]))
            = Cat(Cat(Joined(s, b), Joined(u, n)), u[n + 1])
    BY <1>2, <2>2, <2>3, CatAssociative
  <2>8. Cat(Joined(s, b), Joined(u, n + 1)) = Joined(s, b + (n + 1))
    BY <2>1, <2>3, <2>4, <2>5, <2>6, <2>7
  <2> QED
    BY <2>1, <2>8 DEF Cat
<1> HIDE DEF S
<1>5. \A n \in 0..(Len(u) - 1) : n \in S => n + 1 \in S
  BY <1>4
<1>6. \A n \in 0..Len(u) : n \in S
  BY <1>1, <1>3, <1>5, UpTo
<1>7. Joined(s, b) \o Joined(u, Len(u)) = Joined(s, b + Len(u))
  BY <1>1, <1>6 DEF S
<1>8. Joined(u, Len(u)) = Batch!FlattenSeq(u)
  BY JoinedAll
<1> QED
  BY <1>7, <1>8 DEF Cat

Elems(q) == {q[i] : i \in 1..Len(q)}

LEMMA ConcatElems ==
    ASSUME NEW T, NEW p \in Seq(T), NEW q \in Seq(T)
    PROVE  Elems(p \o q) = Elems(p) \cup Elems(q)
<1>1. /\ Len(p) \in Nat /\ Len(q) \in Nat /\ Len(p \o q) = Len(p) + Len(q)
      /\ \A i \in 1..(Len(p) + Len(q)) :
            (p \o q)[i] = IF i <= Len(p) THEN p[i] ELSE q[i - Len(p)]
  BY LenProperties, ConcatProperties
<1>2. ASSUME NEW e \in Elems(p \o q) PROVE e \in Elems(p) \cup Elems(q)
  <2>1. PICK i \in 1..(Len(p) + Len(q)) : e = (p \o q)[i]
    BY <1>1 DEF Elems
  <2>2. CASE i <= Len(p)
    BY <1>1, <2>1, <2>2 DEF Elems
  <2>3. CASE ~(i <= Len(p))
    <3>1. i - Len(p) \in 1..Len(q)
      BY <1>1, <2>3
    <3> QED
      BY <1>1, <2>1, <2>3, <3>1 DEF Elems
  <2> QED
    BY <2>2, <2>3
<1>3. ASSUME NEW i \in 1..Len(p) PROVE p[i] \in Elems(p \o q)
  <2>1. i \in 1..(Len(p) + Len(q)) /\ i <= Len(p)
    BY <1>1
  <2>2. p[i] = (p \o q)[i]
    BY <1>1, <2>1
  <2> QED
    BY <1>1, <2>1, <2>2 DEF Elems
<1>4. ASSUME NEW i \in 1..Len(q) PROVE q[i] \in Elems(p \o q)
  <2>1. /\ Len(p) + i \in 1..(Len(p) + Len(q)) /\ ~(Len(p) + i <= Len(p))
        /\ (Len(p) + i) - Len(p) = i
    BY <1>1
  <2>2. q[i] = (p \o q)[Len(p) + i]
    BY <1>1, <2>1
  <2> QED
    BY <1>1, <2>1, <2>2 DEF Elems
<1> QED
  BY <1>2, <1>3, <1>4 DEF Elems

LEMMA JoinedElems ==
    ASSUME NEW T, NEW s \in Seq(Seq(T)), NEW n \in 0..Len(s)
    PROVE  \A e : e \in Elems(Joined(s, n)) <=> \E i \in 1..n : e \in Elems(s[i])
<1> DEFINE S == {m \in Nat : \A e : e \in Elems(Joined(s, m)) <=>
                                   \E i \in 1..m : e \in Elems(s[i])}
<1>1. Len(s) \in Nat
  BY LenProperties
<1>2. 0 \in S
  <2>1. Elems(Joined(s, 0)) = {}
    BY JoinedFirst DEF Elems
  <2> QED
    BY <2>1
<1>3. ASSUME NEW m \in 0..(Len(s) - 1), m \in S PROVE m + 1 \in S
  <2>1. m \in Nat /\ m \in 0..Len(s) /\ m + 1 \in 1..Len(s)
    BY <1>1
  <2>2. Joined(s, m) \in Seq(T) /\ s[m + 1] \in Seq(T)
    BY <2>1, JoinedType, ElementOfSeq
  <2>3. Elems(Joined(s, m + 1)) = Elems(Joined(s, m)) \cup Elems(s[m + 1])
    <3>1. Joined(s, m + 1) = Joined(s, m) \o s[m + 1]
      BY JoinedNext, ZenonT(30)
    <3> QED
      BY <2>2, <3>1, ConcatElems
  <2>4. 1..(m + 1) = 1..m \cup {m + 1}
    BY <2>1
  <2>5. \A e : e \in Elems(Joined(s, m)) <=> \E i \in 1..m : e \in Elems(s[i])
    BY <1>3
  <2>6. \A e : e \in Elems(Joined(s, m + 1)) <=> \E i \in 1..(m + 1) : e \in Elems(s[i])
    BY <2>3, <2>4, <2>5, Zenon
  <2> QED
    BY <2>1, <2>6
<1> HIDE DEF S
<1>4. \A m \in 0..(Len(s) - 1) : m \in S => m + 1 \in S
  BY <1>3
<1>5. \A m \in 0..Len(s) : m \in S
  BY <1>1, <1>2, <1>4, UpTo
<1> QED
  BY <1>5 DEF S

(* The request before e of the same client.                                *)
Before(e) == <<e[1], e[2] - 1>>

(* Each request of q is a client's first, or the one before it is in A or  *)
(* earlier in q.                                                           *)
ClosedAfter(A, q) ==
    \A i \in 1..Len(q) :
        \/ q[i][2] = 0
        \/ Before(q[i]) \in A
        \/ \E j \in 1..(i - 1) : q[j] = Before(q[i])

LEMMA ClosedConcat ==
    ASSUME NEW T, NEW p \in Seq(T), NEW q \in Seq(T), NEW A,
           ClosedAfter(A, p), ClosedAfter(A \cup Elems(p), q)
    PROVE  ClosedAfter(A, p \o q)
<1>1. /\ Len(p) \in Nat /\ Len(q) \in Nat /\ Len(p \o q) = Len(p) + Len(q)
      /\ \A i \in 1..(Len(p) + Len(q)) :
            (p \o q)[i] = IF i <= Len(p) THEN p[i] ELSE q[i - Len(p)]
  BY LenProperties, ConcatProperties
<1>2. \A i \in 1..Len(p) : i \in 1..(Len(p) + Len(q)) /\ (p \o q)[i] = p[i]
  BY <1>1
<1>3. \A i \in 1..Len(q) :
          Len(p) + i \in 1..(Len(p) + Len(q)) /\ (p \o q)[Len(p) + i] = q[i]
  <2> SUFFICES ASSUME NEW i \in 1..Len(q)
               PROVE  Len(p) + i \in 1..(Len(p) + Len(q)) /\ (p \o q)[Len(p) + i] = q[i]
    OBVIOUS
  <2>1. /\ Len(p) + i \in 1..(Len(p) + Len(q)) /\ ~(Len(p) + i <= Len(p))
        /\ (Len(p) + i) - Len(p) = i
    BY <1>1
  <2> QED
    BY <1>1, <2>1
<1> DEFINE r == p \o q
<1>4. \A i \in 1..Len(p) : r[i] = p[i]
  BY <1>2
<1>5. \A i \in 1..Len(q) : r[Len(p) + i] = q[i]
  BY <1>3
<1>6. Len(r) = Len(p) + Len(q)
  BY <1>1
<1> HIDE DEF r
<1>7. ASSUME NEW i \in 1..Len(r)
      PROVE  \/ r[i][2] = 0 \/ Before(r[i]) \in A
             \/ \E j \in 1..(i - 1) : r[j] = Before(r[i])
  <2>1. CASE i <= Len(p)
    <3>1. i \in 1..Len(p) /\ r[i] = p[i] /\ \A j \in 1..(i - 1) : j \in 1..Len(p)
      BY <1>1, <1>4, <1>6, <2>1
    <3>2. \/ p[i][2] = 0 \/ Before(p[i]) \in A
          \/ \E j \in 1..(i - 1) : p[j] = Before(p[i])
      BY <3>1 DEF ClosedAfter
    <3>3. \A j \in 1..(i - 1) : r[j] = p[j]
      BY <1>4, <3>1
    <3> QED
      BY <3>1, <3>2, <3>3
  <2>2. CASE ~(i <= Len(p))
    <3>1. PICK k \in 1..Len(q) : i = Len(p) + k
      <4>1. i - Len(p) \in 1..Len(q) /\ i = Len(p) + (i - Len(p))
        BY <1>1, <1>6, <2>2
      <4> QED
        BY <4>1
    <3>2. r[i] = q[k]
      BY <1>5, <3>1
    <3>3. \/ q[k][2] = 0 \/ Before(q[k]) \in A \/ Before(q[k]) \in Elems(p)
          \/ \E j \in 1..(k - 1) : q[j] = Before(q[k])
      BY DEF ClosedAfter
    <3>4. ASSUME Before(q[k]) \in Elems(p)
          PROVE  \E j \in 1..(i - 1) : r[j] = Before(q[k])
      <4>1. PICK j \in 1..Len(p) : p[j] = Before(q[k])
        BY <3>4 DEF Elems
      <4>2. j \in 1..(i - 1) /\ r[j] = p[j]
        BY <1>1, <1>4, <3>1
      <4> QED
        BY <4>1, <4>2
    <3>5. ASSUME NEW j \in 1..(k - 1), q[j] = Before(q[k])
          PROVE  \E l \in 1..(i - 1) : r[l] = Before(q[k])
      <4>1. j \in 1..Len(q) /\ Len(p) + j \in 1..(i - 1)
        BY <1>1, <3>1
      <4>2. r[Len(p) + j] = q[j]
        BY <1>5, <4>1
      <4> QED
        BY <3>5, <4>1, <4>2
    <3> QED
      BY <3>2, <3>3, <3>4, <3>5
  <2> QED
    BY <2>1, <2>2
<1> QED
  BY <1>7 DEF ClosedAfter, r

LEMMA JoinedClosed ==
    ASSUME NEW T, NEW s \in Seq(Seq(T)), NEW A,
           \A m \in 0..(Len(s) - 1) : ClosedAfter(A \cup Elems(Joined(s, m)), s[m + 1])
    PROVE  \A n \in 0..Len(s) : ClosedAfter(A, Joined(s, n))
<1> DEFINE S == {n \in Nat : ClosedAfter(A, Joined(s, n))}
<1>1. Len(s) \in Nat
  BY LenProperties
<1>2. 0 \in S
  BY JoinedFirst DEF ClosedAfter
<1>3. ASSUME NEW m \in 0..(Len(s) - 1), m \in S PROVE m + 1 \in S
  <2>1. m \in 0..Len(s) /\ m + 1 \in 1..Len(s) /\ m + 1 \in Nat
    BY <1>1
  <2>2. Joined(s, m) \in Seq(T) /\ s[m + 1] \in Seq(T)
    BY <2>1, JoinedType, ElementOfSeq
  <2>3. ClosedAfter(A, Joined(s, m)) /\ ClosedAfter(A \cup Elems(Joined(s, m)), s[m + 1])
    BY <1>3
  <2>4. ClosedAfter(A, Joined(s, m) \o s[m + 1])
    BY <2>2, <2>3, ClosedConcat
  <2>5. Joined(s, m + 1) = Joined(s, m) \o s[m + 1]
    BY JoinedNext, ZenonT(30)
  <2> QED
    BY <2>1, <2>4, <2>5
<1> HIDE DEF S
<1>4. \A m \in 0..(Len(s) - 1) : m \in S => m + 1 \in S
  BY <1>3
<1>5. \A m \in 0..Len(s) : m \in S
  BY <1>1, <1>2, <1>4, UpTo
<1> QED
  BY <1>5 DEF S

-----------------------------------------------------------------------------
(* The requests of ranges.                                                 *)

SeqNo == 0..MaxSeq
Req == Batch!Client \X SeqNo
OneRange == [start : SeqNo, stop : SeqNo]
Ranges == UNION {[C -> OneRange] : C \in SUBSET Batch!Client}

LEMMA RangesType ==
    ASSUME NEW g \in Ranges
    PROVE  /\ DOMAIN g \subseteq Batch!Client
           /\ \A c \in DOMAIN g : /\ g[c] \in OneRange
                                  /\ g[c].start \in SeqNo /\ g[c].stop \in SeqNo
           /\ \A c \in DOMAIN g : g[c].start \in Nat /\ g[c].stop \in Nat
BY DEF Ranges, OneRange, SeqNo

LEMMA ClientsSeq ==
    /\ Len(Clients) \in Nat /\ DOMAIN Clients = 1..Len(Clients)
    /\ \A i \in 1..Len(Clients) : Clients[i] \in Batch!Client
    /\ \A c \in Batch!Client : \E i \in 1..Len(Clients) : c = Clients[i]
<1>1. Clients \in Seq(Batch!Client)
  BY BatchAssumption DEF Batch!Client
<1>2. Len(Clients) \in Nat /\ DOMAIN Clients = 1..Len(Clients)
  BY <1>1, LenProperties
<1> QED
  BY <1>2 DEF Batch!Client

(* The requests of one client.                                             *)
RunOf(g, c) == [k \in 1..(g.stop - g.start + 1) |-> <<c, g.start + k - 1>>]

LEMMA RunFacts ==
    ASSUME NEW g \in OneRange, NEW c \in Batch!Client
    PROVE  /\ RunOf(g, c) \in Seq(Req)
           /\ \A e : e \in Elems(RunOf(g, c)) <=> \E s \in g.start..g.stop : e = <<c, s>>
           /\ \A A : g.start = 0 \/ <<c, g.start - 1>> \in A
                        => ClosedAfter(A, RunOf(g, c))
<1> DEFINE n == g.stop - g.start + 1
           q == RunOf(g, c)
<1>1. g.start \in Nat /\ g.stop \in Nat /\ g.stop <= MaxSeq /\ MaxSeq \in Nat
  BY BatchAssumption DEF OneRange, SeqNo
<1>2. PICK N \in Nat : 1..N = 1..n /\ (g.start <= g.stop => N = n) /\ (g.stop < g.start => N = 0)
  <2>1. CASE g.start <= g.stop
    <3>1. n \in Nat
      BY <1>1, <2>1
    <3> QED
      BY <1>1, <2>1, <3>1
  <2>2. CASE g.stop < g.start
    <3>1. 1..0 = 1..n
      BY <1>1, <2>2
    <3>2. 0 \in Nat /\ ~(g.start <= g.stop)
      BY <1>1, <2>2
    <3> QED
      BY <3>1, <3>2
  <2> QED
    BY <1>1, <2>1, <2>2
<1>3. q = [k \in 1..N |-> <<c, g.start + k - 1>>]
  BY <1>2 DEF RunOf
<1>4. \A k \in 1..N : /\ g.start + k - 1 \in g.start..g.stop /\ g.start + k - 1 \in SeqNo
                      /\ k \in Nat
  BY <1>1, <1>2 DEF SeqNo
<1>5. q \in Seq(Req) /\ Len(q) = N
  BY <1>3, <1>4 DEF Req
<1>6. \A k \in 1..N : q[k] = <<c, g.start + k - 1>>
  BY <1>3
<1> HIDE DEF q, n
<1>7. ASSUME NEW e
      PROVE  e \in Elems(q) <=> \E s \in g.start..g.stop : e = <<c, s>>
  <2>1. ASSUME NEW s \in g.start..g.stop, e = <<c, s>> PROVE e \in Elems(q)
    <3>1. s - g.start + 1 \in 1..N /\ g.start + (s - g.start + 1) - 1 = s
      BY <1>1, <1>2 DEF n
    <3> QED
      BY <1>5, <1>6, <2>1, <3>1 DEF Elems
  <2>2. ASSUME NEW k \in 1..N, e = q[k] PROVE \E s \in g.start..g.stop : e = <<c, s>>
    BY <1>4, <1>6, <2>2
  <2> QED
    BY <1>5, <2>1, <2>2 DEF Elems
<1>8. ASSUME NEW A, g.start = 0 \/ <<c, g.start - 1>> \in A PROVE ClosedAfter(A, q)
  <2> SUFFICES ASSUME NEW i \in 1..N
               PROVE  \/ q[i][2] = 0 \/ Before(q[i]) \in A
                      \/ \E j \in 1..(i - 1) : q[j] = Before(q[i])
    BY <1>5 DEF ClosedAfter
  <2>1. q[i] = <<c, g.start + i - 1>>
    BY <1>6
  <2>2. Before(q[i]) = <<c, (g.start + i - 1) - 1>>
    <3>1. q[i][1] = c /\ q[i][2] = g.start + i - 1
      BY <2>1
    <3> QED
      BY <3>1 DEF Before
  <2>3. CASE i = 1
    <3>1. g.start + i - 1 = g.start
      BY <1>1, <2>3
    <3> QED
      BY <1>8, <2>1, <2>2, <3>1
  <2>4. CASE i # 1
    <3>1. /\ i - 1 \in 1..N /\ i - 1 \in 1..(i - 1)
          /\ g.start + (i - 1) - 1 = (g.start + i - 1) - 1
      BY <1>1, <2>4
    <3>2. q[i - 1] = Before(q[i])
      BY <1>6, <2>2, <3>1
    <3> QED
      BY <3>1, <3>2
  <2> QED
    BY <2>3, <2>4
<1> QED
  BY <1>5, <1>7, <1>8 DEF q

Runs(g) ==
    [i \in 1..Len(Clients) |->
        IF Clients[i] \notin DOMAIN g THEN <<>> ELSE RunOf(g[Clients[i]], Clients[i])]

LEMMA RunsFacts ==
    ASSUME NEW g \in Ranges
    PROVE  /\ Runs(g) \in Seq(Seq(Req)) /\ Len(Runs(g)) = Len(Clients)
           /\ Batch!ForEach(g) = Joined(Runs(g), Len(Clients))
<1>1. ASSUME NEW i \in 1..Len(Clients)
      PROVE  (IF Clients[i] \notin DOMAIN g THEN <<>> ELSE RunOf(g[Clients[i]], Clients[i]))
                 \in Seq(Req)
  <2>1. CASE Clients[i] \notin DOMAIN g
    BY <2>1, EmptySeq
  <2>2. CASE Clients[i] \in DOMAIN g
    BY <2>2, ClientsSeq, RangesType, RunFacts
  <2> QED
    BY <2>1, <2>2
<1>2. Runs(g) \in Seq(Seq(Req)) /\ Len(Runs(g)) = Len(Clients)
  BY <1>1, ClientsSeq DEF Runs
<1>3. Batch!ForEach(g) = Batch!FlattenSeq(Runs(g))
  BY ClientsSeq DEF Batch!ForEach, Runs, RunOf
<1> QED
  BY <1>2, <1>3, JoinedAll

(* What ForEach goes through, and in which order.                          *)
LEMMA ForEachFacts ==
    ASSUME NEW g \in Ranges
    PROVE  /\ Batch!ForEach(g) \in Seq(Req)
           /\ Elems(Batch!ForEach(g)) = Batch!InRanges(g)
           /\ \A A : (\A c \in DOMAIN g : g[c].start = 0 \/ <<c, g[c].start - 1>> \in A)
                        => ClosedAfter(A, Batch!ForEach(g))
<1> DEFINE n == Len(Clients)
           s == Runs(g)
<1>1. n \in Nat /\ s \in Seq(Seq(Req)) /\ Len(s) = n /\ Batch!ForEach(g) = Joined(s, n)
  BY RunsFacts, ClientsSeq
<1>2. Batch!ForEach(g) \in Seq(Req)
  BY <1>1, JoinedType
<1>3. \A i \in 1..n : s[i] = IF Clients[i] \notin DOMAIN g THEN <<>>
                             ELSE RunOf(g[Clients[i]], Clients[i])
  BY DEF Runs
<1> HIDE DEF s
<1>4. \A e : e \in Elems(Joined(s, n)) <=> \E i \in 1..n : e \in Elems(s[i])
  <2>1. s \in Seq(Seq(Req)) /\ n \in 0..Len(s)
    BY <1>1
  <2> HIDE DEF n
  <2> QED
    BY <2>1, JoinedElems, Zenon
<1>5. ASSUME NEW e, NEW i \in 1..n, e \in Elems(s[i]) PROVE e \in Batch!InRanges(g)
  <2>1. PICK c : c = Clients[i]
    OBVIOUS
  <2>2. c \in DOMAIN g
    <3>1. Elems(<<>>) = {}
      BY DEF Elems
    <3> QED
      BY <1>3, <1>5, <2>1, <3>1
  <2>3. g[c] \in OneRange /\ c \in Batch!Client
    BY <2>2, RangesType
  <2>4. e \in Elems(RunOf(g[c], c))
    BY <1>3, <1>5, <2>1, <2>2
  <2>5. \E k \in g[c].start..g[c].stop : e = <<c, k>>
    <3>1. \A x : x \in Elems(RunOf(g[c], c)) <=>
                   \E k \in g[c].start..g[c].stop : x = <<c, k>>
      BY <2>3, RunFacts
    <3> QED
      BY <2>4, <3>1
  <2> QED
    BY <2>2, <2>5 DEF Batch!InRanges
<1>6. ASSUME NEW c \in DOMAIN g, NEW k \in g[c].start..g[c].stop
      PROVE  \E i \in 1..n : <<c, k>> \in Elems(s[i])
  <2>1. c \in Batch!Client /\ g[c] \in OneRange
    BY RangesType
  <2>2. PICK i \in 1..n : c = Clients[i]
    BY <2>1, ClientsSeq
  <2>3. <<c, k>> \in Elems(RunOf(g[c], c))
    BY <2>1, RunFacts
  <2> QED
    BY <1>3, <2>2, <2>3
<1>7. Elems(Batch!ForEach(g)) = Batch!InRanges(g)
  <2>1. \A e : e \in Batch!InRanges(g) <=>
                \E c \in DOMAIN g : \E k \in g[c].start..g[c].stop : e = <<c, k>>
    BY DEF Batch!InRanges
  <2>2. \A e : e \in Elems(Joined(s, n)) <=> e \in Batch!InRanges(g)
    BY <1>4, <1>5, <1>6, <2>1
  <2> QED
    BY <1>1, <2>2
<1>8. ASSUME NEW A, \A c \in DOMAIN g : g[c].start = 0 \/ <<c, g[c].start - 1>> \in A
      PROVE  ClosedAfter(A, Joined(s, n))
  <2>1. ASSUME NEW m \in 0..(n - 1)
        PROVE  ClosedAfter(A \cup Elems(Joined(s, m)), s[m + 1])
    <3>1. m + 1 \in 1..n
      BY <1>1
    <3> DEFINE c == Clients[m + 1]
    <3>2. CASE c \notin DOMAIN g
      <4>1. s[m + 1] = <<>>
        BY <1>3, <3>1, <3>2
      <4> QED
        BY <4>1 DEF ClosedAfter
    <3>3. CASE c \in DOMAIN g
      <4>1. s[m + 1] = RunOf(g[c], c) /\ g[c] \in OneRange /\ c \in Batch!Client
        BY <1>3, <3>1, <3>3, RangesType
      <4>2. g[c].start = 0 \/ <<c, g[c].start - 1>> \in A \cup Elems(Joined(s, m))
        BY <1>8, <3>3
      <4> HIDE DEF c
      <4> QED
        BY <4>1, <4>2, RunFacts
    <3> QED
      BY <3>2, <3>3
  <2>2. \A m \in 0..(Len(s) - 1) : ClosedAfter(A \cup Elems(Joined(s, m)), s[m + 1])
    BY <1>1, <2>1
  <2>3. \A m \in 0..Len(s) : ClosedAfter(A, Joined(s, m))
    BY <1>1, <2>2, JoinedClosed
  <2> QED
    BY <1>1, <2>3
<1> QED
  BY <1>1, <1>2, <1>7, <1>8

-----------------------------------------------------------------------------
(* The invariant of BatchPaxos.                                            *)

BatchPoint == UNION {[C -> SeqNo] : C \in SUBSET Batch!Client}
Update ==
    [to : Acceptor, from : Acceptor, batch : 1..Len(commits), ranges : Ranges,
     reply : BOOLEAN]

BatchType ==
    /\ batchNext \in [Acceptor -> [Batch!Client -> Nat]]
    /\ values \in [Acceptor -> SUBSET Req]
    /\ entries \in [Acceptor -> SUBSET Batch!Client]
    /\ batchMap \in [Acceptor -> Seq(BatchPoint)]
    /\ learns \in [Acceptor -> Nat]
    /\ \A r \in Acceptor : learns[r] <= Len(batchMap[r])
    /\ batchPoints \in Seq(BatchPoint)
    /\ commits \in Seq(Ranges)
    /\ committed \in [Acceptor -> Nat]
    /\ execute \in [Acceptor -> SUBSET (1..Len(commits))]
    /\ executed \in [Acceptor -> Seq(Req)]
    /\ batchAru \in [Acceptor -> 0..Len(commits)]
    /\ updates \subseteq Update

LastPoint == IF batchPoints = <<>> THEN <<>> ELSE Batch!Last(batchPoints)

(* A range starts at 0 or where one of an earlier batch stops, and what    *)
(* the last batchpoint says is in the range of some batch.                 *)
RangesJoin ==
    /\ \A k \in 1..Len(commits) : \A c \in DOMAIN commits[k] :
           \/ commits[k][c].start = 0
           \/ \E j \in 1..(k - 1) :
                 <<c, commits[k][c].start - 1>> \in Batch!InRanges(commits[j])
    /\ \A c \in DOMAIN LastPoint :
           \E k \in 1..Len(commits) : <<c, LastPoint[c]>> \in Batch!InRanges(commits[k])

(* What executing the first n batches gives.                               *)
Batches(cs) == [k \in 1..Len(cs) |-> Batch!ForEach(cs[k])]
Done(cs, n) == Joined(Batches(cs), n)

(* A replica has executed batches 1 to batchAru, whose requests it has.    *)
ExecutesBatches ==
    \A r \in Acceptor :
        /\ 1..batchAru[r] \subseteq execute[r]
        /\ executed[r] = Done(commits, batchAru[r])
        /\ \A k \in execute[r] : Batch!InRanges(commits[k]) \subseteq values[r]

BatchInv == BatchType /\ RangesJoin /\ ExecutesBatches

LEMMA BatchesType ==
    ASSUME NEW cs \in Seq(Ranges)
    PROVE  /\ Batches(cs) \in Seq(Seq(Req)) /\ Len(Batches(cs)) = Len(cs)
           /\ \A k \in 1..Len(cs) : Batches(cs)[k] = Batch!ForEach(cs[k]) /\ cs[k] \in Ranges
<1>1. Len(cs) \in Nat /\ \A k \in 1..Len(cs) : cs[k] \in Ranges
  BY LenProperties, ElementOfSeq
<1>2. \A k \in 1..Len(cs) : Batch!ForEach(cs[k]) \in Seq(Req)
  BY <1>1, ForEachFacts
<1> QED
  BY <1>1, <1>2 DEF Batches

(* Commits to come change nothing of it.                                   *)
LEMMA DoneAgrees ==
    ASSUME NEW cs \in Seq(Ranges), NEW ds \in Seq(Ranges), Len(cs) <= Len(ds),
           \A i \in 1..Len(cs) : ds[i] = cs[i], NEW n \in 0..Len(cs)
    PROVE  Done(ds, n) = Done(cs, n)
<1>1. Len(cs) \in Nat /\ Len(ds) \in Nat
  BY LenProperties
<1>2. \A i \in 1..n : Batches(ds)[i] = Batches(cs)[i]
  BY <1>1 DEF Batches
<1>3. Prefixed(Batches(ds), n) = Prefixed(Batches(cs), n)
  BY <1>2 DEF Prefixed
<1> QED
  BY <1>3 DEF Done, Joined

LEMMA DoneSplit ==
    ASSUME NEW cs \in Seq(Ranges), NEW b \in 0..Len(cs), NEW a \in b..Len(cs),
           NEW u, u = [i \in 1..(a - b) |-> Batch!ForEach(cs[b + i])]
    PROVE  Cat(Done(cs, b), Batch!FlattenSeq(u)) = Done(cs, a)
<1>1. Len(cs) \in Nat /\ b \in Nat /\ a \in Nat /\ b <= a /\ a <= Len(cs)
  BY LenProperties
<1>2. PICK s \in Seq(Seq(Req)) : s = Batches(cs) /\ Len(s) = Len(cs)
  BY BatchesType
<1>3. \A i \in 1..(a - b) : u[i] = s[b + i] /\ s[b + i] \in Seq(Req)
  <2> SUFFICES ASSUME NEW i \in 1..(a - b) PROVE u[i] = s[b + i] /\ s[b + i] \in Seq(Req)
    OBVIOUS
  <2>1. b + i \in 1..Len(cs) /\ u[i] = Batch!ForEach(cs[b + i])
    BY <1>1
  <2> QED
    BY <1>2, <2>1, BatchesType, ElementOfSeq
<1>4. u \in Seq(Seq(Req)) /\ Len(u) = a - b
  <2>1. a - b \in Nat /\ u = [i \in 1..(a - b) |-> u[i]]
    BY <1>1
  <2>2. \A i \in 1..(a - b) : u[i] \in Seq(Req)
    BY <1>3
  <2> QED
    BY <2>1, <2>2
<1>5. Cat(Joined(s, b), Batch!FlattenSeq(u)) = Joined(s, b + Len(u))
  <2>1. b \in 0..Len(s) /\ b + Len(u) <= Len(s) /\ \A i \in 1..Len(u) : u[i] = s[b + i]
    <3>1. b \in 0..Len(s) /\ b + Len(u) <= Len(s)
      BY <1>1, <1>2, <1>4
    <3>2. \A i \in 1..Len(u) : u[i] = s[b + i]
      BY <1>3, <1>4
    <3> QED
      BY <3>1, <3>2
  <2> QED
    BY <1>4, <2>1, JoinedOn
<1>6. b + Len(u) = a
  BY <1>1, <1>4
<1> QED
  BY <1>2, <1>5, <1>6 DEF Done

LEMMA DoneType ==
    ASSUME NEW cs \in Seq(Ranges), NEW n \in 0..Len(cs)
    PROVE  Done(cs, n) \in Seq(Req)
BY BatchesType, JoinedType DEF Done

-----------------------------------------------------------------------------
(* Batches and batchpoints.                                                *)

LEMMA LeastExists ==
    ASSUME NEW S \in SUBSET Nat, S # {}
    PROVE  \E m \in S : \A n \in S : m <= n
<1>1. PICK m \in S : \A n \in S : ~(<<n, m>> \in OpToRel(<, Nat))
  BY NatLessThanWellFounded, WFMin
<1>2. \A n \in S : ~(n < m)
  BY <1>1 DEF OpToRel
<1> QED
  BY <1>2

LEMMA HighestSeenType ==
    ASSUME NEW vals \in SUBSET Req, NEW c
    PROVE  Batch!HighestSeen(vals, c) \in SeqNo
<1> DEFINE seqs == {v[2] : v \in {w \in vals : w[1] = c}}
<1>1. MaxSeq \in Nat
  BY BatchAssumption
<1>2. seqs \subseteq SeqNo
  BY DEF Req
<1>3. CASE seqs = {}
  <2>1. 0 \in SeqNo
    BY <1>1 DEF SeqNo
  <2> QED
    BY <1>3, <2>1 DEF Batch!HighestSeen
<1>4. CASE seqs # {}
  <2> DEFINE S == {MaxSeq - s : s \in seqs}
  <2>1. S \in SUBSET Nat /\ S # {}
    BY <1>1, <1>2, <1>4 DEF SeqNo
  <2>2. PICK m \in S : \A n \in S : m <= n
    BY <2>1, LeastExists
  <2>3. PICK s \in seqs : m = MaxSeq - s
    BY <2>2
  <2> HIDE DEF seqs
  <2>4. \A t \in seqs : t <= s
    <3> SUFFICES ASSUME NEW t \in seqs PROVE t <= s
      OBVIOUS
    <3>1. MaxSeq - s <= MaxSeq - t
      BY <2>2, <2>3
    <3>2. s \in Nat /\ t \in Nat
      BY <1>2 DEF SeqNo
    <3> QED
      BY <1>1, <3>1, <3>2
  <2>5. (CHOOSE x \in seqs : \A t \in seqs : t <= x) \in seqs
    BY <2>4
  <2> QED
    BY <1>2, <1>4, <2>5 DEF seqs, Batch!HighestSeen
<1> QED
  BY <1>3, <1>4

LEMMA GetBatchType ==
    ASSUME NEW batches \in Seq(BatchPoint), NEW vals \in SUBSET Req,
           NEW es \in SUBSET Batch!Client
    PROVE  /\ Batch!GetBatch(batches, vals, es) \in Seq(BatchPoint)
           /\ Len(batches) <= Len(Batch!GetBatch(batches, vals, es))
<1> DEFINE h == Batch!GetCurrentBatchPoint(vals, es)
<1>1. h \in BatchPoint
  <2>1. \A c \in es : Batch!HighestSeen(vals, c) \in SeqNo
    BY HighestSeenType
  <2> QED
    BY <2>1 DEF Batch!GetCurrentBatchPoint, BatchPoint
<1> HIDE DEF h
<1>2. Batch!GetBatch(batches, vals, es) \in {batches, Append(batches, h)}
  BY Zenon DEF Batch!GetBatch, h
<1>3. Len(batches) \in Nat
  BY LenProperties
<1> QED
  BY <1>1, <1>2, <1>3, AppendProperties

LEMMA IntersectType ==
    ASSUME NEW H \in SUBSET BatchPoint, H # {}
    PROVE  Batch!Intersect(H) \in BatchPoint
<1> DEFINE common == {c \in Batch!Client : \A h \in H : c \in DOMAIN h}
           least(c) == CHOOSE s \in {h[c] : h \in H} : \A h \in H : s <= h[c]
<1>1. ASSUME NEW c \in common PROVE least(c) \in SeqNo
  <2>1. \A h \in H : h[c] \in SeqNo
    BY DEF BatchPoint
  <2>2. PICK s \in {h[c] : h \in H} : \A t \in {h[c] : h \in H} : s <= t
    <3>1. {h[c] : h \in H} \in SUBSET Nat /\ {h[c] : h \in H} # {}
      BY <2>1 DEF SeqNo
    <3> QED
      BY <3>1, LeastExists
  <2>3. least(c) \in {h[c] : h \in H}
    BY <2>2
  <2> QED
    BY <2>1, <2>3
<1>2. Batch!Intersect(H) = [c \in common |-> least(c)]
  BY DEF Batch!Intersect
<1> HIDE DEF least, common
<1>3. [c \in common |-> least(c)] \in [common -> SeqNo]
  BY <1>1
<1>4. common \in SUBSET Batch!Client
  BY DEF common
<1> QED
  BY <1>2, <1>3, <1>4 DEF BatchPoint

LEMMA PointFacts ==
    ASSUME NEW h \in BatchPoint
    PROVE  DOMAIN h \in SUBSET Batch!Client /\ \A c \in DOMAIN h : h[c] \in SeqNo
BY DEF BatchPoint

LEMMA EmptyPoint == <<>> \in BatchPoint /\ DOMAIN <<>> = {} /\ <<>> \in Ranges
<1>1. <<>> \in [{} -> SeqNo] /\ <<>> \in [{} -> OneRange]
  OBVIOUS
<1> QED
  BY <1>1 DEF BatchPoint, Ranges

LEMMA GreaterFacts ==
    ASSUME NEW last \in BatchPoint, NEW nbp \in BatchPoint
    PROVE  /\ Batch!Greater(last, nbp) \in BatchPoint
           /\ DOMAIN Batch!Greater(last, nbp) = DOMAIN nbp
           /\ \A c \in DOMAIN nbp \cap DOMAIN last :
                 last[c] <= Batch!Greater(last, nbp)[c]
<1> DEFINE G(c) == IF c \in DOMAIN last /\ nbp[c] < last[c] THEN last[c] ELSE nbp[c]
<1>1. Batch!Greater(last, nbp) = [c \in DOMAIN nbp |-> G(c)]
  BY DEF Batch!Greater
<1>2. \A c \in DOMAIN nbp : G(c) \in SeqNo
  BY PointFacts
<1>3. \A c \in DOMAIN nbp \cap DOMAIN last : last[c] <= G(c)
  <2>1. \A c \in DOMAIN nbp \cap DOMAIN last : last[c] \in Int /\ nbp[c] \in Int
    BY PointFacts DEF SeqNo
  <2> QED
    BY <2>1
<1> HIDE DEF G
<1>4. [c \in DOMAIN nbp |-> G(c)] \in [DOMAIN nbp -> SeqNo]
  BY <1>2
<1>5. DOMAIN nbp \in SUBSET Batch!Client
  BY PointFacts
<1> QED
  BY <1>1, <1>3, <1>4, <1>5 DEF BatchPoint

(* The ranges between two batchpoints: each is not empty, starts at 0 or   *)
(* after the last batchpoint, and stops at the new one.                    *)
LEMMA RangeMapFacts ==
    ASSUME NEW last \in BatchPoint, NEW bp \in BatchPoint
    PROVE  LET g == Batch!MakeRangeMap(last, bp) IN
           /\ g \in Ranges
           /\ DOMAIN g = {c \in DOMAIN bp : c \notin DOMAIN last \/ bp[c] > last[c]}
           /\ \A c \in DOMAIN g :
                 /\ g[c].stop = bp[c] /\ g[c].start <= g[c].stop
                 /\ g[c].start = 0 \/ (c \in DOMAIN last /\ g[c].start - 1 = last[c])
<1> DEFINE D == {c \in DOMAIN bp : c \notin DOMAIN last \/ bp[c] > last[c]}
           R(c) == [start |-> IF c \in DOMAIN last THEN last[c] + 1 ELSE 0, stop |-> bp[c]]
           g == Batch!MakeRangeMap(last, bp)
<1>1. g = [c \in D |-> R(c)]
  BY DEF Batch!MakeRangeMap
<1>2. ASSUME NEW c \in D
      PROVE  /\ R(c) \in OneRange /\ R(c).stop = bp[c] /\ R(c).start <= R(c).stop
             /\ R(c).start = 0 \/ (c \in DOMAIN last /\ R(c).start - 1 = last[c])
  <2>1. bp[c] \in SeqNo /\ bp[c] \in Nat /\ bp[c] <= MaxSeq /\ MaxSeq \in Nat
    BY PointFacts, BatchAssumption DEF SeqNo
  <2>2. CASE c \in DOMAIN last
    <3>1. last[c] \in Nat /\ bp[c] > last[c]
      BY <2>2, PointFacts DEF SeqNo
    <3>2. R(c) = [start |-> last[c] + 1, stop |-> bp[c]]
      BY <2>2
    <3>3. last[c] + 1 \in SeqNo /\ last[c] + 1 <= bp[c] /\ (last[c] + 1) - 1 = last[c]
      BY <2>1, <3>1 DEF SeqNo
    <3> HIDE DEF R
    <3> QED
      BY <2>1, <2>2, <3>2, <3>3 DEF OneRange
  <2>3. CASE c \notin DOMAIN last
    <3>1. R(c) = [start |-> 0, stop |-> bp[c]]
      BY <2>3
    <3>2. 0 \in SeqNo /\ 0 <= bp[c]
      BY <2>1 DEF SeqNo
    <3> HIDE DEF R
    <3> QED
      BY <2>1, <3>1, <3>2 DEF OneRange
  <2> QED
    BY <2>2, <2>3
<1> HIDE DEF R
<1>3. [c \in D |-> R(c)] \in [D -> OneRange]
  BY <1>2
<1>4. D \in SUBSET Batch!Client
  BY PointFacts
<1>5. g \in Ranges
  BY <1>1, <1>3, <1>4 DEF Ranges
<1> QED
  BY <1>1, <1>2, <1>5

LEMMA BatchInit == Batch!Init => BatchInv
<1> SUFFICES ASSUME Batch!Init PROVE BatchInv
  OBVIOUS
<1> USE DEF Batch!Init
<1>1. <<>> \in Seq(Ranges) /\ <<>> \in Seq(BatchPoint) /\ <<>> \in Seq(Req) /\ Len(<<>>) = 0
  BY EmptySeq
<1>2. BatchType
  BY <1>1 DEF BatchType
<1>3. RangesJoin
  <2>1. 1..Len(commits) = {}
    BY <1>1
  <2>2. DOMAIN LastPoint = {}
    BY DEF LastPoint
  <2> QED
    BY <2>1, <2>2 DEF RangesJoin
<1>4. ExecutesBatches
  <2>1. Done(commits, 0) = <<>>
    BY JoinedFirst DEF Done
  <2> QED
    BY <2>1 DEF ExecutesBatches
<1> QED
  BY <1>2, <1>3, <1>4 DEF BatchInv

LEMMA BatchRequest ==
    ASSUME BatchInv, NEW r \in Acceptor, NEW c \in Batch!Client, Batch!HandleRequest(r, c)
    PROVE  BatchInv'
<1> USE DEF Batch!leaderVars, Batch!execVars
<1>1. BatchType
  BY DEF BatchInv
<1>2. batchNext[r][c] \in Nat /\ batchNext[r][c] <= MaxSeq
  BY <1>1 DEF BatchType, Batch!HandleRequest
<1>3. batchNext' = [batchNext EXCEPT ![r][c] = @ + 1]
  BY DEF Batch!HandleRequest
<1>4. batchNext' \in [Acceptor -> [Batch!Client -> Nat]]
  BY <1>1, <1>2, <1>3 DEF BatchType
<1>5. values' = [values EXCEPT ![r] = @ \cup {<<c, batchNext[r][c]>>}]
  BY DEF Batch!HandleRequest
<1>6. /\ values' \in [Acceptor -> SUBSET Req]
      /\ \A s \in Acceptor : values[s] \subseteq values'[s]
  <2>1. <<c, batchNext[r][c]>> \in Req
    BY <1>2, BatchAssumption DEF Req, SeqNo
  <2> QED
    BY <1>1, <1>5, <2>1 DEF BatchType
<1>7. entries' \in [Acceptor -> SUBSET Batch!Client]
  BY <1>1 DEF BatchType, Batch!HandleRequest
<1>8. /\ batchMap' \in [Acceptor -> Seq(BatchPoint)]
      /\ \A s \in Acceptor : Len(batchMap[s]) <= Len(batchMap'[s])
  <2>1. \A s \in Acceptor : batchMap[s] \in Seq(BatchPoint) /\ Len(batchMap[s]) \in Nat
    BY <1>1, LenProperties DEF BatchType
  <2> DEFINE b == Batch!GetBatch(batchMap[r], values'[r], entries'[r])
  <2>2. b \in Seq(BatchPoint) /\ Len(batchMap[r]) <= Len(b)
    BY <1>6, <1>7, <2>1, GetBatchType
  <2>3. batchMap' = batchMap \/ batchMap' = [batchMap EXCEPT ![r] = b]
    BY Zenon DEF Batch!HandleRequest
  <2> HIDE DEF b
  <2>4. batchMap \in [Acceptor -> Seq(BatchPoint)]
    BY <1>1 DEF BatchType
  <2>5. CASE batchMap' = batchMap
    BY <2>1, <2>4, <2>5
  <2>6. CASE batchMap' = [batchMap EXCEPT ![r] = b]
    BY <2>1, <2>2, <2>4, <2>6
  <2> QED
    BY <2>3, <2>5, <2>6
<1>9. UNCHANGED <<learns, batchPoints, commits, committed, execute, executed, batchAru, updates>>
  BY DEF Batch!HandleRequest
<1>10. BatchType'
  <2>1. \A s \in Acceptor : learns[s] <= Len(batchMap'[s])
    <3>1. \A s \in Acceptor : /\ learns[s] \in Nat /\ learns[s] <= Len(batchMap[s])
                              /\ Len(batchMap[s]) \in Nat /\ Len(batchMap'[s]) \in Nat
      BY <1>1, <1>8, LenProperties DEF BatchType
    <3> QED
      BY <1>8, <3>1
  <2>2. updates' \subseteq Update'
    BY <1>1, <1>9 DEF BatchType, Update
  <2> QED
    BY <1>1, <1>4, <1>6, <1>7, <1>8, <1>9, <2>1, <2>2 DEF BatchType
<1>11. RangesJoin'
  BY <1>9 DEF BatchInv, RangesJoin, LastPoint
<1>12. ExecutesBatches'
  BY <1>6, <1>9 DEF BatchInv, ExecutesBatches, BatchType
<1> QED
  BY <1>10, <1>11, <1>12 DEF BatchInv

LEMMA BatchTimeout ==
    ASSUME BatchInv, NEW r \in Acceptor, Batch!HandleBatchTimeout(r)
    PROVE  BatchInv'
<1> USE DEF Batch!leaderVars, Batch!execVars
<1>1. BatchType
  BY DEF BatchInv
<1>2. UNCHANGED <<batchNext, values, entries, learns, batchPoints, commits, committed,
                  execute, executed, batchAru, updates>>
  BY DEF Batch!HandleBatchTimeout
<1>3. /\ batchMap' \in [Acceptor -> Seq(BatchPoint)]
      /\ \A s \in Acceptor : Len(batchMap[s]) <= Len(batchMap'[s])
  <2>1. \A s \in Acceptor : batchMap[s] \in Seq(BatchPoint) /\ Len(batchMap[s]) \in Nat
    BY <1>1, LenProperties DEF BatchType
  <2> DEFINE b == Batch!GetBatch(batchMap[r], values[r], entries[r])
  <2>2. b \in Seq(BatchPoint) /\ Len(batchMap[r]) <= Len(b)
    BY <1>1, <2>1, GetBatchType DEF BatchType
  <2>3. batchMap' = [batchMap EXCEPT ![r] = b]
    BY DEF Batch!HandleBatchTimeout
  <2> HIDE DEF b
  <2> QED
    BY <1>1, <2>1, <2>2, <2>3 DEF BatchType
<1>4. BatchType'
  <2>1. \A s \in Acceptor : learns[s] <= Len(batchMap'[s])
    <3>1. \A s \in Acceptor : /\ learns[s] \in Nat /\ learns[s] <= Len(batchMap[s])
                              /\ Len(batchMap[s]) \in Nat /\ Len(batchMap'[s]) \in Nat
      BY <1>1, <1>3, LenProperties DEF BatchType
    <3> QED
      BY <1>3, <3>1
  <2>2. updates' \subseteq Update'
    BY <1>1, <1>2 DEF BatchType, Update
  <2> QED
    BY <1>1, <1>2, <1>3, <2>1, <2>2 DEF BatchType
<1>5. RangesJoin'
  BY <1>2 DEF BatchInv, RangesJoin, LastPoint
<1>6. ExecutesBatches'
  BY <1>2 DEF BatchInv, ExecutesBatches
<1> QED
  BY <1>4, <1>5, <1>6 DEF BatchInv

(* What the leader commits joins what it has committed.                    *)
LEMMA CommitJoins ==
    ASSUME BatchInv, NEW nbp \in BatchPoint,
           commits' = Append(commits,
               IF Batch!Advances(LastPoint, nbp)
               THEN Batch!MakeRangeMap(LastPoint, Batch!Greater(LastPoint, nbp)) ELSE <<>>),
           batchPoints' = IF Batch!Advances(LastPoint, nbp)
                          THEN Append(batchPoints, Batch!Greater(LastPoint, nbp))
                          ELSE batchPoints
    PROVE  /\ commits' \in Seq(Ranges) /\ Len(commits') = Len(commits) + 1
           /\ \A k \in 1..Len(commits) : commits'[k] = commits[k]
           /\ batchPoints' \in Seq(BatchPoint)
           /\ RangesJoin'
<1>1. /\ commits \in Seq(Ranges) /\ batchPoints \in Seq(BatchPoint)
      /\ Len(commits) \in Nat /\ Len(batchPoints) \in Nat
  BY LenProperties DEF BatchInv, BatchType
<1>2. LastPoint \in BatchPoint
  <2>1. CASE batchPoints = <<>>
    BY <2>1, EmptyPoint DEF LastPoint
  <2>2. CASE batchPoints # <<>>
    <3>1. Len(batchPoints) \in 1..Len(batchPoints)
      BY <1>1, <2>2, EmptySeq
    <3> QED
      BY <1>1, <2>2, <3>1, ElementOfSeq DEF LastPoint, Batch!Last
  <2> QED
    BY <2>1, <2>2
<1> DEFINE last == LastPoint
           bp == Batch!Greater(last, nbp)
           A == Batch!Advances(last, nbp)
           g == IF A THEN Batch!MakeRangeMap(last, bp) ELSE <<>>
<1>3. /\ bp \in BatchPoint /\ DOMAIN bp = DOMAIN nbp
      /\ \A c \in DOMAIN nbp \cap DOMAIN last : last[c] <= bp[c]
  BY <1>2, GreaterFacts
<1>4. g \in Ranges
  <2>1. CASE A
    BY <1>2, <1>3, <2>1, RangeMapFacts
  <2>2. CASE ~A
    BY <2>2, EmptyPoint
  <2> QED
    BY <2>1, <2>2
<1>5. commits' = Append(commits, g)
  OBVIOUS
<1>6. batchPoints' = IF A THEN Append(batchPoints, bp) ELSE batchPoints
  OBVIOUS
<1>7. /\ \A c \in DOMAIN g :
            /\ g[c].start \in Nat /\ g[c].stop \in Nat /\ g[c].start <= g[c].stop
            /\ g[c].start = 0 \/ (c \in DOMAIN last /\ g[c].start - 1 = last[c])
      /\ A => \A c \in DOMAIN bp :
                \/ c \in DOMAIN g /\ g[c].stop = bp[c]
                \/ c \in DOMAIN last /\ bp[c] = last[c]
  <2>1. CASE A
    <3>1. /\ g \in Ranges
          /\ DOMAIN g = {c \in DOMAIN bp : c \notin DOMAIN last \/ bp[c] > last[c]}
          /\ \A c \in DOMAIN g :
                /\ g[c].stop = bp[c] /\ g[c].start <= g[c].stop
                /\ g[c].start = 0 \/ (c \in DOMAIN last /\ g[c].start - 1 = last[c])
      BY <1>2, <1>3, <2>1, RangeMapFacts
    <3>2. \A c \in DOMAIN g : g[c].start \in Nat /\ g[c].stop \in Nat
      BY <3>1, RangesType
    <3>3. \A c \in DOMAIN bp \cap DOMAIN last :
              bp[c] \in Nat /\ last[c] \in Nat /\ last[c] <= bp[c]
      BY <1>2, <1>3, PointFacts DEF SeqNo
    <3> HIDE DEF g, A, bp, last
    <3>4. \A c \in DOMAIN bp : \/ c \in DOMAIN g /\ g[c].stop = bp[c]
                               \/ c \in DOMAIN last /\ bp[c] = last[c]
      BY <3>1, <3>3
    <3> QED
      BY <3>1, <3>2, <3>4
  <2>2. CASE ~A
    BY <2>2, EmptyPoint
  <2> QED
    BY <2>1, <2>2
<1> HIDE DEF g, A, bp, last
<1>8. /\ commits' \in Seq(Ranges) /\ Len(commits') = Len(commits) + 1
      /\ \A k \in 1..Len(commits) : commits'[k] = commits[k]
      /\ commits'[Len(commits) + 1] = g
  BY <1>1, <1>4, <1>5, AppendProperties
<1>9. batchPoints' \in Seq(BatchPoint)
  BY <1>1, <1>3, <1>6, AppendProperties
<1>10. LastPoint' = IF A THEN bp ELSE last
  <2>1. CASE A
    <3>1. /\ batchPoints' # <<>> /\ Len(batchPoints') = Len(batchPoints) + 1
          /\ batchPoints'[Len(batchPoints) + 1] = bp
      BY <1>1, <1>3, <1>6, <2>1, AppendProperties
    <3> QED
      BY <2>1, <3>1 DEF LastPoint, Batch!Last
  <2>2. CASE ~A
    BY <1>6, <2>2 DEF LastPoint, last
  <2> QED
    BY <2>1, <2>2
<1>11. \A c \in DOMAIN last :
           \E k \in 1..Len(commits) : <<c, last[c]>> \in Batch!InRanges(commits[k])
  BY DEF BatchInv, RangesJoin, last
<1>12. ASSUME NEW k \in 1..Len(commits'), NEW c \in DOMAIN commits'[k]
       PROVE  \/ commits'[k][c].start = 0
              \/ \E j \in 1..(k - 1) :
                    <<c, commits'[k][c].start - 1>> \in Batch!InRanges(commits'[j])
  <2>1. CASE k \in 1..Len(commits)
    <3>1. commits'[k] = commits[k]
      BY <1>8, <2>1
    <3>2. \/ commits[k][c].start = 0
          \/ \E j \in 1..(k - 1) :
                <<c, commits[k][c].start - 1>> \in Batch!InRanges(commits[j])
      BY <2>1, <3>1 DEF BatchInv, RangesJoin
    <3>3. \A j \in 1..(k - 1) : commits'[j] = commits[j]
      BY <1>1, <1>8, <2>1
    <3> QED
      BY <3>1, <3>2, <3>3
  <2>2. CASE k \notin 1..Len(commits)
    <3>1. k = Len(commits) + 1 /\ k - 1 = Len(commits)
      BY <1>1, <1>8, <2>2
    <3>2. commits'[k] = g
      BY <1>8, <3>1
    <3>3. g[c].start = 0 \/ (c \in DOMAIN last /\ g[c].start - 1 = last[c])
      BY <1>7, <3>2
    <3>4. ASSUME c \in DOMAIN last, g[c].start - 1 = last[c]
          PROVE  \E j \in 1..(k - 1) : <<c, g[c].start - 1>> \in Batch!InRanges(commits'[j])
      <4>1. PICK j \in 1..Len(commits) : <<c, last[c]>> \in Batch!InRanges(commits[j])
        BY <1>11, <3>4
      <4>2. j \in 1..(k - 1) /\ commits'[j] = commits[j]
        BY <1>8, <3>1, <4>1
      <4> QED
        BY <3>4, <4>1, <4>2
    <3> QED
      BY <3>2, <3>3, <3>4
  <2> QED
    BY <2>1, <2>2
<1>13. ASSUME NEW c \in DOMAIN LastPoint'
       PROVE  \E k \in 1..Len(commits') : <<c, LastPoint'[c]>> \in Batch!InRanges(commits'[k])
  <2>1. ASSUME c \in DOMAIN last, LastPoint'[c] = last[c]
        PROVE  \E k \in 1..Len(commits') : <<c, LastPoint'[c]>> \in Batch!InRanges(commits'[k])
    <3>1. PICK k \in 1..Len(commits) : <<c, last[c]>> \in Batch!InRanges(commits[k])
      BY <1>11, <2>1
    <3>2. k \in 1..Len(commits') /\ commits'[k] = commits[k]
      BY <1>1, <1>8, <3>1
    <3> QED
      BY <2>1, <3>1, <3>2
  <2>2. CASE ~A
    BY <1>10, <2>1, <2>2
  <2>3. CASE A
    <3>1. LastPoint' = bp /\ c \in DOMAIN bp
      BY <1>10, <2>3
    <3>2. CASE c \in DOMAIN last /\ bp[c] = last[c]
      BY <2>1, <3>1, <3>2
    <3>3. CASE c \in DOMAIN g /\ g[c].stop = bp[c]
      <4>1. g[c].stop \in g[c].start..g[c].stop
        BY <1>7, <3>3
      <4>2. <<c, bp[c]>> \in Batch!InRanges(g)
        BY <3>3, <4>1 DEF Batch!InRanges
      <4>3. Len(commits) + 1 \in 1..Len(commits')
        BY <1>1, <1>8
      <4> QED
        BY <1>8, <3>1, <4>2, <4>3
    <3> QED
      BY <1>7, <2>3, <3>1, <3>2, <3>3
  <2> QED
    BY <2>2, <2>3
<1>14. RangesJoin'
  BY <1>12, <1>13 DEF RangesJoin
<1> QED
  BY <1>8, <1>9, <1>14

LEMMA SameCardinality == ASSUME NEW S PROVE Batch!Cardinality(S) = Cardinality(S)
BY DEF Batch!Cardinality, Cardinality

LEMMA BatchLearn ==
    ASSUME BatchInv, NEW r \in Acceptor, Batch!HandleLearnMsg(r)
    PROVE  BatchInv'
<1> USE DEF Batch!replicaVars, Batch!execVars
<1>1. BatchType
  BY DEF BatchInv
<1> DEFINE k == learns[r] + 1
           from == {s \in Acceptor : learns'[s] >= k}
           H == {batchMap[s][k] : s \in from}
           nbp == Batch!Intersect(H)
<1>2. UNCHANGED <<batchNext, values, entries, batchMap, committed, execute, executed,
                  batchAru, updates>>
  BY DEF Batch!HandleLearnMsg
<1>3. k <= Len(batchMap[r]) /\ learns' = [learns EXCEPT ![r] = k]
  BY DEF Batch!HandleLearnMsg
<1>4. \A s \in Acceptor : /\ learns[s] \in Nat /\ batchMap[s] \in Seq(BatchPoint)
                          /\ Len(batchMap[s]) \in Nat /\ learns[s] <= Len(batchMap[s])
  BY <1>1, LenProperties DEF BatchType
<1>10. IF Cardinality(from) = Batch!Quorum
       THEN /\ batchPoints' = IF Batch!Advances(LastPoint, nbp)
                              THEN Append(batchPoints, Batch!Greater(LastPoint, nbp))
                              ELSE batchPoints
            /\ commits' = Append(commits,
                  IF Batch!Advances(LastPoint, nbp)
                  THEN Batch!MakeRangeMap(LastPoint, Batch!Greater(LastPoint, nbp))
                  ELSE <<>>)
       ELSE UNCHANGED <<batchPoints, commits>>
  BY SameCardinality DEF Batch!HandleLearnMsg, LastPoint
<1>5. /\ learns' \in [Acceptor -> Nat]
      /\ \A s \in Acceptor : learns'[s] \in Nat /\ learns'[s] <= Len(batchMap[s])
  BY <1>1, <1>3, <1>4 DEF BatchType
<1>6. CASE Cardinality(from) = Batch!Quorum
  <2>1. from # {}
    <3>1. Cardinality(Acceptor) \in Nat
      BY ProcessorsAssumption, FS_CardinalityType
    <3>2. Batch!Quorum \in Nat /\ Batch!Quorum >= 1
      BY <3>1, SameCardinality DEF Batch!Quorum
    <3> QED
      BY <1>6, <3>2, SameCardinality, FS_EmptySet
  <2>2. H \in SUBSET BatchPoint /\ H # {}
    <3>1. \A s \in from : k \in 1..Len(batchMap[s])
      BY <1>4, <1>5
    <3>2. \A s \in from : batchMap[s][k] \in BatchPoint
      BY <1>4, <3>1, ElementOfSeq
    <3> QED
      BY <2>1, <3>2
  <2>3. nbp \in BatchPoint
    BY <2>2, IntersectType
  <2>4. /\ batchPoints' = IF Batch!Advances(LastPoint, nbp)
                          THEN Append(batchPoints, Batch!Greater(LastPoint, nbp))
                          ELSE batchPoints
        /\ commits' = Append(commits,
               IF Batch!Advances(LastPoint, nbp)
               THEN Batch!MakeRangeMap(LastPoint, Batch!Greater(LastPoint, nbp)) ELSE <<>>)
    BY <1>10, <1>6
  <2> HIDE DEF nbp, H, from, k
  <2>5. /\ commits' \in Seq(Ranges) /\ Len(commits') = Len(commits) + 1
        /\ \A i \in 1..Len(commits) : commits'[i] = commits[i]
        /\ batchPoints' \in Seq(BatchPoint)
        /\ RangesJoin'
    BY <2>3, <2>4, CommitJoins
  <2>6. commits \in Seq(Ranges) /\ Len(commits) \in Nat /\ Len(commits) <= Len(commits')
    BY <1>1, <2>5, LenProperties DEF BatchType
  <2>7. 1..Len(commits) \subseteq 1..Len(commits') /\ 0..Len(commits) \subseteq 0..Len(commits')
    BY <2>5, <2>6
  <2>8. BatchType'
    <3>1. Update \subseteq Update'
      BY <2>7 DEF Update
    <3>2. execute' \in [Acceptor -> SUBSET (1..Len(commits'))]
      BY <1>1, <1>2, <2>7 DEF BatchType
    <3>3. batchAru' \in [Acceptor -> 0..Len(commits')]
      BY <1>1, <1>2, <2>7 DEF BatchType
    <3>4. updates' \subseteq Update'
      BY <1>1, <1>2, <3>1 DEF BatchType
    <3> QED
      BY <1>1, <1>2, <1>5, <2>5, <3>2, <3>3, <3>4 DEF BatchType
  <2>9. ExecutesBatches'
    <3> SUFFICES ASSUME NEW s \in Acceptor
                 PROVE  /\ 1..batchAru[s] \subseteq execute[s]
                        /\ executed[s] = Done(commits', batchAru[s])
                        /\ \A i \in execute[s] : Batch!InRanges(commits'[i]) \subseteq values[s]
      BY <1>2 DEF ExecutesBatches
    <3>1. /\ 1..batchAru[s] \subseteq execute[s]
          /\ executed[s] = Done(commits, batchAru[s])
          /\ \A i \in execute[s] : Batch!InRanges(commits[i]) \subseteq values[s]
      BY DEF BatchInv, ExecutesBatches
    <3>2. batchAru[s] \in 0..Len(commits) /\ execute[s] \subseteq 1..Len(commits)
      BY <1>1 DEF BatchType
    <3>3. Done(commits', batchAru[s]) = Done(commits, batchAru[s])
      BY <2>5, <2>6, <3>2, DoneAgrees
    <3>4. \A i \in execute[s] : commits'[i] = commits[i]
      BY <2>5, <3>2
    <3> QED
      BY <3>1, <3>3, <3>4
  <2> QED
    BY <2>5, <2>8, <2>9 DEF BatchInv
<1>7. CASE Cardinality(from) # Batch!Quorum
  <2>1. UNCHANGED <<batchPoints, commits>>
    BY <1>10, <1>7
  <2>2. BatchType'
    <3>1. updates' \subseteq Update'
      BY <1>1, <1>2, <2>1 DEF BatchType, Update
    <3> QED
      BY <1>1, <1>2, <1>5, <2>1, <3>1 DEF BatchType
  <2>3. RangesJoin'
    BY <2>1 DEF BatchInv, RangesJoin, LastPoint
  <2>4. ExecutesBatches'
    BY <1>2, <2>1 DEF BatchInv, ExecutesBatches
  <2> QED
    BY <2>2, <2>3, <2>4 DEF BatchInv
<1> QED
  BY <1>6, <1>7

(* tryToAdvance executes the batches that come next.                       *)
LEMMA AdvanceFacts ==
    ASSUME BatchInv, NEW r \in Acceptor, NEW E \in SUBSET (1..Len(commits)),
           execute[r] \subseteq E, Batch!TryToAdvance(r, E)
    PROVE  \E a \in 0..Len(commits) :
              /\ 1..a \subseteq E
              /\ batchAru' = [batchAru EXCEPT ![r] = a]
              /\ executed' = [executed EXCEPT ![r] = Done(commits, a)]
<1> DEFINE n == Len(commits)
           b == batchAru[r]
           Good(k) == 1..k \subseteq E /\ k + 1 \notin E
           a == CHOOSE k \in 0..n : Good(k)
<1>1. /\ commits \in Seq(Ranges) /\ n \in Nat /\ b \in 0..n /\ 1..b \subseteq E
      /\ executed[r] = Done(commits, b)
  BY LenProperties DEF BatchInv, BatchType, ExecutesBatches
<1>2. \E k \in 0..n : Good(k)
  <2> DEFINE S == {k \in Nat : k + 1 \notin E}
  <2>1. n \in S
    BY <1>1
  <2>2. PICK k \in S : \A l \in S : k <= l
    BY <2>1, LeastExists
  <2>3. k \in 0..n
    BY <1>1, <2>1, <2>2
  <2>4. ASSUME NEW i \in 1..k PROVE i \in E
    <3>1. i - 1 \in Nat /\ ~(k <= i - 1) /\ (i - 1) + 1 = i
      BY <2>3
    <3>2. i - 1 \notin S
      BY <2>2, <3>1
    <3> QED
      BY <3>1, <3>2
  <2> QED
    BY <2>2, <2>3, <2>4
<1>3. a \in 0..n /\ Good(a)
  BY <1>2
<1>4. /\ executed' = [executed EXCEPT ![r] =
             @ \o Batch!FlattenSeq([i \in 1..(a - b) |-> Batch!ForEach(commits[b + i])])]
      /\ batchAru' = [batchAru EXCEPT ![r] = a]
  BY DEF Batch!TryToAdvance
<1> HIDE DEF a
<1>5. b <= a
  <2> SUFFICES ASSUME a < b PROVE FALSE
    BY <1>1, <1>3
  <2>1. a + 1 \in 1..b
    BY <1>1, <1>3
  <2> QED
    BY <1>1, <1>3, <2>1
<1>6. PICK u : u = [i \in 1..(a - b) |-> Batch!ForEach(commits[b + i])]
  OBVIOUS
<1>7. Cat(Done(commits, b), Batch!FlattenSeq(u)) = Done(commits, a)
  <2>1. b \in 0..Len(commits) /\ a \in b..Len(commits)
    BY <1>1, <1>3, <1>5
  <2> QED
    BY <1>1, <1>6, <2>1, DoneSplit
<1>8. executed' = [executed EXCEPT ![r] = Done(commits, a)]
  BY <1>1, <1>4, <1>6, <1>7 DEF Cat
<1> QED
  BY <1>3, <1>4, <1>8

(* A batch more may be executed, as all requests of it are there.          *)
LEMMA ExecutesMore ==
    ASSUME BatchInv, NEW r \in Acceptor, NEW k \in 1..Len(commits),
           UNCHANGED commits,
           execute' = [execute EXCEPT ![r] = @ \cup {k}],
           Batch!TryToAdvance(r, execute'[r]),
           \A s \in Acceptor : values[s] \subseteq values'[s],
           Batch!InRanges(commits[k]) \subseteq values'[r]
    PROVE  /\ execute' \in [Acceptor -> SUBSET (1..Len(commits))]
           /\ executed' \in [Acceptor -> Seq(Req)]
           /\ batchAru' \in [Acceptor -> 0..Len(commits)]
           /\ ExecutesBatches'
<1>1. /\ execute \in [Acceptor -> SUBSET (1..Len(commits))]
      /\ executed \in [Acceptor -> Seq(Req)]
      /\ batchAru \in [Acceptor -> 0..Len(commits)]
      /\ commits \in Seq(Ranges)
  BY DEF BatchInv, BatchType
<1> DEFINE E == execute[r] \cup {k}
<1>2. E \in SUBSET (1..Len(commits)) /\ execute[r] \subseteq E
  BY <1>1
<1>3. execute'[r] = E /\ \A s \in Acceptor : s # r => execute'[s] = execute[s]
  BY <1>1
<1> HIDE DEF E
<1>4. PICK a \in 0..Len(commits) :
         /\ 1..a \subseteq E
         /\ batchAru' = [batchAru EXCEPT ![r] = a]
         /\ executed' = [executed EXCEPT ![r] = Done(commits, a)]
  BY <1>2, <1>3, AdvanceFacts
<1>5. Done(commits, a) \in Seq(Req)
  BY <1>1, DoneType
<1>6. \A s \in Acceptor :
          /\ 1..batchAru[s] \subseteq execute[s]
          /\ executed[s] = Done(commits, batchAru[s])
          /\ \A i \in execute[s] : Batch!InRanges(commits[i]) \subseteq values[s]
  BY DEF BatchInv, ExecutesBatches
<1>7. execute' \in [Acceptor -> SUBSET (1..Len(commits))]
  BY <1>1, <1>2 DEF E
<1>8. /\ executed' \in [Acceptor -> Seq(Req)]
      /\ batchAru' \in [Acceptor -> 0..Len(commits)]
  BY <1>1, <1>4, <1>5
<1>9. ASSUME NEW s \in Acceptor
      PROVE  /\ 1..batchAru'[s] \subseteq execute'[s]
             /\ executed'[s] = Done(commits, batchAru'[s])
             /\ \A i \in execute'[s] : Batch!InRanges(commits[i]) \subseteq values'[s]
  <2>1. CASE s = r
    <3>1. batchAru'[s] = a /\ executed'[s] = Done(commits, a) /\ execute'[s] = E
      BY <1>1, <1>3, <1>4, <2>1
    <3>2. \A i \in E : Batch!InRanges(commits[i]) \subseteq values'[s]
      BY <1>6, <2>1 DEF E
    <3> QED
      BY <1>4, <3>1, <3>2
  <2>2. CASE s # r
    <3>1. batchAru'[s] = batchAru[s] /\ executed'[s] = executed[s] /\ execute'[s] = execute[s]
      BY <1>1, <1>3, <1>4, <2>2
    <3>2. \A i \in execute[s] : Batch!InRanges(commits[i]) \subseteq values'[s]
      BY <1>6
    <3> QED
      BY <1>6, <3>1, <3>2
  <2> QED
    BY <2>1, <2>2
<1>10. ExecutesBatches'
  BY <1>9 DEF ExecutesBatches
<1> QED
  BY <1>7, <1>8, <1>10

(* With no incomplete range all requests are there.                        *)
LEMMA NoneIncomplete ==
    ASSUME NEW vals, NEW g, DOMAIN Batch!GetIncompleteRanges(vals, g) = {}
    PROVE  Batch!InRanges(g) \subseteq vals
<1>1. \A c \in DOMAIN g : \A s \in g[c].start..g[c].stop : <<c, s>> \in vals
  BY DEF Batch!GetIncompleteRanges
<1> QED
  BY <1>1 DEF Batch!InRanges

LEMMA IncompleteType ==
    ASSUME NEW vals, NEW g \in Ranges
    PROVE  Batch!GetIncompleteRanges(vals, g) \in Ranges
<1> DEFINE D == {c \in DOMAIN g : \E s \in g[c].start..g[c].stop : <<c, s>> \notin vals}
<1>1. Batch!GetIncompleteRanges(vals, g) = [c \in D |-> g[c]]
  BY DEF Batch!GetIncompleteRanges
<1>2. D \in SUBSET Batch!Client /\ \A c \in D : g[c] \in OneRange
  BY RangesType
<1> HIDE DEF D
<1>3. [c \in D |-> g[c]] \in [D -> OneRange]
  BY <1>2
<1> QED
  BY <1>1, <1>2, <1>3 DEF Ranges

LEMMA InRangesType ==
    ASSUME NEW g \in Ranges
    PROVE  Batch!InRanges(g) \subseteq Req
<1> SUFFICES ASSUME NEW c \in DOMAIN g, NEW s \in g[c].start..g[c].stop
             PROVE  <<c, s>> \in Req
  BY DEF Batch!InRanges
<1>1. c \in Batch!Client /\ g[c].start \in SeqNo /\ g[c].stop \in SeqNo
  BY RangesType
<1>2. s \in SeqNo
  BY <1>1, BatchAssumption DEF SeqNo
<1> QED
  BY <1>1, <1>2 DEF Req

LEMMA BatchCommit ==
    ASSUME BatchInv, NEW r \in Acceptor, Batch!HandleCommitMsg(r)
    PROVE  BatchInv'
<1> USE DEF Batch!leaderVars
<1>1. BatchType
  BY DEF BatchInv
<1> DEFINE k == committed[r] + 1
           inc == Batch!GetIncompleteRanges(values[r], commits[k])
<1>2. /\ k <= Len(commits)
      /\ committed' = [committed EXCEPT ![r] = k]
      /\ entries' = [entries EXCEPT ![r] = @ \cup DOMAIN commits[k]]
      /\ UNCHANGED <<batchNext, values, batchMap, learns, batchPoints, commits>>
  BY DEF Batch!HandleCommitMsg
<1>3. k \in 1..Len(commits) /\ commits \in Seq(Ranges) /\ commits[k] \in Ranges
  <2>1. Len(commits) \in Nat /\ committed[r] \in Nat /\ commits \in Seq(Ranges)
    BY <1>1, LenProperties DEF BatchType
  <2>2. k \in 1..Len(commits)
    BY <1>2, <2>1
  <2> QED
    BY <2>1, <2>2, ElementOfSeq
<1>4. IF DOMAIN inc = {}
      THEN /\ execute' = [execute EXCEPT ![r] = @ \cup {k}]
           /\ Batch!TryToAdvance(r, execute'[r])
           /\ UNCHANGED updates
      ELSE /\ updates' = updates \cup
                {[to |-> s, from |-> r, batch |-> k, ranges |-> inc,
                  reply |-> FALSE] : s \in Acceptor}
           /\ UNCHANGED <<execute, executed, batchAru>>
  BY DEF Batch!HandleCommitMsg
<1> HIDE DEF k
<1>5. /\ entries' \in [Acceptor -> SUBSET Batch!Client]
      /\ committed' \in [Acceptor -> Nat]
  BY <1>1, <1>2, <1>3, RangesType DEF BatchType
<1>6. updates' \subseteq Update
  <2>1. inc \in Ranges
    BY <1>3, IncompleteType
  <2> HIDE DEF inc
  <2>2. \A s \in Acceptor : [to |-> s, from |-> r, batch |-> k, ranges |-> inc,
                             reply |-> FALSE] \in Update
    BY <1>3, <2>1 DEF Update
  <2> QED
    BY <1>1, <1>4, <2>2 DEF BatchType
<1>7. /\ execute' \in [Acceptor -> SUBSET (1..Len(commits))]
      /\ executed' \in [Acceptor -> Seq(Req)]
      /\ batchAru' \in [Acceptor -> 0..Len(commits)]
      /\ ExecutesBatches'
  <2>1. CASE DOMAIN inc = {}
    <3>1. Batch!InRanges(commits[k]) \subseteq values'[r]
      BY <1>2, <2>1, NoneIncomplete
    <3> HIDE DEF inc
    <3> QED
      BY <1>2, <1>3, <1>4, <2>1, <3>1, ExecutesMore
  <2>2. CASE DOMAIN inc # {}
    BY <1>1, <1>2, <1>4, <2>2 DEF BatchType, BatchInv, ExecutesBatches
  <2> QED
    BY <2>1, <2>2
<1> HIDE DEF inc
<1>8. BatchType'
  BY <1>1, <1>2, <1>5, <1>6, <1>7 DEF BatchType, Update
<1>9. RangesJoin'
  BY <1>2 DEF BatchInv, RangesJoin, LastPoint
<1> QED
  BY <1>7, <1>8, <1>9 DEF BatchInv

LEMMA BatchUpdateRequest ==
    ASSUME BatchInv, NEW m \in updates, Batch!HandleUpdateRequest(m)
    PROVE  BatchInv'
<1> USE DEF Batch!leaderVars, Batch!execVars
<1>1. BatchType
  BY DEF BatchInv
<1>2. m \in Update
  BY <1>1 DEF BatchType
<1>3. /\ m.to \in Acceptor /\ m.from \in Acceptor /\ m.batch \in 1..Len(commits)
      /\ m.ranges \in Ranges
  BY <1>2 DEF Update
<1>4. /\ entries' = [entries EXCEPT ![m.to] = @ \cup DOMAIN m.ranges]
      /\ UNCHANGED <<batchNext, values, batchMap, learns, batchPoints, commits,
                     committed, execute, executed, batchAru>>
  BY DEF Batch!HandleUpdateRequest
<1> DEFINE reply == [to |-> m.from, from |-> m.to, batch |-> m.batch,
                     ranges |-> m.ranges, reply |-> TRUE]
<1>5. updates' \subseteq updates \cup {reply}
  BY DEF Batch!HandleUpdateRequest
<1>6. reply \in Update
  BY <1>3 DEF Update
<1> HIDE DEF reply
<1>7. entries' \in [Acceptor -> SUBSET Batch!Client]
  BY <1>1, <1>3, <1>4, RangesType DEF BatchType
<1>8. BatchType'
  <2>1. updates' \subseteq Update
    BY <1>1, <1>5, <1>6 DEF BatchType
  <2> QED
    BY <1>1, <1>4, <1>7, <2>1 DEF BatchType, Update
<1>9. RangesJoin'
  BY <1>4 DEF BatchInv, RangesJoin, LastPoint
<1>10. ExecutesBatches'
  BY <1>4 DEF BatchInv, ExecutesBatches
<1> QED
  BY <1>8, <1>9, <1>10 DEF BatchInv

LEMMA BatchUpdateReply ==
    ASSUME BatchInv, NEW m \in updates, Batch!HandleUpdateReply(m)
    PROVE  BatchInv'
<1> USE DEF Batch!leaderVars
<1>1. BatchType
  BY DEF BatchInv
<1>2. m \in Update
  BY <1>1 DEF BatchType
<1>3. m.to \in Acceptor /\ m.batch \in 1..Len(commits) /\ m.ranges \in Ranges
  BY <1>2 DEF Update
<1>4. /\ updates' = updates \ {m}
      /\ UNCHANGED <<batchNext, entries, batchMap, learns, batchPoints, commits, committed>>
  BY DEF Batch!HandleUpdateReply
<1>5. IF m.batch \in execute[m.to]
      THEN UNCHANGED <<values, execute, executed, batchAru>>
      ELSE /\ values' = [values EXCEPT ![m.to] = @ \cup Batch!InRanges(m.ranges)]
           /\ DOMAIN Batch!GetIncompleteRanges(values'[m.to], commits[m.batch]) = {}
           /\ execute' = [execute EXCEPT ![m.to] = @ \cup {m.batch}]
           /\ Batch!TryToAdvance(m.to, execute'[m.to])
  BY DEF Batch!HandleUpdateReply
<1>6. /\ values' \in [Acceptor -> SUBSET Req]
      /\ \A s \in Acceptor : values[s] \subseteq values'[s]
  <2>1. Batch!InRanges(m.ranges) \subseteq Req
    BY <1>3, InRangesType
  <2>2. values \in [Acceptor -> SUBSET Req]
    BY <1>1 DEF BatchType
  <2>3. \/ values' = values
        \/ values' = [values EXCEPT ![m.to] = @ \cup Batch!InRanges(m.ranges)]
    BY <1>5
  <2>4. CASE values' = values
    BY <2>2, <2>4
  <2>5. CASE values' = [values EXCEPT ![m.to] = @ \cup Batch!InRanges(m.ranges)]
    BY <1>3, <2>1, <2>2, <2>5
  <2> QED
    BY <2>3, <2>4, <2>5
<1>7. /\ execute' \in [Acceptor -> SUBSET (1..Len(commits))]
      /\ executed' \in [Acceptor -> Seq(Req)]
      /\ batchAru' \in [Acceptor -> 0..Len(commits)]
      /\ ExecutesBatches'
  <2>1. CASE m.batch \in execute[m.to]
    BY <1>1, <1>4, <1>5, <2>1 DEF BatchType, BatchInv, ExecutesBatches
  <2>2. CASE m.batch \notin execute[m.to]
    <3>1. Batch!InRanges(commits[m.batch]) \subseteq values'[m.to]
      BY <1>5, <2>2, NoneIncomplete
    <3> QED
      BY <1>3, <1>4, <1>5, <1>6, <2>2, <3>1, ExecutesMore
  <2> QED
    BY <2>1, <2>2
<1>8. BatchType'
  BY <1>1, <1>4, <1>6, <1>7 DEF BatchType, Update
<1>9. RangesJoin'
  BY <1>4 DEF BatchInv, RangesJoin, LastPoint
<1> QED
  BY <1>7, <1>8, <1>9 DEF BatchInv

LEMMA BatchStep == BatchInv /\ [Batch!Next]_(Batch!vars) => BatchInv'
<1> SUFFICES ASSUME BatchInv, [Batch!Next]_(Batch!vars) PROVE BatchInv'
  OBVIOUS
<1>1. CASE UNCHANGED Batch!vars
  <2>1. UNCHANGED <<batchNext, values, entries, batchMap, learns, batchPoints, commits,
                    committed, execute, executed, batchAru, updates>>
    BY <1>1 DEF Batch!vars, Batch!replicaVars, Batch!leaderVars, Batch!execVars
  <2>2. BatchType'
    BY <2>1 DEF BatchInv, BatchType, Update
  <2>3. RangesJoin'
    BY <2>1 DEF BatchInv, RangesJoin, LastPoint
  <2>4. ExecutesBatches'
    BY <2>1 DEF BatchInv, ExecutesBatches
  <2> QED
    BY <2>2, <2>3, <2>4 DEF BatchInv
<1>2. CASE Batch!Next
  BY <1>2, BatchRequest, BatchTimeout, BatchLearn, BatchCommit, BatchUpdateRequest,
     BatchUpdateReply DEF Batch!Next
<1> QED
  BY <1>1, <1>2

LEMMA BatchInductive == Batch!Spec => []BatchInv
BY BatchInit, BatchStep, PTL DEF Batch!Spec

-----------------------------------------------------------------------------
(* What follows.                                                           *)

LEMMA DonePrefix ==
    ASSUME NEW cs \in Seq(Ranges), NEW b \in 0..Len(cs), NEW a \in b..Len(cs)
    PROVE  Batch!IsPrefix(Done(cs, b), Done(cs, a))
<1>1. Len(cs) \in Nat /\ b \in Nat /\ a \in Nat /\ b <= a /\ a <= Len(cs)
  BY LenProperties
<1>2. PICK u : u = [i \in 1..(a - b) |-> Batch!ForEach(cs[b + i])]
  OBVIOUS
<1>3. u \in Seq(Seq(Req))
  <2>1. a - b \in Nat
    BY <1>1
  <2>2. \A i \in 1..(a - b) : Batch!ForEach(cs[b + i]) \in Seq(Req)
    <3> SUFFICES ASSUME NEW i \in 1..(a - b) PROVE Batch!ForEach(cs[b + i]) \in Seq(Req)
      OBVIOUS
    <3>1. b + i \in 1..Len(cs)
      BY <1>1
    <3> QED
      BY <3>1, BatchesType, ForEachFacts
  <2> QED
    BY <1>2, <2>1, <2>2
<1>4. PICK p \in Seq(Req), q \in Seq(Req), t \in Seq(Req) :
         p = Done(cs, b) /\ q = Done(cs, a) /\ t = Batch!FlattenSeq(u)
  <2>1. b \in 0..Len(cs) /\ a \in 0..Len(cs)
    BY <1>1
  <2> QED
    BY <1>3, <2>1, DoneType, FlattenType
<1>5. q = p \o t
  BY <1>2, <1>4, DoneSplit DEF Cat
<1>6. /\ Len(p) \in Nat /\ Len(q) \in Nat /\ Len(p) <= Len(q)
      /\ \A i \in 1..Len(p) : p[i] = q[i] /\ p[i] \in Req
  <2>1. Len(p) \in Nat /\ Len(t) \in Nat /\ Len(q) = Len(p) + Len(t)
    BY <1>5, LenProperties, ConcatProperties
  <2>2. \A i \in 1..Len(p) : i \in 1..(Len(p) + Len(t)) /\ i <= Len(p)
    BY <2>1
  <2> QED
    BY <1>5, <2>1, <2>2, ConcatProperties, ElementOfSeq
<1>7. SubSeq(p, 1, Len(p)) = SubSeq(q, 1, Len(p))
  BY <1>6, SMTT(30)
<1> QED
  BY <1>4, <1>6, <1>7 DEF Batch!IsPrefix

LEMMA DoneElems ==
    ASSUME NEW cs \in Seq(Ranges), NEW n \in 0..Len(cs)
    PROVE  \A e : e \in Elems(Done(cs, n)) <=>
                     \E k \in 1..n : e \in Batch!InRanges(cs[k])
<1>1. PICK s \in Seq(Seq(Req)) : s = Batches(cs) /\ Len(s) = Len(cs)
  BY BatchesType
<1>2. \A e : e \in Elems(Joined(s, n)) <=> \E k \in 1..n : e \in Elems(s[k])
  BY <1>1, JoinedElems
<1>3. \A k \in 1..n : Elems(s[k]) = Batch!InRanges(cs[k])
  <2> SUFFICES ASSUME NEW k \in 1..n PROVE Elems(s[k]) = Batch!InRanges(cs[k])
    OBVIOUS
  <2>1. k \in 1..Len(cs)
    BY LenProperties
  <2> QED
    BY <1>1, <2>1, BatchesType, ForEachFacts
<1> QED
  BY <1>1, <1>2, <1>3 DEF Done

LEMMA DoneClosed ==
    ASSUME BatchInv, NEW n \in 0..Len(commits)
    PROVE  ClosedAfter({}, Done(commits, n))
<1>1. commits \in Seq(Ranges) /\ Len(commits) \in Nat
  BY LenProperties DEF BatchInv, BatchType
<1>2. PICK s \in Seq(Seq(Req)) : s = Batches(commits) /\ Len(s) = Len(commits)
  BY <1>1, BatchesType
<1>3. ASSUME NEW m \in 0..(Len(s) - 1)
      PROVE  ClosedAfter({} \cup Elems(Joined(s, m)), s[m + 1])
  <2>1. m + 1 \in 1..Len(commits) /\ m \in 0..Len(commits) /\ (m + 1) - 1 = m
    BY <1>1, <1>2
  <2>2. PICK g \in Ranges : g = commits[m + 1] /\ s[m + 1] = Batch!ForEach(g)
    BY <1>1, <1>2, <2>1, BatchesType
  <2>3. PICK A : A = Elems(Done(commits, m))
    OBVIOUS
  <2>4. \A c \in DOMAIN g : g[c].start = 0 \/ <<c, g[c].start - 1>> \in A
    <3> SUFFICES ASSUME NEW c \in DOMAIN g, g[c].start # 0
                 PROVE  <<c, g[c].start - 1>> \in A
      OBVIOUS
    <3>1. PICK j \in 1..m : <<c, g[c].start - 1>> \in Batch!InRanges(commits[j])
      BY <2>1, <2>2 DEF BatchInv, RangesJoin
    <3> QED
      BY <1>1, <2>1, <2>3, <3>1, DoneElems
  <2>5. ClosedAfter(A, Batch!ForEach(g))
    BY <2>4, ForEachFacts
  <2>6. {} \cup Elems(Joined(s, m)) = A
    BY <1>2, <2>3 DEF Done
  <2> QED
    BY <2>2, <2>5, <2>6
<1>4. \A m \in 0..(Len(s) - 1) : ClosedAfter({} \cup Elems(Joined(s, m)), s[m + 1])
  BY <1>3
<1>5. \A m \in 0..Len(s) : ClosedAfter({}, Joined(s, m))
  BY <1>4, JoinedClosed
<1> QED
  BY <1>2, <1>5 DEF Done

LEMMA BatchSameOrder == BatchInv => Batch!SameOrder
<1> SUFFICES ASSUME BatchInv, NEW r \in Acceptor, NEW s \in Acceptor
             PROVE  \/ Batch!IsPrefix(executed[r], executed[s])
                    \/ Batch!IsPrefix(executed[s], executed[r])
  BY DEF Batch!SameOrder
<1>1. /\ commits \in Seq(Ranges) /\ Len(commits) \in Nat
      /\ batchAru[r] \in 0..Len(commits) /\ batchAru[s] \in 0..Len(commits)
      /\ executed[r] = Done(commits, batchAru[r])
      /\ executed[s] = Done(commits, batchAru[s])
  BY LenProperties DEF BatchInv, BatchType, ExecutesBatches
<1>2. batchAru[s] \in batchAru[r]..Len(commits) \/ batchAru[r] \in batchAru[s]..Len(commits)
  BY <1>1
<1> QED
  BY <1>1, <1>2, DonePrefix

LEMMA BatchHasIt == BatchInv => Batch!ExecutesWhatItHas
<1> SUFFICES ASSUME BatchInv, NEW r \in Acceptor, NEW i \in DOMAIN executed[r]
             PROVE  executed[r][i] \in values[r]
  BY DEF Batch!ExecutesWhatItHas
<1>1. /\ commits \in Seq(Ranges) /\ batchAru[r] \in 0..Len(commits)
      /\ executed[r] = Done(commits, batchAru[r]) /\ executed[r] \in Seq(Req)
      /\ 1..batchAru[r] \subseteq execute[r]
      /\ \A k \in execute[r] : Batch!InRanges(commits[k]) \subseteq values[r]
  BY DEF BatchInv, BatchType, ExecutesBatches
<1>2. executed[r][i] \in Elems(executed[r])
  BY <1>1, LenProperties DEF Elems
<1>3. PICK k \in 1..batchAru[r] : executed[r][i] \in Batch!InRanges(commits[k])
  BY <1>1, <1>2, DoneElems
<1> QED
  BY <1>1, <1>3

LEMMA BatchNoneSkipped == BatchInv => Batch!NoRequestSkipped
<1> SUFFICES ASSUME BatchInv, NEW r \in Acceptor, NEW i \in DOMAIN executed[r]
             PROVE  \/ executed[r][i][2] = 0
                    \/ \E j \in 1..(i - 1) :
                          executed[r][j] = <<executed[r][i][1], executed[r][i][2] - 1>>
  BY DEF Batch!NoRequestSkipped
<1>1. /\ batchAru[r] \in 0..Len(commits) /\ executed[r] = Done(commits, batchAru[r])
      /\ executed[r] \in Seq(Req)
  BY DEF BatchInv, BatchType, ExecutesBatches
<1>2. ClosedAfter({}, executed[r])
  BY <1>1, DoneClosed
<1>3. i \in 1..Len(executed[r])
  BY <1>1, LenProperties
<1> QED
  BY <1>2, <1>3 DEF ClosedAfter, Before

(* The replicas execute the same requests in the same order, as many as    *)
(* each has got to, and only requests they have: for any number of         *)
(* replicas, clients and batches, whatever batch points are proposed and   *)
(* whenever they are learned.                                              *)
THEOREM SameOrderTheorem == Batch!Spec => []SameOrder
<1>1. BatchInv => SameOrder
  BY BatchSameOrder, BatchHasIt DEF SameOrder
<1> QED
  BY <1>1, BatchInductive, PTL

(* A replica executes a request of a client only after the one before it:  *)
(* each range starts where an earlier one has stopped.                     *)
THEOREM NoRequestSkippedTheorem == Batch!Spec => []NoRequestSkipped
<1>1. BatchInv => NoRequestSkipped
  BY BatchNoneSkipped DEF NoRequestSkipped
<1> QED
  BY <1>1, BatchInductive, PTL
=============================================================================
