------------------------ MODULE LeaderDetectorProofs ------------------------
(***************************************************************************)
(* The safety of the detectors, for any group, any set of subscribers and  *)
(* any channel capacities.                                                 *)
(*                                                                         *)
(* What makes the invariant inductive is that Self is never suspected, not *)
(* even in an event that is still on its way, and that timeoutProcedure    *)
(* publishes at most one event about a replica.                            *)
(***************************************************************************)
EXTENDS LeaderDetector, FiniteSetTheorems, WellFoundedInduction, TLAPS

(* Self is trusted everywhere, and events come one per replica.            *)
SelfTrusted ==
    /\ Self \notin suspected
    /\ Self \notin ldSuspected
    /\ \A m \in fdOut : m.id # Self
    /\ \A i \in 1..Len(fdChan) : fdChan[i].id # Self

OneEventEach == \A m1, m2 \in fdOut : m1.id = m2.id => m1 = m2

DetectorInv ==
    /\ TypeOK
    /\ SelfTrusted
    /\ OneEventEach
    /\ SuspicionsReachLd
    /\ TrustReachesSubscribers
    /\ NeverBelowSelf

-----------------------------------------------------------------------------
(* A nonempty set of replicas has a highest one: a set without would have  *)
(* a smaller such subset, and so on, but Node is finite.                   *)
LEMMA HighestExists ==
    ASSUME NEW S \in SUBSET Node, S # {}
    PROVE  \E n \in S : \A q \in S : q <= n
<1> DEFINE T == {U \in SUBSET S : U # {} /\ \A x \in U : \E y \in U : x < y}
           O == StrictSubsetOrdering(Node)
<1>1. SUFFICES ASSUME \A n \in S : \E q \in S : n < q
               PROVE  FALSE
  BY DetectorAssumption
<1>2. S \in T
  BY <1>1
<1>3. T \subseteq FiniteSubsetsOf(Node)
  BY DetectorAssumption, FS_Subset DEF FiniteSubsetsOf
<1>4. IsWellFoundedOn(O, FiniteSubsetsOf(Node))
  BY FS_StrictSubsetOrderingWellFounded
<1>5. PICK U \in T : \A V \in T : ~(<<V, U>> \in O)
  <2> HIDE DEF T, O
  <2> QED
    BY <1>2, <1>3, <1>4, WFMin
<1>6. PICK x \in U : TRUE
  OBVIOUS
<1> DEFINE V == {y \in U : x < y}
<1>7. V # {} /\ V \subseteq U /\ x \notin V
  BY <1>6, DetectorAssumption
<1>8. V \in T
  <2>1. ASSUME NEW y \in V PROVE \E z \in V : y < z
    BY <1>6, DetectorAssumption
  <2> QED
    BY <1>7, <2>1
<1>9. <<V, U>> \in O
  BY <1>6, <1>7 DEF StrictSubsetOrdering
<1> QED
  BY <1>5, <1>8, <1>9

(* maxRank finds a replica at least as high as Self if Self is trusted.    *)
LEMMA MaxRankAboveSelf ==
    ASSUME NEW S \in SUBSET Node, Self \notin S
    PROVE  MaxRank(S) \in Node /\ MaxRank(S) >= Self
<1>1. Self \in Node \ S
  BY DetectorAssumption
<1>2. \E n \in Node \ S : \A q \in Node \ S : q <= n
  <2> DEFINE U == Node \ S
  <2>1. U \in SUBSET Node /\ U # {}
    BY <1>1
  <2> HIDE DEF U
  <2>2. \E n \in U : \A q \in U : q <= n
    BY <2>1, HighestExists
  <2> QED
    BY <2>2 DEF U
<1>3. /\ MaxRank(S) \in Node \ S
      /\ \A q \in Node \ S : q <= MaxRank(S)
  BY <1>1, <1>2 DEF MaxRank
<1> QED
  BY <1>1, <1>3, DetectorAssumption

LEMMA DetectorInit ==
    Init => DetectorInv
<1> SUFFICES ASSUME Init PROVE DetectorInv
  OBVIOUS
<1> USE DEF Init
<1>1. MaxRank({}) \in Node /\ MaxRank({}) >= Self
  BY MaxRankAboveSelf
<1>2. TypeOK
  BY <1>1, DetectorAssumption DEF TypeOK
<1>3. SelfTrusted /\ OneEventEach
  BY DEF SelfTrusted, OneEventEach
<1>4. SuspicionsReachLd
  BY DEF SuspicionsReachLd, NoneOnTheWay
<1>5. TrustReachesSubscribers
  BY DEF TrustReachesSubscribers
<1>6. NeverBelowSelf
  BY <1>1 DEF NeverBelowSelf
<1> QED
  BY <1>2, <1>3, <1>4, <1>5, <1>6 DEF DetectorInv

-----------------------------------------------------------------------------
(* A tick: one event for each replica whose standing changed.              *)
LEMMA TimeoutKeeps ==
    ASSUME DetectorInv, Timeout
    PROVE  DetectorInv'
<1> DEFINE restored == suspected \cap AliveNow
           added == Node \ (AliveNow \cup suspected)
<1>1. /\ TypeOK /\ SelfTrusted /\ SuspicionsReachLd
      /\ TrustReachesSubscribers /\ NeverBelowSelf
  BY DEF DetectorInv
<1>2. /\ fdOut = {}
      /\ timeout' = Increased
      /\ suspected' = (suspected \ restored) \cup added
      /\ fdOut' = [event : {"Suspect"}, id : added]
                  \cup [event : {"Restore"}, id : restored]
      /\ alive' = {}
      /\ UNCHANGED <<up, inFlight, fdChan, ldSuspected, pleader, trustOut,
                     trust, leader>>
  BY DEF Timeout, envVars, ldVars, subVars
<1>3. Self \notin added /\ Self \notin restored
  BY <1>1 DEF AliveNow, SelfTrusted
<1>4. added \subseteq Node /\ restored \subseteq Node /\ added \cap restored = {}
  BY <1>1 DEF TypeOK
<1>5. Increased \in 0..MaxTimeout
  BY <1>1, DetectorAssumption DEF Increased, TypeOK
<1>6. \A m \in fdOut' : \/ m.event = "Suspect" /\ m.id \in added
                        \/ m.event = "Restore" /\ m.id \in restored
  BY <1>2
<1>7. TypeOK'
  BY <1>1, <1>2, <1>4, <1>5 DEF TypeOK, FdMsg, Event
<1>8. SelfTrusted'
  BY <1>1, <1>2, <1>3, <1>6 DEF SelfTrusted
<1>9. OneEventEach'
  BY <1>2, <1>4 DEF OneEventEach
<1>10. SuspicionsReachLd'
  <2> SUFFICES ASSUME NEW q \in Node
               PROVE  \/ NoneOnTheWay(q)' /\ (q \in suspected' <=> q \in ldSuspected')
                      \/ LastOnTheWay(q, "Suspect")' /\ q \in suspected'
                      \/ LastOnTheWay(q, "Restore")' /\ q \notin suspected'
    BY DEF SuspicionsReachLd
  <2>1. CASE q \in added
    <3>1. [event |-> "Suspect", id |-> q] \in fdOut'
      BY <1>2, <2>1
    <3> QED
      BY <1>2, <2>1, <3>1 DEF LastOnTheWay
  <2>2. CASE q \in restored
    <3>1. [event |-> "Restore", id |-> q] \in fdOut'
      BY <1>2, <2>2
    <3>2. q \notin suspected'
      BY <1>2, <1>4, <2>2
    <3> QED
      BY <3>1, <3>2 DEF LastOnTheWay
  <2>3. CASE q \notin added /\ q \notin restored
    <3>1. \A m \in fdOut' : m.id # q
      BY <1>6, <2>3
    <3>2. q \in suspected' <=> q \in suspected
      BY <1>2, <2>3
    <3>3. NoneOnTheWay(q) => NoneOnTheWay(q)'
      BY <1>2, <3>1 DEF NoneOnTheWay
    <3>4. \A e : LastOnTheWay(q, e) => LastOnTheWay(q, e)'
      BY <1>2, <3>1 DEF LastOnTheWay
    <3> QED
      BY <1>1, <1>2, <3>2, <3>3, <3>4 DEF SuspicionsReachLd
  <2> QED
    BY <2>1, <2>2, <2>3
<1>11. TrustReachesSubscribers' /\ NeverBelowSelf'
  BY <1>1, <1>2 DEF TrustReachesSubscribers, NeverBelowSelf
<1> QED
  BY <1>7, <1>8, <1>9, <1>10, <1>11 DEF DetectorInv

(* publishFdMsg moves the only event about its replica to the end of the   *)
(* channel.                                                                *)
LEMMA PublishFdMsgKeeps ==
    ASSUME DetectorInv, NEW m \in FdMsg, PublishFdMsg(m)
    PROVE  DetectorInv'
<1>1. /\ TypeOK /\ SelfTrusted /\ OneEventEach /\ SuspicionsReachLd
      /\ TrustReachesSubscribers /\ NeverBelowSelf
  BY DEF DetectorInv
<1>2. /\ m \in fdOut
      /\ fdChan' = Append(fdChan, m)
      /\ fdOut' = fdOut \ {m}
      /\ UNCHANGED <<up, inFlight, alive, suspected, timeout, ldSuspected,
                     pleader, trustOut, trust, leader>>
  BY DEF PublishFdMsg, envVars, ldVars, subVars
<1>3. fdChan \in Seq(FdMsg) /\ Len(fdChan) \in Nat
  BY <1>1 DEF TypeOK
<1>4. /\ Len(fdChan') = Len(fdChan) + 1
      /\ fdChan'[Len(fdChan) + 1] = m
      /\ \A i \in 1..Len(fdChan) : fdChan'[i] = fdChan[i]
  BY <1>2, <1>3
<1>5. TypeOK'
  BY <1>1, <1>2 DEF TypeOK
<1>6. SelfTrusted'
  <2>1. m.id # Self
    BY <1>1, <1>2 DEF SelfTrusted
  <2>2. \A i \in 1..Len(fdChan') : fdChan'[i].id # Self
    BY <1>1, <1>3, <1>4, <2>1 DEF SelfTrusted
  <2> QED
    BY <1>1, <1>2, <2>2 DEF SelfTrusted
<1>7. OneEventEach'
  BY <1>1, <1>2 DEF OneEventEach
<1>8. SuspicionsReachLd'
  <2> SUFFICES ASSUME NEW q \in Node
               PROVE  \/ NoneOnTheWay(q)' /\ (q \in suspected' <=> q \in ldSuspected')
                      \/ LastOnTheWay(q, "Suspect")' /\ q \in suspected'
                      \/ LastOnTheWay(q, "Restore")' /\ q \notin suspected'
    BY DEF SuspicionsReachLd
  <2>1. CASE m.id = q
    <3>1. \A n \in fdOut' : n.id # q
      BY <1>1, <1>2, <2>1 DEF OneEventEach
    <3>2. ~NoneOnTheWay(q)
      BY <1>2, <2>1 DEF NoneOnTheWay
    <3>3. ASSUME NEW e, LastOnTheWay(q, e) PROVE LastOnTheWay(q, e)'
      <4>1. [event |-> e, id |-> q] \in fdOut
        BY <1>2, <2>1, <3>3 DEF LastOnTheWay
      <4>2. m = [event |-> e, id |-> q]
        BY <1>1, <1>2, <2>1, <4>1 DEF OneEventEach
      <4>3. Len(fdChan) + 1 \in 1..Len(fdChan')
        BY <1>3, <1>4
      <4>4. \A j \in (Len(fdChan) + 2)..Len(fdChan') : FALSE
        BY <1>3, <1>4
      <4> QED
        BY <1>3, <1>4, <3>1, <4>2, <4>3, <4>4 DEF LastOnTheWay
    <3> QED
      BY <1>1, <1>2, <3>2, <3>3 DEF SuspicionsReachLd
  <2>2. CASE m.id # q
    <3>1. NoneOnTheWay(q) => NoneOnTheWay(q)'
      BY <1>2, <1>3, <1>4, <2>2 DEF NoneOnTheWay
    <3>2. ASSUME NEW e, LastOnTheWay(q, e) PROVE LastOnTheWay(q, e)'
      <4>1. CASE [event |-> e, id |-> q] \in fdOut
        BY <1>2, <2>2, <4>1 DEF LastOnTheWay
      <4>2. CASE [event |-> e, id |-> q] \notin fdOut
        <5>1. PICK i \in 1..Len(fdChan) :
                /\ fdChan[i] = [event |-> e, id |-> q]
                /\ \A j \in (i + 1)..Len(fdChan) : fdChan[j].id # q
          BY <3>2, <4>2 DEF LastOnTheWay
        <5>2. /\ i \in 1..Len(fdChan')
              /\ fdChan'[i] = [event |-> e, id |-> q]
              /\ \A j \in (i + 1)..Len(fdChan') : fdChan'[j].id # q
          BY <1>3, <1>4, <2>2, <5>1
        <5>3. \A n \in fdOut' : n.id # q
          BY <1>2, <3>2, <4>2 DEF LastOnTheWay
        <5> QED
          BY <5>2, <5>3 DEF LastOnTheWay
      <4> QED
        BY <4>1, <4>2
    <3> QED
      BY <1>1, <1>2, <3>1, <3>2 DEF SuspicionsReachLd
  <2> QED
    BY <2>1, <2>2
<1>9. TrustReachesSubscribers' /\ NeverBelowSelf'
  BY <1>1, <1>2 DEF TrustReachesSubscribers, NeverBelowSelf
<1> QED
  BY <1>5, <1>6, <1>7, <1>8, <1>9 DEF DetectorInv

(* handleFdMsg applies the oldest event.  If no later one is about the     *)
(* same replica, the two sets of suspicions now agree on it.               *)
LEMMA HandleFdMsgKeeps ==
    ASSUME DetectorInv, HandleFdMsg
    PROVE  DetectorInv'
<1> DEFINE h == Head(fdChan)
<1>1. /\ TypeOK /\ SelfTrusted /\ OneEventEach /\ SuspicionsReachLd
      /\ TrustReachesSubscribers /\ NeverBelowSelf
  BY DEF DetectorInv
<1>2. /\ fdChan # << >>
      /\ trustOut = {}
      /\ fdChan' = Tail(fdChan)
      /\ ldSuspected' = IF h.event = "Suspect" THEN ldSuspected \cup {h.id}
                                               ELSE ldSuspected \ {h.id}
      /\ pleader' = MaxRank(ldSuspected')
      /\ trustOut' = IF pleader' # pleader THEN Subscriber ELSE {}
      /\ UNCHANGED <<up, inFlight, alive, suspected, timeout, fdOut, trust,
                     leader>>
  BY DEF HandleFdMsg, envVars, fdVars, subVars
<1>3. /\ fdChan \in Seq(FdMsg) /\ Len(fdChan) \in Nat \ {0}
      /\ h = fdChan[1] /\ h \in FdMsg
  BY <1>1, <1>2 DEF TypeOK
<1>4. /\ Len(fdChan') = Len(fdChan) - 1
      /\ \A i \in 1..Len(fdChan') : fdChan'[i] = fdChan[i + 1]
  BY <1>2, <1>3
<1>5. h.id \in Node /\ h.id # Self
  BY <1>1, <1>3 DEF SelfTrusted, FdMsg
<1>6. ldSuspected' \subseteq Node /\ Self \notin ldSuspected'
  BY <1>1, <1>2, <1>5 DEF TypeOK, SelfTrusted
<1>7. pleader' \in Node /\ pleader' >= Self
  BY <1>2, <1>6, MaxRankAboveSelf
<1>8. TypeOK'
  <2>1. fdChan' \in Seq(FdMsg)
    BY <1>2, <1>3
  <2>2. trustOut' \subseteq Subscriber
    BY <1>2
  <2> QED
    BY <1>1, <1>2, <1>6, <1>7, <2>1, <2>2 DEF TypeOK
<1>9. SelfTrusted'
  <2>1. \A i \in 1..Len(fdChan') : fdChan'[i].id # Self
    BY <1>1, <1>3, <1>4 DEF SelfTrusted
  <2> QED
    BY <1>1, <1>2, <1>6, <2>1 DEF SelfTrusted
<1>10. OneEventEach'
  BY <1>1, <1>2 DEF OneEventEach
<1>11. SuspicionsReachLd'
  <2> SUFFICES ASSUME NEW q \in Node
               PROVE  \/ NoneOnTheWay(q)' /\ (q \in suspected' <=> q \in ldSuspected')
                      \/ LastOnTheWay(q, "Suspect")' /\ q \in suspected'
                      \/ LastOnTheWay(q, "Restore")' /\ q \notin suspected'
    BY DEF SuspicionsReachLd
  <2>1. NoneOnTheWay(q) => h.id # q /\ NoneOnTheWay(q)'
    BY <1>2, <1>3, <1>4 DEF NoneOnTheWay
  <2>2. h.id # q => (q \in ldSuspected' <=> q \in ldSuspected)
    BY <1>2
  <2>3. ASSUME NEW e, LastOnTheWay(q, e)
        PROVE  \/ LastOnTheWay(q, e)'
               \/ NoneOnTheWay(q)' /\ h = [event |-> e, id |-> q]
    <3>1. CASE [event |-> e, id |-> q] \in fdOut
      BY <1>2, <3>1 DEF LastOnTheWay
    <3>2. CASE [event |-> e, id |-> q] \notin fdOut
      <4>1. \A n \in fdOut' : n.id # q
        BY <1>2, <2>3, <3>2 DEF LastOnTheWay
      <4>2. PICK i \in 1..Len(fdChan) :
              /\ fdChan[i] = [event |-> e, id |-> q]
              /\ \A j \in (i + 1)..Len(fdChan) : fdChan[j].id # q
        BY <2>3, <3>2 DEF LastOnTheWay
      <4>3. CASE i = 1
        <5>1. \A j \in 1..Len(fdChan') : fdChan'[j].id # q
          BY <1>3, <1>4, <4>2, <4>3
        <5> QED
          BY <1>3, <4>1, <4>2, <4>3, <5>1 DEF NoneOnTheWay
      <4>4. CASE i # 1
        <5>1. /\ i - 1 \in 1..Len(fdChan')
              /\ fdChan'[i - 1] = [event |-> e, id |-> q]
          BY <1>3, <1>4, <4>2, <4>4
        <5>2. \A j \in ((i - 1) + 1)..Len(fdChan') : fdChan'[j].id # q
          <6> SUFFICES ASSUME NEW j \in ((i - 1) + 1)..Len(fdChan')
                       PROVE  fdChan'[j].id # q
            OBVIOUS
          <6>1. j \in 1..Len(fdChan') /\ j + 1 \in (i + 1)..Len(fdChan)
            BY <1>3, <1>4, <4>2
          <6> QED
            BY <1>4, <4>2, <6>1
        <5> QED
          BY <4>1, <5>1, <5>2 DEF LastOnTheWay
      <4> QED
        BY <4>3, <4>4
    <3> QED
      BY <3>1, <3>2
  <2>4. h = [event |-> "Suspect", id |-> q] => q \in ldSuspected'
    BY <1>2
  <2>5. h = [event |-> "Restore", id |-> q] => q \notin ldSuspected'
    BY <1>2
  <2>6. CASE NoneOnTheWay(q) /\ (q \in suspected <=> q \in ldSuspected)
    BY <1>2, <2>1, <2>2, <2>6
  <2>7. CASE LastOnTheWay(q, "Suspect") /\ q \in suspected
    BY <1>2, <2>3, <2>4, <2>7
  <2>8. CASE LastOnTheWay(q, "Restore") /\ q \notin suspected
    BY <1>2, <2>3, <2>5, <2>8
  <2> QED
    BY <1>1, <2>6, <2>7, <2>8 DEF SuspicionsReachLd
<1>12. TrustReachesSubscribers'
  <2>1. pleader' # pleader => Subscriber \ trustOut' = {}
    BY <1>2
  <2>2. pleader' = pleader => trustOut' = trustOut
    BY <1>2
  <2> QED
    BY <1>1, <1>2, <2>1, <2>2 DEF TrustReachesSubscribers
<1>13. NeverBelowSelf'
  BY <1>1, <1>2 DEF NeverBelowSelf
<1> QED
  BY <1>8, <1>9, <1>10, <1>11, <1>12, <1>13 DEF DetectorInv

(* publishPaxosTrust puts the current leader last in one channel.          *)
LEMMA PublishPaxosTrustKeeps ==
    ASSUME DetectorInv, NEW s \in Subscriber, PublishPaxosTrust(s)
    PROVE  DetectorInv'
<1>1. /\ TypeOK /\ SelfTrusted /\ OneEventEach /\ SuspicionsReachLd
      /\ TrustReachesSubscribers /\ NeverBelowSelf
  BY DEF DetectorInv
<1>2. /\ trust' = [trust EXCEPT ![s] = Append(@, pleader)]
      /\ trustOut' = trustOut \ {s}
      /\ UNCHANGED <<up, inFlight, alive, suspected, timeout, fdOut, fdChan,
                     ldSuspected, pleader, leader>>
  BY DEF PublishPaxosTrust, envVars, fdVars
<1>3. /\ trust \in [Subscriber -> Seq(Node)]
      /\ pleader \in Node
  BY <1>1 DEF TypeOK
<1>4. /\ trust'[s] = Append(trust[s], pleader)
      /\ \A u \in Subscriber \ {s} : trust'[u] = trust[u]
  BY <1>2, <1>3
<1>5. /\ trust[s] \in Seq(Node) /\ Len(trust[s]) \in Nat
      /\ trust'[s] \in Seq(Node)
      /\ trust'[s] # << >>
      /\ Len(trust'[s]) = Len(trust[s]) + 1
      /\ trust'[s][Len(trust[s]) + 1] = pleader
      /\ \A i \in 1..Len(trust[s]) : trust'[s][i] = trust[s][i]
  <2>1. trust[s] \in Seq(Node) /\ Len(trust[s]) \in Nat
    BY <1>3
  <2>2. /\ trust'[s] \in Seq(Node)
        /\ Len(trust'[s]) = Len(trust[s]) + 1
        /\ trust'[s][Len(trust[s]) + 1] = pleader
        /\ \A i \in 1..Len(trust[s]) : trust'[s][i] = trust[s][i]
    BY <1>3, <1>4, <2>1
  <2>3. trust'[s] # << >>
    BY <2>1, <2>2
  <2> QED
    BY <2>1, <2>2, <2>3
<1>6. TypeOK'
  <2>1. trust' \in [Subscriber -> Seq(Node)]
    BY <1>2, <1>3
  <2> QED
    BY <1>1, <1>2, <2>1 DEF TypeOK
<1>7. SelfTrusted' /\ OneEventEach' /\ SuspicionsReachLd'
  BY <1>1, <1>2 DEF SelfTrusted, OneEventEach, SuspicionsReachLd,
                    NoneOnTheWay, LastOnTheWay
<1>8. TrustReachesSubscribers'
  <2>1. pleader' = MaxRank(ldSuspected')
    BY <1>1, <1>2 DEF TrustReachesSubscribers
  <2>2. ASSUME NEW u \in Subscriber \ trustOut'
        PROVE  pleader' = IF trust'[u] = << >> THEN leader'[u]
                                               ELSE trust'[u][Len(trust'[u])]
    <3>1. CASE u = s
      BY <1>2, <1>5, <3>1
    <3>2. CASE u # s
      BY <1>1, <1>2, <1>4, <3>2 DEF TrustReachesSubscribers
    <3> QED
      BY <3>1, <3>2
  <2> QED
    BY <2>1, <2>2 DEF TrustReachesSubscribers
<1>9. NeverBelowSelf'
  <2>1. pleader >= Self
    BY <1>1, MaxRankAboveSelf
    DEF TypeOK, SelfTrusted, TrustReachesSubscribers
  <2>2. \A i \in 1..Len(trust'[s]) : trust'[s][i] >= Self
    BY <1>1, <1>5, <2>1 DEF NeverBelowSelf
  <2> QED
    BY <1>1, <1>2, <1>4, <2>2 DEF NeverBelowSelf
<1> QED
  BY <1>6, <1>7, <1>8, <1>9 DEF DetectorInv

(* A subscriber takes the oldest leader from its channel; the last one is  *)
(* still in the channel, or is now the one it trusts.                      *)
LEMMA ReceiveTrustKeeps ==
    ASSUME DetectorInv, NEW s \in Subscriber, ReceiveTrust(s)
    PROVE  DetectorInv'
<1>1. /\ TypeOK /\ SelfTrusted /\ OneEventEach /\ SuspicionsReachLd
      /\ TrustReachesSubscribers /\ NeverBelowSelf
  BY DEF DetectorInv
<1>2. /\ trust[s] # << >>
      /\ leader' = [leader EXCEPT ![s] = Head(trust[s])]
      /\ trust' = [trust EXCEPT ![s] = Tail(@)]
      /\ UNCHANGED <<up, inFlight, alive, suspected, timeout, fdOut, fdChan,
                     ldSuspected, pleader, trustOut>>
  BY DEF ReceiveTrust, envVars, fdVars, ldVars
<1>3. /\ trust \in [Subscriber -> Seq(Node)]
      /\ leader \in [Subscriber -> Node]
  BY <1>1 DEF TypeOK
<1>4. /\ trust'[s] = Tail(trust[s])
      /\ leader'[s] = trust[s][1]
      /\ \A u \in Subscriber \ {s} : /\ trust'[u] = trust[u]
                                     /\ leader'[u] = leader[u]
  BY <1>2, <1>3
<1>5. /\ trust[s] \in Seq(Node) /\ Len(trust[s]) \in Nat \ {0}
      /\ trust[s][1] \in Node
      /\ trust'[s] \in Seq(Node)
      /\ Len(trust'[s]) = Len(trust[s]) - 1
      /\ \A i \in 1..Len(trust'[s]) : trust'[s][i] = trust[s][i + 1]
  BY <1>2, <1>3, <1>4
<1>6. TypeOK'
  <2>1. /\ trust' \in [Subscriber -> Seq(Node)]
        /\ leader' \in [Subscriber -> Node]
    BY <1>2, <1>3, <1>4, <1>5
  <2> QED
    BY <1>1, <1>2, <2>1 DEF TypeOK
<1>7. SelfTrusted' /\ OneEventEach' /\ SuspicionsReachLd'
  BY <1>1, <1>2 DEF SelfTrusted, OneEventEach, SuspicionsReachLd,
                    NoneOnTheWay, LastOnTheWay
<1>8. TrustReachesSubscribers'
  <2>1. pleader' = MaxRank(ldSuspected')
    BY <1>1, <1>2 DEF TrustReachesSubscribers
  <2>2. ASSUME NEW u \in Subscriber \ trustOut'
        PROVE  pleader' = IF trust'[u] = << >> THEN leader'[u]
                                               ELSE trust'[u][Len(trust'[u])]
    <3>1. CASE u = s
      <4>1. pleader = trust[s][Len(trust[s])]
        BY <1>1, <1>2, <3>1 DEF TrustReachesSubscribers
      <4>2. CASE trust'[s] = << >>
        <5>1. Len(trust[s]) = 1
          BY <1>5, <4>2
        <5> QED
          BY <1>2, <1>4, <3>1, <4>1, <4>2, <5>1
      <4>3. CASE trust'[s] # << >>
        <5>1. Len(trust'[s]) \in 1..Len(trust'[s])
          BY <1>5, <4>3
        <5>2. trust'[s][Len(trust'[s])] = trust[s][Len(trust[s])]
          BY <1>5, <5>1
        <5> QED
          BY <1>2, <3>1, <4>1, <4>3, <5>2
      <4> QED
        BY <4>2, <4>3
    <3>2. CASE u # s
      BY <1>1, <1>2, <1>4, <3>2 DEF TrustReachesSubscribers
    <3> QED
      BY <3>1, <3>2
  <2> QED
    BY <2>1, <2>2 DEF TrustReachesSubscribers
<1>9. NeverBelowSelf'
  <2>1. /\ leader'[s] >= Self
        /\ \A i \in 1..Len(trust'[s]) : trust'[s][i] >= Self
    BY <1>1, <1>4, <1>5 DEF NeverBelowSelf
  <2> QED
    BY <1>1, <1>4, <2>1 DEF NeverBelowSelf
<1> QED
  BY <1>6, <1>7, <1>8, <1>9 DEF DetectorInv

-----------------------------------------------------------------------------
(* What the other replicas do, and hearing of them, changes nothing that   *)
(* the detectors have already concluded.                                   *)
LEMMA HeartbeatsKeep ==
    ASSUME DetectorInv, NEW q \in Node, Crash(q) \/ Emit(q) \/ Hear(q)
    PROVE  DetectorInv'
<1>1. /\ TypeOK /\ SelfTrusted /\ OneEventEach /\ SuspicionsReachLd
      /\ TrustReachesSubscribers /\ NeverBelowSelf
  BY DEF DetectorInv
<1>2. UNCHANGED <<suspected, timeout, fdOut, fdChan, ldSuspected, pleader,
                  trustOut, trust, leader>>
  BY DEF Crash, Emit, Hear, envVars, fdVars, ldVars, subVars
<1>3. up' \subseteq Node /\ inFlight' \subseteq Node /\ alive' \subseteq Node
  BY <1>1 DEF Crash, Emit, Hear, fdVars, TypeOK
<1>4. TypeOK'
  BY <1>1, <1>2, <1>3 DEF TypeOK
<1>5. SelfTrusted' /\ OneEventEach' /\ SuspicionsReachLd'
  BY <1>1, <1>2 DEF SelfTrusted, OneEventEach, SuspicionsReachLd,
                    NoneOnTheWay, LastOnTheWay
<1>6. TrustReachesSubscribers' /\ NeverBelowSelf'
  BY <1>1, <1>2 DEF TrustReachesSubscribers, NeverBelowSelf
<1> QED
  BY <1>4, <1>5, <1>6 DEF DetectorInv

LEMMA StutterKeeps ==
    ASSUME DetectorInv, UNCHANGED vars
    PROVE  DetectorInv'
<1>1. /\ TypeOK /\ SelfTrusted /\ OneEventEach /\ SuspicionsReachLd
      /\ TrustReachesSubscribers /\ NeverBelowSelf
  BY DEF DetectorInv
<1>2. UNCHANGED <<up, inFlight, alive, suspected, timeout, fdOut, fdChan,
                  ldSuspected, pleader, trustOut, trust, leader>>
  BY DEF vars, envVars, fdVars, ldVars, subVars
<1>3. TypeOK'
  BY <1>1, <1>2 DEF TypeOK
<1>4. SelfTrusted' /\ OneEventEach' /\ SuspicionsReachLd'
  BY <1>1, <1>2 DEF SelfTrusted, OneEventEach, SuspicionsReachLd,
                    NoneOnTheWay, LastOnTheWay
<1>5. TrustReachesSubscribers' /\ NeverBelowSelf'
  BY <1>1, <1>2 DEF TrustReachesSubscribers, NeverBelowSelf
<1> QED
  BY <1>3, <1>4, <1>5 DEF DetectorInv

(* DetectorInv is inductive.                                               *)
LEMMA DetectorStep ==
    DetectorInv /\ [Next]_vars => DetectorInv'
<1> SUFFICES ASSUME DetectorInv, [Next]_vars
             PROVE  DetectorInv'
  OBVIOUS
<1>1. CASE \E q \in Node : Crash(q) \/ Emit(q) \/ Hear(q)
  BY <1>1, HeartbeatsKeep
<1>2. CASE Timeout
  BY <1>2, TimeoutKeeps
<1>3. CASE \E m \in FdMsg : PublishFdMsg(m)
  BY <1>3, PublishFdMsgKeeps
<1>4. CASE HandleFdMsg
  BY <1>4, HandleFdMsgKeeps
<1>5. CASE \E s \in Subscriber : PublishPaxosTrust(s) \/ ReceiveTrust(s)
  BY <1>5, PublishPaxosTrustKeeps, ReceiveTrustKeeps
<1>6. CASE UNCHANGED vars
  BY <1>6, StutterKeeps
<1> QED
  BY <1>1, <1>2, <1>3, <1>4, <1>5, <1>6 DEF Next

(* DetectorInv holds throughout.                                           *)
LEMMA DetectorInvariant ==
    Spec => []DetectorInv
  BY DetectorInit, DetectorStep, PTL DEF Spec

(* The detectors keep their types; in particular the leader is always a    *)
(* replica, never MinID (maxRank).                                         *)
THEOREM DetectorTypeCorrect ==
    Spec => []TypeOK
<1>1. DetectorInv => TypeOK
  BY DEF DetectorInv
<1> QED
  BY <1>1, DetectorInvariant, PTL

(* The leader detector ends up with the failure detector's suspicions,     *)
(* for any capacity of the channel between them (publishFdMsg,             *)
(* handleFdMsg).                                                           *)
THEOREM SuspicionsArrive ==
    Spec => []SuspicionsReachLd
<1>1. DetectorInv => SuspicionsReachLd
  BY DEF DetectorInv
<1> QED
  BY <1>1, DetectorInvariant, PTL

(* Every subscriber ends up with the leader detector's leader, for any     *)
(* number of subscribers and any capacity of their channels                *)
(* (publishPaxosTrust).                                                    *)
THEOREM TrustArrives ==
    Spec => []TrustReachesSubscribers
<1>1. DetectorInv => TrustReachesSubscribers
  BY DEF DetectorInv
<1> QED
  BY <1>1, DetectorInvariant, PTL

(* No module of a replica ever follows a lower replica                     *)
(* (timeoutProcedure counts the replica itself as alive).                  *)
THEOREM FollowsNobodyBelow ==
    Spec => []NeverBelowSelf
<1>1. DetectorInv => NeverBelowSelf
  BY DEF DetectorInv
<1> QED
  BY <1>1, DetectorInvariant, PTL
=============================================================================
