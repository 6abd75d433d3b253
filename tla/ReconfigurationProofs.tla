------------------------ MODULE ReconfigurationProofs ------------------------
(***************************************************************************)
(* Proofs about the parts of reconfiguration, for any number of replicas,  *)
(* slots, messages, subscribers, holds and nodes.  Each part has its       *)
(* inductive invariant, a lemma that each of its steps preserves it, and   *)
(* the theorem about the behaviours of ReconfigurationParts.               *)
(***************************************************************************)
EXTENDS ReconfigurationParts, Sequences, FiniteSetTheorems, TLAPS

allVars == <<instance, serverVars, handlerVars, groupVars, arecVars>>

-----------------------------------------------------------------------------
(* Group holds.                                                            *)

(* What a hold that arec asks for has come to.  Before the first release   *)
(* who is ready is held; the manager allows access when all are ready or   *)
(* the time is up; arec changes the node map while the manager waits for   *)
(* it to close the channel, which no earlier hold can stand for in the     *)
(* first one.                                                              *)
HoldType ==
    /\ user \in [at : {"idle", "reconnect", "send", "change"}, hold : Nat]
    /\ mgr \in [at : {"select", "prepare", "allow", "release"}, hold : Nat]
    /\ releases \in Nat
    /\ requests \subseteq ArecGroup!Hold
    /\ prepare \in [Subscriber -> Nat]
    /\ \A s \in Subscriber : prepare[s] # 0 => prepare[s] \in ArecGroup!Hold
    /\ mgr.at # "select" => mgr.hold \in ArecGroup!Hold
    /\ ready \in [ArecGroup!Hold -> SUBSET Subscriber]
    /\ held \subseteq Subscriber

HoldInv ==
    /\ HoldType
    /\ releases = 0 => \A h \in ArecGroup!Hold : ready[h] \subseteq held
    /\ releases > 0 => closed # {}
    /\ \A h \in closed :
           h \in 1..user.hold /\ (h = user.hold => user.at = "idle")
    /\ mgr.at \in {"allow", "release"} /\ mgr.hold \notin timedOut =>
           ready[mgr.hold] = Subscriber
    /\ user.at = "change" => mgr = [at |-> "release", hold |-> user.hold]
    /\ user.at # "idle" => user.hold \in ArecGroup!Hold

LEMMA HoldTypeStep ==
    ASSUME HoldInv, ArecGroup!Next
    PROVE  HoldType'
<1> USE HoldAssumption DEF HoldInv, HoldType
<1>1. CASE ArecGroup!RequestHold
  <2>1. /\ UNCHANGED <<mgr, releases, prepare, ready, held>>
        /\ user' = [at |-> "reconnect", hold |-> user.hold + 1]
        /\ requests' = requests \cup {user.hold + 1}
        /\ user.hold + 1 \in 1..MaxHold
    BY <1>1 DEF ArecGroup!RequestHold, ArecGroup!mgrVars
  <2>2. user' \in [at : {"idle", "reconnect", "send", "change"}, hold : Nat]
    BY <2>1
  <2>3. requests' \subseteq ArecGroup!Hold
    BY <2>1 DEF ArecGroup!Hold
  <2> QED
    BY <2>1, <2>2, <2>3
<1>2. CASE ArecGroup!Reconnect
  BY <1>2 DEF ArecGroup!Reconnect, ArecGroup!mgrVars
<1>3. CASE ArecGroup!Close
  BY <1>3 DEF ArecGroup!Close, ArecGroup!mgrVars
<1>4. CASE \E h \in ArecGroup!Hold : ArecGroup!StartHold(h)
  BY <1>4 DEF ArecGroup!StartHold, ArecGroup!Hold
<1>5. CASE \E s \in Subscriber : ArecGroup!SendPrepare(s)
  BY <1>5 DEF ArecGroup!SendPrepare
<1>6. CASE ArecGroup!GroupReady \/ ArecGroup!GroupReadyTimeout
  BY <1>6 DEF ArecGroup!GroupReady, ArecGroup!GroupReadyTimeout
<1>7. CASE ArecGroup!AllowAccess
  BY <1>7 DEF ArecGroup!AllowAccess
<1>8. CASE ArecGroup!HoldRelease
  BY <1>8 DEF ArecGroup!HoldRelease
<1>9. CASE \E s \in Subscriber : ArecGroup!HandleGrpHold(s)
  BY <1>9 DEF ArecGroup!HandleGrpHold, ArecGroup!mgrVars
<1>10. CASE \E s \in Subscriber : ArecGroup!Released(s)
  BY <1>10 DEF ArecGroup!Released, ArecGroup!mgrVars
<1>11. ~ArecGroup!ReturnWithoutClose
  BY DEF ArecGroup!ReturnWithoutClose
<1> QED
  BY <1>1, <1>2, <1>3, <1>4, <1>5, <1>6, <1>7, <1>8, <1>9, <1>10, <1>11
     DEF ArecGroup!Next, ArecGroup!Mgr

LEMMA HoldStep ==
    ASSUME HoldInv, ArecGroup!Next
    PROVE  HoldInv'
<1>1. HoldType'
  BY HoldTypeStep
<1> USE <1>1, HoldAssumption DEF HoldInv, HoldType
<1>2. CASE ArecGroup!RequestHold
  BY <1>2 DEF ArecGroup!RequestHold, ArecGroup!mgrVars, ArecGroup!Hold
<1>3. CASE ArecGroup!Reconnect
  BY <1>3 DEF ArecGroup!Reconnect, ArecGroup!mgrVars
<1>4. CASE ArecGroup!Close
  BY <1>4 DEF ArecGroup!Close, ArecGroup!mgrVars, ArecGroup!Hold
<1>5. CASE \E h \in ArecGroup!Hold : ArecGroup!StartHold(h)
  BY <1>5 DEF ArecGroup!StartHold
<1>6. CASE \E s \in Subscriber : ArecGroup!SendPrepare(s)
  BY <1>6 DEF ArecGroup!SendPrepare
<1>7. CASE ArecGroup!GroupReady
  BY <1>7 DEF ArecGroup!GroupReady
<1>8. CASE ArecGroup!GroupReadyTimeout
  BY <1>8 DEF ArecGroup!GroupReadyTimeout
<1>9. CASE ArecGroup!AllowAccess
  BY <1>9 DEF ArecGroup!AllowAccess
<1>10. CASE ArecGroup!HoldRelease
  BY <1>10 DEF ArecGroup!HoldRelease
<1>11. CASE \E s \in Subscriber : ArecGroup!HandleGrpHold(s)
  BY <1>11 DEF ArecGroup!HandleGrpHold, ArecGroup!mgrVars
<1>12. CASE \E s \in Subscriber : ArecGroup!Released(s)
  BY <1>12 DEF ArecGroup!Released, ArecGroup!mgrVars
<1>13. ~ArecGroup!ReturnWithoutClose
  BY DEF ArecGroup!ReturnWithoutClose
<1> QED
  BY <1>2, <1>3, <1>4, <1>5, <1>6, <1>7, <1>8, <1>9, <1>10, <1>11, <1>12, <1>13
     DEF ArecGroup!Next, ArecGroup!Mgr

(* changeEpoch of arec.go changes the node map in the first hold only      *)
(* while every subscriber of the group manager is held, unless the manager *)
(* gave up waiting for one.                                                *)
THEOREM HeldDuringChangeTheorem == Spec => []HeldDuringChange
<1> DEFINE Inv == Is("arec") => HoldInv
<1>1. Init => Inv
  BY HoldAssumption DEF Init, ArecGroup!Init, HoldInv, HoldType, ArecGroup!Hold
<1>2. Inv /\ [Next]_allVars => Inv'
  <2> SUFFICES ASSUME Inv, [Next]_allVars, Is("arec")' PROVE HoldInv'
    OBVIOUS
  <2>1. Is("arec") /\ (ArecGroup!Next \/ UNCHANGED groupVars)
    BY DEF Next, Is, allVars
  <2>2. CASE UNCHANGED groupVars
    BY <2>1, <2>2 DEF groupVars, HoldInv, HoldType
  <2> QED
    BY <2>1, <2>2, HoldStep
<1>3. Inv => HeldDuringChange
  <2> SUFFICES ASSUME HoldInv, user.at = "change", user.hold = 1, 1 \notin timedOut
               PROVE  held = Subscriber
    BY DEF HeldDuringChange, ArecGroup!HeldDuringChange
  <2>1. mgr = [at |-> "release", hold |-> 1] /\ 1 \in ArecGroup!Hold
    BY DEF HoldInv
  <2>2. ready[1] = Subscriber
    BY <2>1 DEF HoldInv
  <2>3. closed = {} /\ releases = 0
    BY DEF HoldInv, HoldType
  <2> QED
    BY <2>1, <2>2, <2>3 DEF HoldInv, HoldType
<1> QED
  BY <1>1, <1>2, <1>3, PTL DEF Spec, allVars

-----------------------------------------------------------------------------
(* Reconfiguration through the log, when every server reaches the new      *)
(* node.                                                                   *)

(* What executing slots makes of a server: its configuration, whether it   *)
(* fills, and what it told its proposer.                                   *)
ViewType == [config : Nat, mode : {"run", "fill"}, adu : Nat, decided : Nat]

View(r) == [config |-> config[r], mode |-> mode[r], adu |-> adu[r],
            decided |-> decided[r]]

InitView == [config |-> 0, mode |-> "run", adu |-> 0, decided |-> 0]

(* The view after a slot with a value of kind k, in either mode.           *)
AfterRun(v, k) ==
    IF k = "Reconfig"
    THEN [config |-> v.config, mode |-> "fill", adu |-> v.adu, decided |-> 0]
    ELSE [config |-> v.config, mode |-> "run", adu |-> v.adu + 1,
          decided |-> v.decided]
AfterFill(v, k) ==
    IF k = "Reconfig"
    THEN [config |-> v.config, mode |-> "run", adu |-> v.adu,
          decided |-> v.decided]
    ELSE IF v.decided + 1 = Alpha - 1
    THEN [config |-> v.config + 1, mode |-> "run", adu |-> v.adu + Alpha,
          decided |-> v.decided + 1]
    ELSE [config |-> v.config, mode |-> "fill", adu |-> v.adu,
          decided |-> v.decided + 1]
After(v, k) == IF v.mode = "run" THEN AfterRun(v, k) ELSE AfterFill(v, k)

(* The numbers of slots that some server has executed.                     *)
Reached == {k \in Nat : \E r \in Replica : executed[r] >= k}

Entry == [slot : Nat \ {0}, config : Nat, kind : Slots!Kind]

SlotsType ==
    /\ chosen \subseteq Entry
    /\ executed \in [Replica -> Nat]
    /\ adu \in [Replica -> Nat]
    /\ config \in [Replica -> Nat]
    /\ mode \in [Replica -> {"run", "fill"}]
    /\ decided \in [Replica -> Nat]

(* H[k] is the view of every server that has executed k slots, for the k   *)
(* in R; X is the log.  The windows of a configuration lie before those of *)
(* the next.                                                               *)
FollowsLog(H, X, R) ==
    \A c \in X : c.slot \in R => H[c.slot] = After(H[c.slot - 1], c.kind)
WindowsApart(H, R) ==
    \A k \in R : \A j \in 0..k :
        /\ H[j].adu <= H[k].adu
        /\ H[j].config <= H[k].config
        /\ H[j].config < H[k].config => H[j].adu + Alpha <= H[k].adu
ChosenInWindow(H, X, R) ==
    \A c \in X : \E k \in R :
        /\ H[k].config = c.config
        /\ H[k].adu < c.slot /\ c.slot <= H[k].adu + Alpha
IsHistory(H) ==
    /\ H \in [Nat -> ViewType]
    /\ \A r \in Replica : View(r) = H[executed[r]]
    /\ FollowsLog(H, chosen, Reached)
    /\ WindowsApart(H, Reached)
    /\ ChosenInWindow(H, chosen, Reached)

OncePerConfig(X) ==
    \A c, d \in X : c.slot = d.slot /\ c.config = d.config => c = d
ReachedIsChosen ==
    \A k \in Reached \ {0} : \E c \in chosen : c.slot = k

SlotsInv ==
    /\ SlotsType
    /\ OncePerConfig(chosen)
    /\ ReachedIsChosen
    /\ \E H : IsHistory(H)

LEMMA AfterFacts ==
    ASSUME NEW v \in ViewType, NEW k
    PROVE  /\ After(v, k) \in ViewType
           /\ v.adu <= After(v, k).adu
           /\ v.config <= After(v, k).config
           /\ v.config < After(v, k).config => v.adu + Alpha <= After(v, k).adu
<1> USE AlphaAssumption DEF ViewType
<1>1. CASE k = "Reconfig"
  BY <1>1 DEF After, AfterRun, AfterFill
<1>2. CASE k # "Reconfig" /\ v.mode = "run"
  BY <1>2 DEF After, AfterRun
<1>3. CASE k # "Reconfig" /\ v.mode # "run"
  BY <1>3 DEF After, AfterFill
<1> QED
  BY <1>1, <1>2, <1>3

LEMMA HistoryOneConfig ==
    ASSUME NEW X \in SUBSET Entry, NEW R \in SUBSET Nat, OncePerConfig(X),
           NEW H \in [Nat -> ViewType], WindowsApart(H, R), ChosenInWindow(H, X, R)
    PROVE  \A c, d \in X : c.slot = d.slot => c = d
<1>1. ASSUME NEW c \in X, NEW d \in X, c.slot = d.slot, c.config < d.config
      PROVE  FALSE
  <2>1. PICK j \in R : /\ H[j].config = c.config
                       /\ H[j].adu < c.slot /\ c.slot <= H[j].adu + Alpha
    BY DEF ChosenInWindow
  <2>2. PICK k \in R : /\ H[k].config = d.config
                       /\ H[k].adu < d.slot /\ d.slot <= H[k].adu + Alpha
    BY DEF ChosenInWindow
  <2> /\ H[j].config \in Nat /\ H[k].config \in Nat
      /\ H[j].adu \in Nat /\ H[k].adu \in Nat /\ c.slot \in Nat
    BY DEF ViewType, Entry
  <2>3. CASE j <= k
    <3>1. H[j].adu + Alpha <= H[k].adu
      BY <1>1, <2>1, <2>2, <2>3 DEF WindowsApart
    <3> QED
      BY <1>1, <2>1, <2>2, <3>1, AlphaAssumption
  <2>4. CASE k <= j
    <3>1. H[k].config <= H[j].config
      BY <2>4 DEF WindowsApart
    <3> QED
      BY <1>1, <2>1, <2>2, <3>1
  <2> QED
    BY <2>3, <2>4
<1>2. ASSUME NEW c \in X, NEW d \in X, c.slot = d.slot PROVE c = d
  <2>1. c.config \in Nat /\ d.config \in Nat
    BY DEF Entry
  <2>2. ~(c.config < d.config) /\ ~(d.config < c.config)
    BY <1>1, <1>2
  <2> QED
    BY <1>2, <2>1, <2>2 DEF OncePerConfig
<1> QED
  BY <1>2

(* A value is chosen in the window of p.                                   *)
LEMMA ChoosePreserves ==
    ASSUME SlotsInv, NEW p \in Replica, NEW s \in Nat \ {0}, NEW k \in Slots!Kind,
           Slots!Choose(p, s, k), UNCHANGED <<executed, adu, config, mode, decided>>
    PROVE  SlotsInv'
<1> DEFINE n == [slot |-> s, config |-> config[p], kind |-> k]
<1>1. /\ adu[p] < s /\ s <= adu[p] + Alpha
      /\ \A c \in chosen : ~(c.slot = s /\ c.config = config[p])
      /\ chosen' = chosen \cup {n}
  BY DEF Slots!Choose
<1>2. SlotsType /\ SlotsType'
  BY <1>1 DEF SlotsInv, SlotsType, Entry
<1>3. OncePerConfig(chosen')
  BY <1>1 DEF SlotsInv, OncePerConfig
<1>4. Reached' = Reached /\ Reached \subseteq Nat
  BY DEF Reached
<1>5. ReachedIsChosen /\ ReachedIsChosen'
  BY <1>1, <1>4 DEF SlotsInv, ReachedIsChosen
<1>6. PICK H : IsHistory(H)
  BY DEF SlotsInv
<1>7. H \in [Nat -> ViewType] /\ WindowsApart(H, Reached)
  BY <1>6 DEF IsHistory
<1>8. ChosenInWindow(H, chosen', Reached)
  <2>1. /\ executed[p] \in Reached
        /\ H[executed[p]].config = n.config
        /\ H[executed[p]].adu < n.slot /\ n.slot <= H[executed[p]].adu + Alpha
    <3>1. H[executed[p]] = View(p)
      BY <1>6 DEF IsHistory
    <3>2. executed[p] \in Reached
      BY <1>2 DEF SlotsType, Reached
    <3> QED
      BY <1>1, <3>1, <3>2 DEF View
  <2>2. ChosenInWindow(H, chosen, Reached)
    BY <1>6 DEF IsHistory
  <2> QED
    BY <1>1, <2>1, <2>2 DEF ChosenInWindow
<1>9. FollowsLog(H, chosen', Reached)
  <2>1. s \notin Reached
    <3>1. SUFFICES ASSUME s \in Reached PROVE FALSE
      OBVIOUS
    <3>2. PICK c \in chosen : c.slot = s
      BY <1>5, <3>1 DEF ReachedIsChosen
    <3>3. \A x, y \in chosen' : x.slot = y.slot => x = y
      BY <1>2, <1>3, <1>4, <1>7, <1>8, HistoryOneConfig DEF SlotsType
    <3>4. n \in chosen' /\ c \in chosen' /\ n.slot = c.slot
      BY <1>1, <3>2
    <3>5. c = n
      BY <3>3, <3>4
    <3> QED
      BY <1>1, <3>2, <3>5
  <2>2. FollowsLog(H, chosen, Reached)
    BY <1>6 DEF IsHistory
  <2> QED
    BY <1>1, <2>1, <2>2 DEF FollowsLog
<1>10. \A r \in Replica : View(r)' = H[executed'[r]]
  BY <1>6 DEF IsHistory, View
<1>11. IsHistory(H)'
  BY <1>4, <1>7, <1>8, <1>9, <1>10 DEF IsHistory
<1> QED
  BY <1>2, <1>3, <1>5, <1>11 DEF SlotsInv

(* Server r executes the value c of its next slot.                         *)
LEMMA ExecutePreserves ==
    ASSUME SlotsInv, NEW r \in Replica, NEW c \in chosen, c.slot = executed[r] + 1,
           chosen' = chosen, executed' = [executed EXCEPT ![r] = @ + 1],
           SlotsType', View(r)' = After(View(r), c.kind),
           \A q \in Replica \ {r} : View(q)' = View(q)
    PROVE  SlotsInv'
<1> DEFINE e == executed[r]
<1>1. PICK H : IsHistory(H)
  BY DEF SlotsInv
<1>2. /\ SlotsType /\ e \in Nat /\ e + 1 = c.slot
      /\ \A q \in Replica : executed[q] \in Nat /\ executed'[q] \in Nat
      /\ executed'[r] = e + 1
      /\ \A q \in Replica \ {r} : executed'[q] = executed[q]
  BY DEF SlotsInv, SlotsType
<1>3. Reached' = Reached \cup 0..(e + 1) /\ 0..e \subseteq Reached /\ Reached \subseteq Nat
  BY <1>2 DEF Reached
<1>4. /\ H \in [Nat -> ViewType]
      /\ \A q \in Replica : View(q) = H[executed[q]]
      /\ FollowsLog(H, chosen, Reached)
      /\ WindowsApart(H, Reached)
      /\ ChosenInWindow(H, chosen, Reached)
  BY <1>1 DEF IsHistory
<1>5. ReachedIsChosen'
  BY <1>2, <1>3 DEF SlotsInv, ReachedIsChosen
<1>6. CASE e + 1 \in Reached
  <2>1. Reached' = Reached
    BY <1>2, <1>3, <1>6
  <2>2. H[e + 1] = After(H[e], c.kind)
    BY <1>2, <1>4, <1>6 DEF FollowsLog
  <2>3. \A q \in Replica : View(q)' = H[executed'[q]]
    BY <1>2, <1>4, <2>2
  <2>4. IsHistory(H)'
    BY <1>4, <2>1, <2>3 DEF IsHistory
  <2> QED
    BY <1>5, <2>4 DEF SlotsInv
<1>7. CASE e + 1 \notin Reached
  <2>0. PICK G : G = [H EXCEPT ![e + 1] = After(H[e], c.kind)]
    OBVIOUS
  <2>1. /\ G \in [Nat -> ViewType]
        /\ G[e + 1] = After(H[e], c.kind)
        /\ \A k \in Nat \ {e + 1} : G[k] = H[k]
    BY <1>2, <1>4, <2>0, AfterFacts
  <2>2. Reached = 0..e /\ Reached' = 0..(e + 1)
    <3>1. \A q \in Replica : executed[q] <= e
      BY <1>2, <1>7 DEF Reached
    <3> QED
      BY <1>2, <1>3, <3>1 DEF Reached
  <2>3. \A q \in Replica : View(q)' = G[executed'[q]]
    <3>1. View(r)' = G[executed'[r]]
      BY <1>2, <1>4, <2>1
    <3>2. ASSUME NEW q \in Replica \ {r} PROVE View(q)' = G[executed'[q]]
      <4>1. executed[q] \in Nat \ {e + 1}
        BY <1>2, <1>7 DEF Reached
      <4> QED
        BY <1>2, <1>4, <2>1, <4>1
    <3> QED
      BY <3>1, <3>2
  <2>4. FollowsLog(G, chosen, Reached')
    <3> SUFFICES ASSUME NEW d \in chosen, d.slot \in Reached'
                 PROVE  G[d.slot] = After(G[d.slot - 1], d.kind)
      BY DEF FollowsLog
    <3>1. d.slot \in Nat \ {0}
      BY <1>2 DEF SlotsType, Entry
    <3>2. CASE d.slot = e + 1
      <4>1. d = c
        BY <1>2, <1>3, <1>4, <3>2, HistoryOneConfig DEF SlotsInv, SlotsType
      <4> QED
        BY <1>2, <2>1, <3>2, <4>1
    <3>3. CASE d.slot # e + 1
      <4>1. d.slot \in Reached /\ d.slot - 1 \in Nat \ {e + 1} /\ d.slot \in Nat \ {e + 1}
        BY <1>2, <2>2, <3>1, <3>3
      <4> QED
        BY <1>4, <2>1, <4>1 DEF FollowsLog
    <3> QED
      BY <3>2, <3>3
  <2>5. WindowsApart(G, Reached')
    <3>1. ASSUME NEW k \in 0..e, NEW j \in 0..k
          PROVE  /\ G[j].adu <= G[k].adu
                 /\ G[j].config <= G[k].config
                 /\ G[j].config < G[k].config => G[j].adu + Alpha <= G[k].adu
      <4>1. G[j] = H[j] /\ G[k] = H[k]
        BY <1>2, <2>1
      <4> QED
        BY <1>4, <2>2, <4>1 DEF WindowsApart
    <3>2. ASSUME NEW j \in 0..(e + 1)
          PROVE  /\ G[j].adu <= G[e + 1].adu
                 /\ G[j].config <= G[e + 1].config
                 /\ G[j].config < G[e + 1].config => G[j].adu + Alpha <= G[e + 1].adu
      <4>1. j \in Nat /\ G[j] \in ViewType /\ G[e] \in ViewType /\ G[e + 1] \in ViewType
        BY <1>2, <2>1
      <4>2. G[e] = H[e] /\ G[e + 1] = After(G[e], c.kind)
        BY <1>2, <2>1
      <4>3. /\ G[e].adu <= G[e + 1].adu
            /\ G[e].config <= G[e + 1].config
            /\ G[e].config < G[e + 1].config => G[e].adu + Alpha <= G[e + 1].adu
        BY <4>1, <4>2, AfterFacts
      <4>4. j = e + 1 \/ j \in 0..e
        BY <1>2
      <4>5. CASE j = e + 1
        BY <4>1, <4>5 DEF ViewType
      <4>6. CASE j \in 0..e
        <5>1. /\ G[j].adu <= G[e].adu
              /\ G[j].config <= G[e].config
              /\ G[j].config < G[e].config => G[j].adu + Alpha <= G[e].adu
          BY <1>2, <3>1, <4>6
        <5> QED
          BY <4>1, <4>3, <5>1, AlphaAssumption DEF ViewType
      <4> QED
        BY <4>4, <4>5, <4>6
    <3> QED
      BY <1>2, <2>2, <3>1, <3>2 DEF WindowsApart
  <2>6. ChosenInWindow(G, chosen, Reached')
    <3> SUFFICES ASSUME NEW d \in chosen
                 PROVE  \E k \in Reached' :
                          /\ G[k].config = d.config
                          /\ G[k].adu < d.slot /\ d.slot <= G[k].adu + Alpha
      BY DEF ChosenInWindow
    <3>1. PICK k \in Reached : /\ H[k].config = d.config
                               /\ H[k].adu < d.slot /\ d.slot <= H[k].adu + Alpha
      BY <1>4 DEF ChosenInWindow
    <3>2. k \in Reached' /\ G[k] = H[k]
      BY <1>2, <1>7, <2>1, <2>2
    <3> QED
      BY <3>1, <3>2
  <2>7. IsHistory(G)'
    BY <2>1, <2>3, <2>4, <2>5, <2>6 DEF IsHistory
  <2> QED
    BY <1>5, <2>7 DEF SlotsInv
<1> QED
  BY <1>6, <1>7

LEMMA SlotsStep ==
    ASSUME SlotsInv, Slots!Next
    PROVE  SlotsInv'
<1> USE DEF Slots!serverVars
<1>1. ASSUME NEW p \in Replica, NEW s \in Slots!Slot,
             Slots!Fill(p, s) \/ \E k \in Slots!Kind : Slots!ChooseAny(p, s, k)
      PROVE  SlotsInv'
  <2>1. s \in Nat \ {0}
    BY DEF Slots!Slot
  <2>2. PICK k \in Slots!Kind :
          Slots!Choose(p, s, k) /\ UNCHANGED <<executed, adu, config, mode, decided>>
    BY <1>1 DEF Slots!Fill, Slots!ChooseAny, Slots!Kind
  <2> QED
    BY <2>1, <2>2, ChoosePreserves
<1>2. ASSUME NEW r \in Replica, NEW c \in chosen,
             \/ Slots!Execute(r, c) \/ Slots!StartReconfig(r, c)
             \/ Slots!ExecuteInFill(r, c) \/ Slots!AbortReconfig(r, c)
      PROVE  SlotsInv'
  <2> USE DEF SlotsType
  <2>1. SlotsType /\ executed[r] \in Nat /\ View(r) \in ViewType
    BY DEF SlotsInv, View, ViewType
  <2>2. /\ c.slot = executed[r] + 1 /\ chosen' = chosen
        /\ executed' = [executed EXCEPT ![r] = @ + 1]
    BY <1>2 DEF Slots!Execute, Slots!StartReconfig, Slots!ExecuteInFill,
                Slots!AbortReconfig
  <2>3. /\ View(r)' = After(View(r), c.kind)
        /\ \A q \in Replica \ {r} : View(q)' = View(q)
        /\ SlotsType'
    <3>1. CASE Slots!Execute(r, c)
      BY <2>1, <2>2, <3>1 DEF Slots!Execute, View, After, AfterRun
    <3>2. CASE Slots!StartReconfig(r, c)
      BY <2>1, <2>2, <3>2 DEF Slots!StartReconfig, View, After, AfterRun
    <3>3. CASE Slots!ExecuteInFill(r, c)
      BY <2>1, <2>2, <3>3, AlphaAssumption
         DEF Slots!ExecuteInFill, Slots!LastFilled, Slots!cmdsToFill,
             Slots!SignalAtEnd, View, After, AfterFill
    <3>4. CASE Slots!AbortReconfig(r, c)
      BY <2>1, <2>2, <3>4 DEF Slots!AbortReconfig, View, After, AfterFill
    <3> QED
      BY <1>2, <3>1, <3>2, <3>3, <3>4
  <2> QED
    BY <2>2, <2>3, ExecutePreserves
<1>3. \A r \in Replica, c \in chosen : ~Slots!FailReconfig(r, c)
  BY DEF Slots!FailReconfig
<1> QED
  BY <1>1, <1>2, <1>3 DEF Slots!Next

LEMMA SlotsInvariant == Spec => [](Is("slots") => SlotsInv)
<1> DEFINE Inv == Is("slots") => SlotsInv
<1>1. Init => Inv
  <2> SUFFICES ASSUME Init, Is("slots") PROVE SlotsInv
    OBVIOUS
  <2>1. Slots!Init
    BY DEF Init, Is
  <2>2. PICK H : H = [k \in Nat |-> InitView]
    OBVIOUS
  <2>3. InitView \in ViewType /\ InitView.config = 0 /\ InitView.adu = 0
    BY DEF InitView, ViewType
  <2>4. Reached \subseteq {0} /\ chosen = {}
    BY <2>1 DEF Slots!Init, Reached
  <2>5. \A r \in Replica : View(r) = H[executed[r]]
    BY <2>1, <2>2 DEF Slots!Init, View, InitView
  <2>6. H \in [Nat -> ViewType] /\ \A k \in Nat : H[k] = InitView
    BY <2>2, <2>3
  <2>7. WindowsApart(H, Reached)
    BY <2>3, <2>4, <2>6 DEF WindowsApart
  <2>8. IsHistory(H)
    BY <2>4, <2>5, <2>6, <2>7 DEF IsHistory, FollowsLog, ChosenInWindow
  <2>9. SlotsType
    BY <2>1 DEF Slots!Init, SlotsType
  <2> QED
    BY <2>4, <2>8, <2>9 DEF SlotsInv, OncePerConfig, ReachedIsChosen
<1>2. Inv /\ [Next]_allVars => Inv'
  <2> SUFFICES ASSUME Inv, [Next]_allVars, Is("slots")' PROVE SlotsInv'
    OBVIOUS
  <2>1. Is("slots") /\ (Slots!Next \/ UNCHANGED serverVars)
    BY DEF Next, Is, allVars
  <2>2. CASE UNCHANGED serverVars
    <3>1. UNCHANGED <<chosen, executed, adu, config, mode, decided>>
      BY <2>2 DEF serverVars
    <3>2. Reached' = Reached /\ \A r : View(r)' = View(r)
      BY <3>1 DEF Reached, View
    <3>3. \A H : IsHistory(H) => IsHistory(H)'
      BY <3>1, <3>2 DEF IsHistory
    <3> QED
      BY <2>1, <3>1, <3>2, <3>3
         DEF SlotsInv, SlotsType, OncePerConfig, ReachedIsChosen
  <2> QED
    BY <2>1, <2>2, SlotsStep
<1> QED
  BY <1>1, <1>2, PTL DEF Spec, allVars

(* No slot is chosen in two configurations (handleReconfigCmd), for any    *)
(* number of replicas and any alpha, with reconfigurations during others   *)
(* or without: the windows of a configuration end before those of the next *)
(* begin.                                                                  *)
THEOREM OneConfigPerSlotTheorem == Spec => []OneConfigPerSlot
<1>1. (Is("slots") => SlotsInv) => OneConfigPerSlot
  <2> SUFFICES ASSUME SlotsInv PROVE Slots!OneConfigPerSlot
    BY DEF OneConfigPerSlot
  <2>1. PICK H : IsHistory(H)
    BY DEF SlotsInv
  <2>2. Reached \subseteq Nat
    BY DEF Reached
  <2> QED
    BY <2>1, <2>2, HistoryOneConfig
       DEF SlotsInv, SlotsType, IsHistory, Slots!OneConfigPerSlot
<1> QED
  BY <1>1, SlotsInvariant, PTL

(* Servers that have executed as many slots have the same configuration    *)
(* and are both in handlePreReconfig or both not.                          *)
THEOREM SameConfigTheorem == Spec => []SameConfig
<1>1. (Is("slots") => SlotsInv) => SameConfig
  <2> SUFFICES ASSUME SlotsInv, NEW r \in Replica, NEW q \in Replica,
                      executed[r] = executed[q]
               PROVE  config[r] = config[q] /\ mode[r] = mode[q]
    BY DEF SameConfig, Slots!SameConfig
  <2>1. PICK H : IsHistory(H)
    BY DEF SlotsInv
  <2>2. View(r) = View(q)
    BY <2>1 DEF IsHistory
  <2> QED
    BY <2>2 DEF View
<1> QED
  BY <1>1, SlotsInvariant, PTL

-----------------------------------------------------------------------------
(* Reconfiguration through the log, when servers may not reach the new     *)
(* node and no reconfiguration is proposed during another.                 *)

Reconfigs == {c \in chosen : c.kind = "Reconfig"}

AruType ==
    /\ chosen \subseteq Entry
    /\ executed \in [FailReplica -> Nat]
    /\ localAru \in [FailReplica -> Nat]
    /\ adu \in [FailReplica -> Nat]
    /\ config \in [FailReplica -> Nat]
    /\ mode \in [FailReplica -> {"run", "fill"}]
    /\ decided \in [FailReplica -> Nat]

(* One command a configuration, alpha slots apart.                         *)
CommandsApart ==
    \A c, d \in Reconfigs :
        /\ c.config = d.config => c = d
        /\ c.config < d.config => c.slot + Alpha <= d.slot

(* A server has gone past the commands of the configurations before its    *)
(* own, whether it reached the new nodes or not; and the configuration     *)
(* before its own has a command, or a later one has.                       *)
PastCommands ==
    \A r \in FailReplica :
        /\ \A c \in Reconfigs :
               c.config < config[r] => c.slot + Alpha <= executed[r] + 1
        /\ config[r] > 0 => \E c \in Reconfigs : c.config >= config[r] - 1

(* A server that failed in no command has told its proposer of all slots:  *)
(* only its proposer may propose the next command.                         *)
NeverFailed(r, k) == \A c \in Reconfigs : c.slot <= k => c.config < config[r]

AllTold ==
    \A r \in FailReplica :
        mode[r] = "run" /\ NeverFailed(r, executed[r]) => adu[r] = executed[r]

(* A server that fills does so for a command of its configuration or a     *)
(* later one.                                                              *)
FillsFor(r, d) ==
    /\ d.slot + decided[r] = executed[r]
    /\ d.config >= config[r]
    /\ NeverFailed(r, d.slot - 1) => adu[r] = d.slot - 1

Filling ==
    \A r \in FailReplica : mode[r] = "fill" =>
        decided[r] < Alpha - 1 /\ \E d \in Reconfigs : FillsFor(r, d)

AruCounts ==
    \A r \in FailReplica :
        localAru[r] = IF mode[r] = "run" THEN executed[r] ELSE executed[r] - 1

AruInv == AruType /\ CommandsApart /\ PastCommands /\ AllTold /\ Filling /\ AruCounts

(* Something else than a command is chosen.                                *)
LEMMA AruChooseOther ==
    ASSUME AruInv, NEW p \in FailReplica, NEW s \in Nat \ {0},
           NEW k \in {"App", "Noop"}, Failures!Choose(p, s, k),
           UNCHANGED <<executed, localAru, adu, config, mode, decided>>
    PROVE  AruInv'
<1>1. chosen' = chosen \cup {[slot |-> s, config |-> config[p], kind |-> k]}
  BY DEF Failures!Choose
<1>2. Reconfigs' = Reconfigs
  BY <1>1 DEF Reconfigs
<1>3. AruType'
  BY <1>1 DEF AruInv, AruType, Entry, Slots!Kind
<1>4. \A r, d : NeverFailed(r, d)' <=> NeverFailed(r, d)
  BY <1>2 DEF NeverFailed
<1> QED
  BY <1>2, <1>3, <1>4
     DEF AruInv, CommandsApart, PastCommands, AllTold, Filling, FillsFor, AruCounts

(* A command is chosen: its proposer is in the latest configuration and    *)
(* its server failed in no command.                                        *)
LEMMA AruChooseReconfig ==
    ASSUME AruInv, NEW p \in FailReplica, NEW s \in Nat \ {0},
           Failures!Choose(p, s, "Reconfig"),
           \A c \in Reconfigs : c.config < config[p],
           UNCHANGED <<executed, localAru, adu, config, mode, decided>>
    PROVE  AruInv'
<1> DEFINE n == [slot |-> s, config |-> config[p], kind |-> "Reconfig"]
<1> USE AlphaAssumption
<1>1. adu[p] < s /\ chosen' = chosen \cup {n}
  BY DEF Failures!Choose
<1>2. Reconfigs' = Reconfigs \cup {n}
  BY <1>1 DEF Reconfigs
<1>3. AruType /\ AruType'
  BY <1>1 DEF AruInv, AruType, Entry, Slots!Kind
<1>4. Reconfigs \subseteq Entry
  BY <1>3 DEF AruType, Reconfigs
<1>5. adu[p] = executed[p]
  <2>1. mode[p] = "run"
    BY <1>3, <1>4 DEF AruInv, AruType, Filling, FillsFor, Entry
  <2> QED
    BY <2>1 DEF AruInv, AllTold, NeverFailed
<1>6. \A c \in Reconfigs : c.slot + Alpha <= s
  BY <1>1, <1>3, <1>4, <1>5 DEF AruInv, AruType, PastCommands, Entry
<1>7. CommandsApart'
  BY <1>2, <1>3, <1>4, <1>6 DEF AruInv, CommandsApart, AruType, Entry
<1>8. PastCommands'
  <2>1. ASSUME NEW r \in FailReplica PROVE ~(config[p] < config[r])
    <3>1. SUFFICES ASSUME config[p] < config[r] PROVE FALSE
      OBVIOUS
    <3>2. PICK c \in Reconfigs : c.config >= config[r] - 1
      BY <1>3, <3>1 DEF AruInv, PastCommands, AruType
    <3> QED
      BY <1>3, <1>4, <3>1, <3>2 DEF AruType, Entry
  <2> QED
    BY <1>2, <2>1 DEF AruInv, PastCommands
<1>9. \A r, k : NeverFailed(r, k)' => NeverFailed(r, k)
  BY <1>2 DEF NeverFailed
<1>10. AllTold'
  BY <1>9 DEF AruInv, AllTold
<1>11. Filling'
  BY <1>2, <1>9 DEF AruInv, Filling, FillsFor
<1>12. AruCounts'
  BY DEF AruInv, AruCounts
<1> QED
  BY <1>3, <1>7, <1>8, <1>10, <1>11, <1>12 DEF AruInv

(* What a server meets next is no command of a configuration it has left.  *)
LEMMA NextCommand ==
    ASSUME AruInv, NEW r \in FailReplica, NEW d \in Reconfigs,
           d.slot = executed[r] + 1
    PROVE  d.config >= config[r]
BY AlphaAssumption DEF AruInv, AruType, PastCommands, Reconfigs, Entry

LEMMA AruExecute ==
    ASSUME AruInv, NEW r \in FailReplica, NEW c \in chosen, Failures!Execute(r, c)
    PROVE  AruInv'
<1> USE AlphaAssumption DEF Failures!Execute
<1>1. AruType /\ AruType'
  BY DEF AruInv, AruType
<1>2. Reconfigs' = Reconfigs /\ Reconfigs \subseteq Entry
  BY <1>1 DEF Reconfigs, AruType
<1>3. CommandsApart'
  BY <1>2 DEF AruInv, CommandsApart
<1>4. PastCommands'
  BY <1>1, <1>2 DEF AruInv, AruType, PastCommands, Entry
<1>5. NeverFailed(r, executed[r] + 1) => NeverFailed(r, executed[r])
  BY <1>1, <1>2 DEF NeverFailed, AruType, Entry
<1>6. \A q, k : NeverFailed(q, k)' <=> NeverFailed(q, k)
  BY <1>2 DEF NeverFailed
<1>7. AllTold'
  BY <1>1, <1>5, <1>6 DEF AruInv, AllTold, AruType
<1>8. Filling'
  BY <1>1, <1>2, <1>6 DEF AruInv, Filling, FillsFor, AruType
<1>9. AruCounts'
  BY <1>1 DEF AruInv, AruCounts, AruType
<1> QED
  BY <1>1, <1>3, <1>4, <1>7, <1>8, <1>9 DEF AruInv

LEMMA AruStartReconfig ==
    ASSUME AruInv, NEW r \in FailReplica, NEW c \in chosen,
           Failures!StartReconfig(r, c)
    PROVE  AruInv'
<1> USE AlphaAssumption DEF Failures!StartReconfig
<1>1. AruType /\ AruType'
  BY DEF AruInv, AruType
<1>2. Reconfigs' = Reconfigs /\ Reconfigs \subseteq Entry /\ c \in Reconfigs
  BY <1>1 DEF Reconfigs, AruType
<1>3. CommandsApart'
  BY <1>2 DEF AruInv, CommandsApart
<1>4. PastCommands'
  BY <1>1, <1>2 DEF AruInv, AruType, PastCommands, Entry
<1>5. \A q, k : NeverFailed(q, k)' <=> NeverFailed(q, k)
  BY <1>2 DEF NeverFailed
<1>6. AllTold'
  BY <1>1, <1>5 DEF AruInv, AllTold, AruType
<1>7. c.config >= config[r]
  BY <1>2, NextCommand
<1>8. FillsFor(r, c)'
  BY <1>1, <1>2, <1>5, <1>7 DEF AruInv, AllTold, FillsFor, AruType, Entry
<1>9. Filling'
  <2>1. decided'[r] < Alpha - 1
    BY <1>1, FillAssumption DEF AruType
  <2>2. ASSUME NEW q \in FailReplica \ {r}, NEW d, FillsFor(q, d) PROVE FillsFor(q, d)'
    BY <1>1, <1>5, <2>2 DEF FillsFor, AruType
  <2> QED
    BY <1>1, <1>2, <1>8, <2>1, <2>2 DEF AruInv, Filling, AruType
<1>10. AruCounts'
  BY <1>1 DEF AruInv, AruCounts, AruType
<1> QED
  BY <1>1, <1>3, <1>4, <1>6, <1>9, <1>10 DEF AruInv

LEMMA AruFailReconfig ==
    ASSUME AruInv, NEW r \in FailReplica, NEW c \in chosen,
           Failures!FailReconfig(r, c)
    PROVE  AruInv'
<1> USE AlphaAssumption DEF Failures!FailReconfig
<1>1. AruType /\ AruType'
  BY DEF AruInv, AruType
<1>2. Reconfigs' = Reconfigs /\ Reconfigs \subseteq Entry /\ c \in Reconfigs
  BY <1>1 DEF Reconfigs, AruType
<1>3. CommandsApart'
  BY <1>2 DEF AruInv, CommandsApart
<1>4. PastCommands'
  BY <1>1, <1>2 DEF AruInv, AruType, PastCommands, Entry
<1>5. \A q, k : NeverFailed(q, k)' <=> NeverFailed(q, k)
  BY <1>2 DEF NeverFailed
<1>6. c.config >= config[r]
  BY <1>2, NextCommand
<1>7. ~NeverFailed(r, executed[r] + 1)
  BY <1>1, <1>2, <1>6 DEF NeverFailed, AruType, Entry
<1>8. AllTold'
  BY <1>1, <1>5, <1>7 DEF AruInv, AllTold, AruType
<1>9. Filling'
  BY <1>1, <1>2, <1>5 DEF AruInv, Filling, FillsFor, AruType
<1>10. AruCounts'
  BY <1>1 DEF AruInv, AruCounts, AruType
<1> QED
  BY <1>1, <1>3, <1>4, <1>8, <1>9, <1>10 DEF AruInv

(* A slot of the filling.  With the last one the server takes the next     *)
(* configuration, and if it failed in no command before this one it has    *)
(* told of all slots then.                                                 *)
LEMMA AruExecuteInFill ==
    ASSUME AruInv, NEW r \in FailReplica, NEW c \in chosen,
           Failures!ExecuteInFill(r, c)
    PROVE  AruInv'
<1> DEFINE last == decided[r] + 1 = Alpha - 1
<1>1. /\ mode[r] = "fill" /\ chosen' = chosen
      /\ executed' = [executed EXCEPT ![r] = @ + 1]
      /\ decided' = [decided EXCEPT ![r] = @ + 1]
      /\ localAru' = [localAru EXCEPT ![r] = @ + (IF last THEN 2 ELSE 1)]
      /\ adu' = [adu EXCEPT ![r] = @ + (IF last THEN Alpha ELSE 0)]
      /\ mode' = [mode EXCEPT ![r] = IF last THEN "run" ELSE "fill"]
      /\ config' = [config EXCEPT ![r] = @ + (IF last THEN 1 ELSE 0)]
  BY DEF Failures!ExecuteInFill, Failures!CountSlots, Failures!SignalAtEnd,
         Failures!LastFilled, Failures!cmdsToFill
<1> USE AlphaAssumption
<1>2. AruType
  BY DEF AruInv
<1>3. AruType'
  <2>1. \A q \in FailReplica : /\ localAru[q] + (IF last THEN 2 ELSE 1) \in Nat
                               /\ adu[q] + (IF last THEN Alpha ELSE 0) \in Nat
                               /\ config[q] + (IF last THEN 1 ELSE 0) \in Nat
    BY <1>2 DEF AruType
  <2> QED
    BY <1>1, <1>2, <2>1 DEF AruType
<1>4. Reconfigs' = Reconfigs /\ Reconfigs \subseteq Entry
  BY <1>1, <1>2 DEF Reconfigs, AruType
<1>5. PICK d \in Reconfigs : FillsFor(r, d)
  BY <1>1 DEF AruInv, Filling
<1>6. decided[r] < Alpha - 1
  BY <1>1 DEF AruInv, Filling
<1>7. CommandsApart'
  BY <1>4 DEF AruInv, CommandsApart
<1>8. \A q \in FailReplica \ {r} : \A k : NeverFailed(q, k)' <=> NeverFailed(q, k)
  BY <1>1, <1>2, <1>4 DEF NeverFailed, AruType
<1>9. CASE last
  <2>1. /\ mode'[r] = "run" /\ executed'[r] = executed[r] + 1
        /\ adu'[r] = adu[r] + Alpha /\ config'[r] = config[r] + 1
        /\ localAru'[r] = localAru[r] + 2
    BY <1>1, <1>2, <1>9 DEF AruType
  <2>2. executed[r] + 1 = d.slot + Alpha - 1
    BY <1>2, <1>4, <1>5, <1>9 DEF FillsFor, AruType, Entry
  <2>3. PastCommands'
    <3>1. ASSUME NEW b \in Reconfigs, b.config < config[r] + 1
          PROVE  b.slot + Alpha <= executed[r] + 2
      <4>1. b.slot <= d.slot
        BY <1>2, <1>4, <1>5, <3>1
           DEF AruInv, CommandsApart, FillsFor, AruType, Entry
      <4> QED
        BY <1>2, <1>4, <2>2, <4>1 DEF AruType, Entry
    <3>2. d.config >= config[r]
      BY <1>5 DEF FillsFor
    <3>3. ASSUME NEW q \in FailReplica \ {r}
          PROVE  executed'[q] = executed[q] /\ config'[q] = config[q]
      BY <1>1, <1>2 DEF AruType
    <3> QED
      BY <1>2, <1>4, <2>1, <3>1, <3>2, <3>3 DEF AruInv, PastCommands, AruType, Entry
  <2>4. NeverFailed(r, executed[r])' => adu'[r] = executed'[r]
    <3> SUFFICES ASSUME \A b \in Reconfigs :
                            b.slot <= executed[r] + 1 => b.config < config[r] + 1
                 PROVE  adu'[r] = executed'[r]
      BY <1>4, <2>1 DEF NeverFailed
    <3>1. d.config = config[r]
      BY <1>2, <1>4, <1>5, <1>6 DEF FillsFor, AruType, Entry
    <3>2. NeverFailed(r, d.slot - 1)
      <4> SUFFICES ASSUME NEW b \in Reconfigs, b.slot <= d.slot - 1
                   PROVE  b.config < config[r]
        BY DEF NeverFailed
      <4> QED
        BY <1>2, <1>4, <3>1 DEF AruInv, CommandsApart, AruType, Entry
    <3> QED
      BY <1>2, <1>4, <1>5, <2>1, <2>2, <3>2 DEF FillsFor, AruType, Entry
  <2>5. AllTold'
    BY <1>1, <1>2, <1>8, <2>4 DEF AruInv, AllTold, AruType
  <2>6. Filling'
    BY <1>1, <1>2, <1>4, <1>8, <2>1 DEF AruInv, Filling, FillsFor, AruType
  <2>7. AruCounts'
    BY <1>1, <1>2, <2>1 DEF AruInv, AruCounts, AruType
  <2> QED
    BY <1>3, <1>7, <2>3, <2>5, <2>6, <2>7 DEF AruInv
<1>10. CASE ~last
  <2>1. /\ mode' = mode /\ adu' = adu /\ config' = config
        /\ executed'[r] = executed[r] + 1 /\ decided'[r] = decided[r] + 1
        /\ localAru'[r] = localAru[r] + 1
    BY <1>1, <1>2, <1>10 DEF AruType
  <2>2. \A q, k : NeverFailed(q, k)' <=> NeverFailed(q, k)
    BY <1>4, <2>1 DEF NeverFailed
  <2>3. PastCommands'
    BY <1>1, <1>2, <1>4, <2>1 DEF AruInv, PastCommands, AruType, Entry
  <2>4. AllTold'
    BY <1>1, <1>2, <2>1, <2>2 DEF AruInv, AllTold, AruType
  <2>5. FillsFor(r, d)'
    BY <1>2, <1>4, <1>5, <2>1, <2>2 DEF FillsFor, AruType, Entry
  <2>6. decided'[r] < Alpha - 1
    BY <1>2, <1>6, <1>10, <2>1 DEF AruType
  <2>7. ASSUME NEW q \in FailReplica \ {r}, NEW b, FillsFor(q, b)
        PROVE  FillsFor(q, b)' /\ decided'[q] = decided[q]
    BY <1>1, <1>2, <2>1, <2>2, <2>7 DEF FillsFor, AruType
  <2>8. Filling'
    BY <1>4, <2>1, <2>5, <2>6, <2>7 DEF AruInv, Filling
  <2>9. AruCounts'
    BY <1>1, <1>2, <2>1 DEF AruInv, AruCounts, AruType
  <2> QED
    BY <1>3, <1>7, <2>3, <2>4, <2>8, <2>9 DEF AruInv
<1> QED
  BY <1>9, <1>10

(* No command reaches a server that fills.                                 *)
LEMMA NoAbort ==
    ASSUME AruInv, NEW r \in FailReplica, NEW c \in chosen
    PROVE  ~Failures!AbortReconfig(r, c)
<1> SUFFICES ASSUME mode[r] = "fill", c \in Reconfigs, c.slot = executed[r] + 1
             PROVE  FALSE
  BY DEF Failures!AbortReconfig, Reconfigs
<1>1. PICK d \in Reconfigs : FillsFor(r, d) /\ decided[r] < Alpha - 1
  BY DEF AruInv, Filling
<1>2. d.slot < c.slot /\ c.slot < d.slot + Alpha
  BY <1>1, AlphaAssumption DEF AruInv, AruType, FillsFor, Reconfigs, Entry
<1> QED
  BY <1>2, AlphaAssumption DEF AruInv, AruType, CommandsApart, Reconfigs, Entry

LEMMA AruStep ==
    ASSUME AruInv, Failures!Next
    PROVE  AruInv'
<1>1. ASSUME NEW p \in FailReplica, NEW s \in Failures!Slot, Failures!Fill(p, s)
      PROVE  AruInv'
  <2>1. s \in Nat \ {0} /\ Failures!Choose(p, s, "Noop")
        /\ UNCHANGED <<executed, localAru, adu, config, mode, decided>>
    BY <1>1 DEF Failures!Fill, Failures!Slot
  <2> QED
    BY <2>1, AruChooseOther
<1>2. ASSUME NEW p \in FailReplica, NEW s \in Failures!Slot,
             NEW k \in Failures!Kind, Failures!ChooseAny(p, s, k)
      PROVE  AruInv'
  <2>1. s \in Nat \ {0} /\ Failures!Choose(p, s, k)
        /\ UNCHANGED <<executed, localAru, adu, config, mode, decided>>
    BY <1>2 DEF Failures!ChooseAny, Failures!Slot, Failures!serverVars
  <2>2. CASE k # "Reconfig"
    BY <2>1, <2>2, AruChooseOther DEF Failures!Kind
  <2>3. CASE k = "Reconfig"
    <3>1. \A c \in Reconfigs : c.config < config[p]
      BY <1>2, <2>3 DEF Failures!ChooseAny, Reconfigs
    <3> QED
      BY <2>1, <2>3, <3>1, AruChooseReconfig
  <2> QED
    BY <2>2, <2>3
<1> QED
  BY <1>1, <1>2, AruExecute, AruStartReconfig, AruFailReconfig, AruExecuteInFill,
     NoAbort DEF Failures!Next

(* localAru counts the executed slots, except during handlePreReconfig:    *)
(* for any number of servers of which any may fail to reach any new node,  *)
(* if no reconfiguration is proposed during another.                       *)
THEOREM AruCountsSlotsTheorem == Spec => []AruCountsSlots
<1> DEFINE Inv == Is("failures") => AruInv
<1>1. Init => Inv
  <2> SUFFICES ASSUME Init, Is("failures") PROVE AruInv
    OBVIOUS
  <2>1. Failures!Init
    BY DEF Init, Is
  <2>2. Reconfigs = {}
    BY <2>1 DEF Failures!Init, Reconfigs
  <2> QED
    BY <2>1, <2>2
       DEF Failures!Init, AruInv, AruType, CommandsApart, PastCommands, AllTold,
           Filling, AruCounts
<1>2. Inv /\ [Next]_allVars => Inv'
  <2> SUFFICES ASSUME Inv, [Next]_allVars, Is("failures")' PROVE AruInv'
    OBVIOUS
  <2>1. Is("failures") /\ (Failures!Next \/ UNCHANGED serverVars)
    BY DEF Next, Is, allVars
  <2>2. CASE UNCHANGED serverVars
    BY <2>1, <2>2
       DEF serverVars, AruInv, AruType, CommandsApart, PastCommands, AllTold,
           Filling, FillsFor, NeverFailed, Reconfigs, AruCounts
  <2> QED
    BY <2>1, <2>2, AruStep
<1>3. Inv => AruCountsSlots
  BY DEF AruCountsSlots, Failures!AruCountsSlots, AruInv, AruCounts
<1> QED
  BY <1>1, <1>2, <1>3, PTL DEF Spec, allVars

-----------------------------------------------------------------------------
(* The handler of the leader and its server.                               *)

Queued == {queue[i] : i \in 1..Len(queue)}

HandlerType ==
    /\ queue \in Seq(Msg)
    /\ handler \in [at : {"select", "lock", "propose"}, msg : Msg \cup {None}]
    /\ handler.at = "select" <=> handler.msg = None
    /\ server \in [at : {"select", "execute", "sending", "defer"},
                   msg : Msg \cup {None}]
    /\ server.at = "execute" => server.msg \in Msg
    /\ server.at = "sending" => queue # << >>

(* Six sets that share nothing and make up Msg.                            *)
Partition(A, B, C, D, E, F) ==
    /\ A \cap B = {} /\ A \cap C = {} /\ A \cap D = {} /\ A \cap E = {}
    /\ A \cap F = {} /\ B \cap C = {} /\ B \cap D = {} /\ B \cap E = {}
    /\ B \cap F = {} /\ C \cap D = {} /\ C \cap E = {} /\ C \cap F = {}
    /\ D \cap E = {} /\ D \cap F = {} /\ E \cap F = {}
    /\ A \cup B \cup C \cup D \cup E \cup F = Msg

HandlerInv ==
    /\ HandlerType
    /\ \A i, j \in 1..Len(queue) : queue[i] = queue[j] => i = j
    /\ Partition(pending, Queued, Handler!AtHandler, proposed, Handler!Executing,
                 finished)

LEMMA QueueAppend ==
    ASSUME NEW q \in Seq(Msg), NEW m \in Msg
    PROVE  /\ Append(q, m) \in Seq(Msg)
           /\ {Append(q, m)[i] : i \in 1..Len(Append(q, m))}
                = {q[i] : i \in 1..Len(q)} \cup {m}
           /\ /\ m \notin {q[i] : i \in 1..Len(q)}
              /\ \A i, j \in 1..Len(q) : q[i] = q[j] => i = j
              => \A i, j \in 1..Len(Append(q, m)) :
                      Append(q, m)[i] = Append(q, m)[j] => i = j
<1>1. /\ Append(q, m) \in Seq(Msg) /\ Len(q) \in Nat
      /\ Len(Append(q, m)) = Len(q) + 1
      /\ Append(q, m)[Len(q) + 1] = m
      /\ \A i \in 1..Len(q) : Append(q, m)[i] = q[i]
  OBVIOUS
<1> QED
  BY <1>1

LEMMA QueueTail ==
    ASSUME NEW q \in Seq(Msg), q # << >>,
           \A i, j \in 1..Len(q) : q[i] = q[j] => i = j
    PROVE  /\ Tail(q) \in Seq(Msg) /\ Head(q) \in Msg
           /\ Head(q) \in {q[i] : i \in 1..Len(q)}
           /\ {Tail(q)[i] : i \in 1..Len(Tail(q))}
                = {q[i] : i \in 1..Len(q)} \ {Head(q)}
           /\ \A i, j \in 1..Len(Tail(q)) : Tail(q)[i] = Tail(q)[j] => i = j
<1>1. /\ Tail(q) \in Seq(Msg) /\ Len(q) \in Nat \ {0} /\ Head(q) = q[1]
      /\ Len(Tail(q)) = Len(q) - 1
      /\ \A i \in 1..(Len(q) - 1) : Tail(q)[i] = q[i + 1]
  OBVIOUS
<1>2. {Tail(q)[i] : i \in 1..Len(Tail(q))} = {q[i] : i \in 2..Len(q)}
  <2>1. ASSUME NEW i \in 2..Len(q) PROVE i - 1 \in 1..(Len(q) - 1) /\ q[i] = Tail(q)[i - 1]
    BY <1>1
  <2> QED
    BY <1>1, <2>1
<1>3. {q[i] : i \in 2..Len(q)} = {q[i] : i \in 1..Len(q)} \ {q[1]}
  BY <1>1
<1> QED
  BY <1>1, <1>2, <1>3

LEMMA HandlerStep ==
    ASSUME HandlerInv, Handler!Next
    PROVE  HandlerInv'
<1> USE HandlerAssumption DEF HandlerInv, Handler!Idle
<1>1. ASSUME NEW m \in Msg, Handler!Receive(m) PROVE HandlerInv'
  BY <1>1 DEF Handler!Receive, HandlerType, Queued, Partition, Handler!AtHandler,
              Handler!Executing
<1>2. ASSUME NEW m \in Msg, Handler!Execute(m) PROVE HandlerInv'
  BY <1>2 DEF Handler!Execute, HandlerType, Queued, Partition, Handler!AtHandler,
              Handler!Executing
<1>3. CASE Handler!HandleRecMsg
  <2>1. /\ handler.msg \in Msg /\ handler.at = "lock" /\ server.at # "sending"
        /\ UNCHANGED <<pending, server, proposed, finished>>
    BY <1>3 DEF Handler!HandleRecMsg, Handler!LockFree, HandlerType
  <2>2. CASE inProgress
    <3>1. queue' = Append(queue, handler.msg) /\ handler' = Handler!Idle
      BY <1>3, <2>2 DEF Handler!HandleRecMsg
    <3>2. handler.msg \notin Queued
      BY <2>1 DEF Partition, Handler!AtHandler
    <3>3. /\ queue' \in Seq(Msg)
          /\ Queued' = Queued \cup {handler.msg}
          /\ \A i, j \in 1..Len(queue') : queue'[i] = queue'[j] => i = j
      BY <2>1, <3>1, <3>2, QueueAppend DEF Queued, HandlerType
    <3>4. HandlerType'
      BY <2>1, <3>1, <3>3 DEF HandlerType
    <3> QED
      BY <2>1, <3>1, <3>3, <3>4 DEF Partition, Handler!AtHandler, Handler!Executing
  <2>3. CASE ~inProgress
    BY <1>3, <2>1, <2>3
       DEF Handler!HandleRecMsg, HandlerType, Queued, Partition, Handler!AtHandler,
           Handler!Executing
  <2> QED
    BY <2>2, <2>3
<1>4. CASE Handler!Propose
  BY <1>4 DEF Handler!Propose, HandlerType, Queued, Partition, Handler!AtHandler,
              Handler!Executing
<1>5. CASE Handler!Fail
  BY <1>5 DEF Handler!Fail, HandlerType, Queued, Partition, Handler!AtHandler,
              Handler!Executing
<1>6. CASE Handler!SignalReconfCompleted
  BY <1>6 DEF Handler!SignalReconfCompleted, HandlerType, Queued, Partition,
              Handler!AtHandler, Handler!Executing
<1>7. CASE Handler!SendQueued
  <2>1. /\ queue # << >> /\ handler.msg = None /\ server.at = "sending"
        /\ handler' = [at |-> "lock", msg |-> Head(queue)]
        /\ queue' = Tail(queue) /\ server' = [server EXCEPT !.at = "defer"]
        /\ UNCHANGED <<pending, proposed, finished>>
    BY <1>7 DEF Handler!SendQueued, HandlerType
  <2>2. /\ queue' \in Seq(Msg) /\ Head(queue) \in Msg
        /\ Head(queue) \in Queued /\ Queued' = Queued \ {Head(queue)}
        /\ \A i, j \in 1..Len(queue') : queue'[i] = queue'[j] => i = j
    <3>1. queue \in Seq(Msg) /\ \A i, j \in 1..Len(queue) : queue[i] = queue[j] => i = j
      BY DEF HandlerType
    <3>2. /\ Tail(queue) \in Seq(Msg) /\ Head(queue) \in Msg
          /\ Head(queue) \in {queue[i] : i \in 1..Len(queue)}
          /\ {Tail(queue)[i] : i \in 1..Len(Tail(queue))}
               = {queue[i] : i \in 1..Len(queue)} \ {Head(queue)}
          /\ \A i, j \in 1..Len(Tail(queue)) : Tail(queue)[i] = Tail(queue)[j] => i = j
      BY <2>1, <3>1, QueueTail
    <3>3. Queued' = {Tail(queue)[i] : i \in 1..Len(Tail(queue))}
      BY <2>1 DEF Queued
    <3> QED
      BY <2>1, <3>2, <3>3 DEF Queued
  <2>3. HandlerType'
    BY <2>1, <2>2 DEF HandlerType
  <2>4. Handler!AtHandler = {} /\ Handler!AtHandler' = {Head(queue)}
    BY <2>1, <2>2 DEF Handler!AtHandler
  <2>5. Handler!Executing = {} /\ Handler!Executing' = {}
    BY <2>1, <2>3 DEF Handler!Executing, HandlerType
  <2> QED
    BY <2>1, <2>2, <2>3, <2>4, <2>5 DEF Partition
<1>8. CASE Handler!SetReconfigInProgress
  BY <1>8 DEF Handler!SetReconfigInProgress, HandlerType, Queued, Partition,
              Handler!AtHandler, Handler!Executing
<1> QED
  BY <1>1, <1>2, <1>3, <1>4, <1>5, <1>6, <1>7, <1>8 DEF Handler!Next

LEMMA PartitionPairs ==
    ASSUME NEW A, NEW B, NEW C, NEW D, NEW E, NEW F, Partition(A, B, C, D, E, F)
    PROVE  LET places == <<A, B, C, D, E, F>>
           IN  /\ UNION {places[i] : i \in DOMAIN places} = Msg
               /\ \A i, j \in 1..Len(places) :
                      i # j => places[i] \cap places[j] = {}
<1> DEFINE places == <<A, B, C, D, E, F>>
<1>1. /\ DOMAIN places = 1..6 /\ Len(places) = 6
      /\ places[1] = A /\ places[2] = B /\ places[3] = C
      /\ places[4] = D /\ places[5] = E /\ places[6] = F
  OBVIOUS
<1>2. UNION {places[i] : i \in DOMAIN places} = A \cup B \cup C \cup D \cup E \cup F
  BY <1>1
<1>3. ASSUME NEW i \in 1..6, NEW j \in 1..6, i # j PROVE places[i] \cap places[j] = {}
  <2> HIDE DEF places
  <2>1. i \in {1, 2, 3, 4, 5, 6} /\ j \in {1, 2, 3, 4, 5, 6}
    OBVIOUS
  <2> QED
    BY <1>1, <1>3, <2>1 DEF Partition
<1> QED
  BY <1>1, <1>2, <1>3 DEF Partition

(* No reconfiguration message is lost or handled twice by reconfig.go, for *)
(* any number of messages: also when the server fails in a command, and    *)
(* however the two goroutines meet at the lock and the channels.           *)
THEOREM EachInOnePlaceTheorem == Spec => []EachInOnePlace
<1> DEFINE Inv == Is("handler") => HandlerInv
<1>1. Init => Inv
  <2> SUFFICES ASSUME Handler!Init PROVE HandlerInv
    BY DEF Init
  <2>1. queue = << >> /\ Len(queue) = 0 /\ queue \in Seq(Msg)
    BY DEF Handler!Init
  <2>2. Queued = {}
    BY <2>1 DEF Queued
  <2> QED
    BY <2>1, <2>2, HandlerAssumption
       DEF Handler!Init, Handler!Idle, HandlerInv, HandlerType, Partition,
           Handler!AtHandler, Handler!Executing
<1>2. Inv /\ [Next]_allVars => Inv'
  <2> SUFFICES ASSUME Inv, [Next]_allVars, Is("handler")' PROVE HandlerInv'
    OBVIOUS
  <2>1. Is("handler") /\ (Handler!Next \/ UNCHANGED handlerVars)
    BY DEF Next, Is, allVars
  <2>2. CASE UNCHANGED handlerVars
    BY <2>1, <2>2
       DEF handlerVars, HandlerInv, HandlerType, Queued, Handler!AtHandler,
           Handler!Executing
  <2> QED
    BY <2>1, <2>2, HandlerStep
<1>3. Inv => EachInOnePlace
  <2> SUFFICES ASSUME HandlerInv PROVE Handler!EachInOnePlace
    BY DEF EachInOnePlace
  <2>1. DOMAIN queue = 1..Len(queue)
    BY DEF HandlerInv, HandlerType
  <2>2. Handler!ToSet(queue) = Queued /\ Handler!IsInjective(queue)
    BY <2>1 DEF Handler!ToSet, Handler!IsInjective, Queued, HandlerInv
  <2> DEFINE places == <<pending, Handler!ToSet(queue), Handler!AtHandler, proposed,
                         Handler!Executing, finished>>
  <2>3. Partition(pending, Handler!ToSet(queue), Handler!AtHandler, proposed,
                  Handler!Executing, finished)
    BY <2>2 DEF HandlerInv
  <2>4. /\ UNION {places[i] : i \in DOMAIN places} = Msg
        /\ \A i, j \in 1..Len(places) : i # j => places[i] \cap places[j] = {}
    BY <2>3, PartitionPairs
  <2> HIDE DEF places
  <2>5. Handler!ToSet(places) = {places[i] : i \in DOMAIN places}
    BY DEF Handler!ToSet
  <2> QED
    BY <2>2, <2>4, <2>5 DEF Handler!EachInOnePlace, places
<1> QED
  BY <1>1, <1>2, <1>3, PTL DEF Spec, allVars

-----------------------------------------------------------------------------
(* Asynchronous reconfiguration.                                           *)

(* A configuration maps PaxosIDs to nodes that have them.                  *)
GoodConf(f) ==
    /\ DOMAIN f \subseteq 0..9
    /\ \A p \in DOMAIN f : f[p] \in Node /\ Pid[f[p]] = p

ArecType ==
    /\ epoch \in [Node -> Int]
    /\ stateful \in [Node -> BOOLEAN]
    /\ valid \in [Node -> BOOLEAN]
    /\ from \in [Node -> Int]
    /\ DOMAIN cPromises = Node
    /\ DOMAIN conf \subseteq Nat

(* Whoever is in a configuration has been set up.                          *)
Configured ==
    \A e \in DOMAIN conf :
        GoodConf(conf[e]) /\ \A p \in DOMAIN conf[e] : epoch[conf[e][p]] # -1

(* A replica with state is one of its epoch's.                             *)
InOwnEpoch ==
    \A n \in Node : stateful[n] =>
        epoch[n] \in DOMAIN conf /\ n \in Arec!MembersOf(epoch[n])

(* Those in old have the same place in configurations f and g.             *)
Agree(old, f, g) == \A p \in old : p \in DOMAIN f /\ p \in DOMAIN g /\ f[p] = g[p]

(* An epoch made by n.                                                     *)
EpochBy(n, e) == \E k \in Nat : k >= 1 /\ e = Pid[n] + k * 10

(* A ReconfMsg not yet broadcast: its new nodes have not been set up.      *)
PreparedMsg(m) ==
    /\ m.cmd \in Commands /\ m.by = m.cmd.by
    /\ m.by \in arecInProgress
    /\ stateful[m.by]
    /\ m.epoch \in DOMAIN conf
    /\ EpochBy(m.by, m.new)
    /\ GoodConf(m.conf)
    /\ \A p \in DOMAIN m.conf :
           m.conf[p] \in m.cmd.new
           \/ (p \in DOMAIN conf[m.epoch] /\ m.conf[p] = conf[m.epoch][p])
    /\ Agree(m.old, conf[m.epoch], m.conf)
    /\ \A n \in m.cmd.new : epoch[n] = -1

(* Every epoch but the first was made by a replica that makes no other.    *)
Owned ==
    \A e \in DOMAIN conf : e # 0 =>
        \E x \in Commands :
            /\ x.by \in arecInProgress
            /\ \A m \in prepared : m.by # x.by
            /\ EpochBy(x.by, e)

SentMsg(m) ==
    /\ m.epoch \in DOMAIN conf /\ m.new \in DOMAIN conf
    /\ m.to \in Node
    /\ Agree(m.old, conf[m.epoch], conf[m.new])

(* n will never again answer in epoch e.                                   *)
Stopped(n, e) == stateful[n] /\ (epoch[n] > e \/ (epoch[n] = e /\ ~valid[n]))

(* Who sent a CPromise has stopped in the epoch it is of.                  *)
Promise(m) ==
    /\ m.epoch \in DOMAIN conf
    /\ m.node \in Arec!MembersOf(m.epoch)
    /\ Stopped(m.node, m.epoch)

SentPromise(m) ==
    /\ Promise(m)
    /\ m.new \in DOMAIN conf /\ m.to \in Arec!MembersOf(m.new)

StoppedPids(e) == {p \in DOMAIN conf[e] : Stopped(conf[e][p], e)}

ArecInv ==
    /\ ArecType
    /\ Configured
    /\ InOwnEpoch
    /\ \A m \in prepared : PreparedMsg(m)
    /\ \A m, k \in prepared : m.by = k.by => m = k
    /\ Owned
    /\ \A m \in rms : SentMsg(m)
    /\ \A m \in cps : SentPromise(m)
    /\ \A n \in Node : \A m \in cPromises[n] : Promise(m)
    /\ \A n \in Node : from[n] # -1 =>
           /\ from[n] \in DOMAIN conf
           /\ Cardinality(StoppedPids(from[n])) >= Arec!Quorum(from[n])

(* The instance's Cardinality is the one of FiniteSets.                    *)
LEMMA SameCardinality ==
    ASSUME NEW S
    PROVE  Arec!Cardinality(S) = Cardinality(S)
BY DEF Arec!Cardinality, Cardinality

LEMMA SmallSets ==
    ASSUME NEW S \in SUBSET (0..9)
    PROVE  IsFiniteSet(S) /\ Cardinality(S) \in Nat
<1>1. IsFiniteSet(0..9)
  <2>1. PICK a \in Int, b \in Int : a = 0 /\ b = 9
    OBVIOUS
  <2>2. IsFiniteSet(a..b)
    BY FS_Interval
  <2> QED
    BY <2>1, <2>2
<1>2. IsFiniteSet(S)
  BY <1>1, FS_Subset
<1> QED
  BY <1>2, FS_CardinalityType

LEMMA MorePids ==
    ASSUME NEW S \in SUBSET (0..9), NEW T \in SUBSET S
    PROVE  Cardinality(T) <= Cardinality(S)
BY SmallSets, FS_Subset

(* What is stopped stays so in a step that keeps the configurations, and   *)
(* in which replicas with state only go to higher epochs.                  *)
LEMMA StaysStopped ==
    ASSUME ArecInv,
           DOMAIN conf \subseteq DOMAIN conf',
           \A e \in DOMAIN conf : conf'[e] = conf[e],
           \A n \in Node : stateful[n] =>
               /\ stateful'[n]
               /\ epoch'[n] \in Int
               /\ \/ epoch'[n] > epoch[n]
                  \/ epoch'[n] = epoch[n] /\ (~valid[n] => ~valid'[n])
    PROVE  /\ \A e \in DOMAIN conf, n \in Node : Stopped(n, e) => Stopped(n, e)'
           /\ \A m : Promise(m) => Promise(m)'
           /\ \A m : SentPromise(m) => SentPromise(m)'
           /\ \A m : SentMsg(m) => SentMsg(m)'
           /\ \A e \in DOMAIN conf :
                Cardinality(StoppedPids(e)) >= Arec!Quorum(e)
                    => Cardinality(StoppedPids(e)') >= Arec!Quorum(e)'
<1>1. ASSUME NEW e \in DOMAIN conf, NEW n \in Node, Stopped(n, e) PROVE Stopped(n, e)'
  <2>1. e \in Nat /\ epoch[n] \in Int
    BY DEF ArecInv, ArecType
  <2> QED
    BY <1>1, <2>1 DEF Stopped
<1>2. ASSUME NEW m, Promise(m) PROVE Promise(m)'
  <2>1. m.node \in Node /\ m.node \in Arec!MembersOf(m.epoch)'
    BY <1>2 DEF Promise, Arec!MembersOf, Arec!PidsOf, ArecInv, Configured, GoodConf
  <2> QED
    BY <1>1, <1>2, <2>1 DEF Promise
<1>3. ASSUME NEW m, SentPromise(m) PROVE SentPromise(m)'
  BY <1>2, <1>3 DEF SentPromise, Arec!MembersOf, Arec!PidsOf
<1>4. ASSUME NEW m, SentMsg(m) PROVE SentMsg(m)'
  BY <1>4 DEF SentMsg
<1>5. ASSUME NEW e \in DOMAIN conf, Cardinality(StoppedPids(e)) >= Arec!Quorum(e)
      PROVE  Cardinality(StoppedPids(e)') >= Arec!Quorum(e)'
  <2>1. conf'[e] = conf[e] /\ GoodConf(conf[e])
    BY DEF ArecInv, Configured
  <2>2. Arec!Quorum(e)' = Arec!Quorum(e)
    BY <2>1 DEF Arec!Quorum, Arec!PidsOf
  <2>3. StoppedPids(e) \in SUBSET (StoppedPids(e)') /\ StoppedPids(e)' \in SUBSET (0..9)
    BY <1>1, <2>1 DEF StoppedPids, GoodConf
  <2>4. /\ Cardinality(StoppedPids(e)) <= Cardinality(StoppedPids(e)')
        /\ Cardinality(StoppedPids(e)) \in Nat /\ Cardinality(StoppedPids(e)') \in Nat
    BY <2>3, MorePids, SmallSets
  <2>5. Arec!Quorum(e) \in Nat
    <3>1. Cardinality(DOMAIN conf[e]) \in Nat
      BY <2>1, SmallSets DEF GoodConf
    <3> QED
      BY <3>1, SameCardinality DEF Arec!Quorum, Arec!PidsOf
  <2> QED
    BY <1>5, <2>2, <2>4, <2>5
<1> QED
  BY <1>1, <1>2, <1>3, <1>4, <1>5

(* reconfSetupLocal.                                                       *)
LEMMA NewConfGood ==
    ASSUME NEW f, GoodConf(f), NEW new \in SUBSET Node,
           NEW g, g = Arec!NewConf(f, new)
    PROVE  /\ GoodConf(g)
           /\ \A p \in DOMAIN g : g[p] \in new \/ (p \in DOMAIN f /\ g[p] = f[p])
           /\ Agree({p \in DOMAIN f : \A n \in new : Pid[n] # p}, f, g)
<1>1. DOMAIN g = DOMAIN f \cup {Pid[n] : n \in new}
  BY DEF Arec!NewConf
<1>2. ASSUME NEW p \in DOMAIN g, \E n \in new : Pid[n] = p
      PROVE  g[p] \in new /\ Pid[g[p]] = p
  <2>1. g[p] = CHOOSE n \in new : Pid[n] = p
    BY <1>1, <1>2 DEF Arec!NewConf
  <2> QED
    BY <1>2, <2>1
<1>3. ASSUME NEW p \in DOMAIN g, ~\E n \in new : Pid[n] = p
      PROVE  p \in DOMAIN f /\ g[p] = f[p]
  BY <1>1, <1>3 DEF Arec!NewConf
<1>4. GoodConf(g)
  BY <1>1, <1>2, <1>3, EpochAssumption DEF GoodConf
<1>5. \A p \in DOMAIN g : g[p] \in new \/ (p \in DOMAIN f /\ g[p] = f[p])
  BY <1>2, <1>3
<1>6. Agree({p \in DOMAIN f : \A n \in new : Pid[n] # p}, f, g)
  BY <1>1, <1>3 DEF Agree
<1> QED
  BY <1>4, <1>5, <1>6

LEMMA EpochsApart ==
    ASSUME NEW m \in Node, NEW n \in Node, NEW e, EpochBy(m, e), EpochBy(n, e)
    PROVE  Pid[m] = Pid[n] /\ e \in Nat /\ e # 0
<1>1. Pid[m] \in 0..9 /\ Pid[n] \in 0..9
  BY EpochAssumption
<1> QED
  BY <1>1 DEF EpochBy

LEMMA ArecInit ==
    ASSUME Arec!Init
    PROVE  ArecInv
<1>1. PICK f : f = [p \in {Pid[n] : n \in Original} |->
                      CHOOSE n \in Original : Pid[n] = p]
  OBVIOUS
<1>2. /\ \A n \in Node : epoch[n] = IF n \in Original THEN 0 ELSE -1
      /\ \A n \in Node : stateful[n] <=> n \in Original
      /\ DOMAIN conf = {0} /\ conf[0] = f
      /\ prepared = {} /\ rms = {} /\ cps = {} /\ ArecType
      /\ \A n \in Node : cPromises[n] = {} /\ from[n] = -1
  <2>1. conf = [e \in {0} |-> f]
    BY <1>1 DEF Arec!Init
  <2>2. DOMAIN conf = {0} /\ conf[0] = f
    BY <2>1
  <2>3. ArecType
    BY <2>2 DEF Arec!Init, ArecType
  <2>4. \A n \in Node : stateful[n] <=> n \in Original
    BY DEF Arec!Init
  <2> QED
    BY <2>2, <2>3, <2>4 DEF Arec!Init
<1>3. \A p \in DOMAIN f : f[p] \in Original /\ Pid[f[p]] = p
  BY <1>1
<1>4. \A n \in Original : Pid[n] \in DOMAIN f
  BY <1>1
<1>5. Original \subseteq Node /\ GoodConf(f)
  BY <1>1, <1>3, EpochAssumption DEF GoodConf
<1>6. \A n \in Original : f[Pid[n]] = n
  BY <1>3, <1>4, EpochAssumption
<1>7. Configured
  <2>1. \A p \in DOMAIN f : epoch[f[p]] = 0
    BY <1>2, <1>3, <1>5
  <2> QED
    BY <1>2, <1>5, <2>1 DEF Configured
<1>8. InOwnEpoch
  <2> SUFFICES ASSUME NEW n \in Original
               PROVE  epoch[n] = 0 /\ n \in {f[p] : p \in DOMAIN f}
    BY <1>2 DEF InOwnEpoch, Arec!MembersOf, Arec!PidsOf
  <2> QED
    BY <1>2, <1>4, <1>5, <1>6
<1>9. Owned
  BY <1>2 DEF Owned
<1> QED
  BY <1>2, <1>7, <1>8, <1>9 DEF ArecInv

(* handleReconfCmd.                                                        *)
LEMMA ArecCmdStep ==
    ASSUME ArecInv, NEW x \in Commands, Arec!HandleReconfCmd(x)
    PROVE  ArecInv'
<1>1. PICK n : n = x.by
  OBVIOUS
<1>2. PICK r : r = [by |-> n, cmd |-> x, epoch |-> epoch[n], new |-> Arec!NewEpoch(n),
                    conf |-> Arec!NewConf(conf[epoch[n]], x.new),
                    old |-> Arec!OldIds(epoch[n], x.new)]
  OBVIOUS
<1>3. /\ stateful[n] /\ n \notin arecInProgress /\ n \in Node /\ x.new \in SUBSET Node
      /\ \A k \in x.new : epoch[k] = -1
      /\ arecInProgress' = arecInProgress \cup {n}
      /\ prepared' = prepared \cup {r}
      /\ UNCHANGED <<epoch, stateful, valid, from, cPromises, conf, rms, cps>>
  BY <1>1, <1>2, EpochAssumption DEF Arec!HandleReconfCmd, Arec!handlerVars
<1>4. epoch[n] \in DOMAIN conf /\ epoch[n] \in Nat /\ GoodConf(conf[epoch[n]])
  BY <1>3 DEF ArecInv, ArecType, InOwnEpoch, Configured
<1>5. EpochBy(n, Arec!NewEpoch(n))
  BY <1>4 DEF EpochBy, Arec!NewEpoch
<1>6. /\ r.cmd = x /\ r.by = n /\ r.epoch = epoch[n] /\ r.new = Arec!NewEpoch(n)
      /\ r.conf = Arec!NewConf(conf[epoch[n]], x.new)
      /\ r.old = {p \in DOMAIN conf[epoch[n]] : \A k \in x.new : Pid[k] # p}
  BY <1>2 DEF Arec!OldIds, Arec!PidsOf
<1>7. /\ GoodConf(r.conf)
      /\ \A p \in DOMAIN r.conf :
             r.conf[p] \in x.new
             \/ (p \in DOMAIN conf[epoch[n]] /\ r.conf[p] = conf[epoch[n]][p])
      /\ Agree(r.old, conf[epoch[n]], r.conf)
  BY <1>3, <1>4, <1>6, NewConfGood
<1>8. PreparedMsg(r)'
  BY <1>1, <1>3, <1>4, <1>5, <1>6, <1>7 DEF PreparedMsg
<1>9. ASSUME NEW m \in prepared PROVE PreparedMsg(m)' /\ m.by # n
  BY <1>3 DEF ArecInv, PreparedMsg
<1>10. Owned'
  <2> SUFFICES ASSUME NEW e \in DOMAIN conf, e # 0
               PROVE  \E y \in Commands : /\ y.by \in arecInProgress'
                                          /\ \A m \in prepared' : m.by # y.by
                                          /\ EpochBy(y.by, e)
    BY <1>3 DEF Owned
  <2>1. PICK y \in Commands : /\ y.by \in arecInProgress
                              /\ \A m \in prepared : m.by # y.by
                              /\ EpochBy(y.by, e)
    BY DEF ArecInv, Owned
  <2> QED
    BY <1>3, <1>6, <2>1
<1>11. /\ \A m \in prepared' : PreparedMsg(m)'
       /\ \A m, k \in prepared' : m.by = k.by => m = k
  BY <1>3, <1>6, <1>8, <1>9 DEF ArecInv
<1>12. /\ \A m : SentMsg(m) => SentMsg(m)'
       /\ \A m : Promise(m) => Promise(m)'
       /\ \A m : SentPromise(m) => SentPromise(m)'
       /\ \A e \in DOMAIN conf :
            Cardinality(StoppedPids(e)) >= Arec!Quorum(e)
                => Cardinality(StoppedPids(e)') >= Arec!Quorum(e)'
  BY <1>3, StaysStopped DEF ArecInv, ArecType
<1>13. ArecType' /\ Configured' /\ InOwnEpoch'
  BY <1>3 DEF ArecInv, ArecType, Configured, InOwnEpoch, Arec!MembersOf, Arec!PidsOf
<1> QED
  BY <1>3, <1>10, <1>11, <1>12, <1>13 DEF ArecInv

(* doRemoteSetupAndSend: the epoch is a new one, and only nodes without    *)
(* state are set up.                                                       *)
LEMMA ArecSetupStep ==
    ASSUME ArecInv, NEW r, Arec!DoRemoteSetupAndSend(r)
    PROVE  ArecInv'
<1>1. /\ r \in prepared
      /\ prepared' = prepared \ {r}
      /\ conf' = [e \in DOMAIN conf \cup {r.new} |-> IF e = r.new THEN r.conf ELSE conf[e]]
      /\ epoch' = [n \in Node |-> IF n \in r.cmd.new THEN r.new ELSE epoch[n]]
      /\ rms' = rms \cup {[to |-> k, epoch |-> r.epoch, new |-> r.new, old |-> r.old] :
                              k \in Arec!MembersOf(epoch[r.by])}
      /\ UNCHANGED <<stateful, valid, cPromises, arecInProgress, cps, from>>
  BY DEF Arec!DoRemoteSetupAndSend
<1>2. PreparedMsg(r) /\ r.cmd \in Commands /\ r.by = r.cmd.by /\ r.by \in Node
      /\ r.cmd.new \in SUBSET Node
  BY <1>1, EpochAssumption DEF ArecInv, PreparedMsg
<1>3. r.new \in Nat /\ r.new # 0
  BY <1>2, EpochsApart DEF PreparedMsg
<1>4. r.new \notin DOMAIN conf
  <2> SUFFICES ASSUME r.new \in DOMAIN conf PROVE FALSE
    OBVIOUS
  <2>1. PICK y \in Commands : (\A m \in prepared : m.by # y.by) /\ EpochBy(y.by, r.new)
    BY <1>3 DEF ArecInv, Owned
  <2>2. y.by \in Node
    BY EpochAssumption
  <2>3. Pid[y.by] = Pid[r.by]
    BY <1>2, <2>1, <2>2, EpochsApart DEF PreparedMsg
  <2>4. y.by = r.by
    BY <1>2, <2>3, EpochAssumption
  <2> QED
    BY <1>1, <2>1, <2>4
<1>5. /\ DOMAIN conf' = DOMAIN conf \cup {r.new}
      /\ conf'[r.new] = r.conf
      /\ \A e \in DOMAIN conf : conf'[e] = conf[e]
  BY <1>1, <1>4
<1>6. \A n \in Node : stateful[n] => n \notin r.cmd.new /\ epoch'[n] = epoch[n]
  BY <1>1, <1>2 DEF PreparedMsg, ArecInv, ArecType, InOwnEpoch
<1>7. /\ \A m : SentMsg(m) => SentMsg(m)'
      /\ \A m : Promise(m) => Promise(m)'
      /\ \A m : SentPromise(m) => SentPromise(m)'
      /\ \A e \in DOMAIN conf :
           Cardinality(StoppedPids(e)) >= Arec!Quorum(e)
               => Cardinality(StoppedPids(e)') >= Arec!Quorum(e)'
  <2>1. \A n \in Node : stateful[n] =>
            stateful'[n] /\ epoch'[n] \in Int /\ epoch'[n] = epoch[n] /\ valid'[n] = valid[n]
    BY <1>1, <1>6 DEF ArecInv, ArecType
  <2> QED
    BY <1>5, <2>1, StaysStopped
<1>8. ArecType'
  BY <1>1, <1>3, <1>5 DEF ArecInv, ArecType
<1>9. Configured'
  <2>1. ASSUME NEW e \in DOMAIN conf, NEW p \in DOMAIN conf[e]
        PROVE  conf[e][p] \in Node /\ epoch'[conf[e][p]] # -1
    BY <1>1, <1>3 DEF ArecInv, Configured, GoodConf
  <2>2. ASSUME NEW p \in DOMAIN r.conf PROVE epoch'[r.conf[p]] # -1
    <3>1. CASE r.conf[p] \in r.cmd.new
      BY <1>1, <1>2, <1>3, <3>1
    <3> QED
      BY <1>2, <2>1, <3>1 DEF PreparedMsg
  <2> QED
    BY <1>2, <1>5, <2>1, <2>2 DEF Configured, PreparedMsg, ArecInv
<1>10. InOwnEpoch'
  BY <1>1, <1>5, <1>6 DEF ArecInv, InOwnEpoch, Arec!MembersOf, Arec!PidsOf
<1>11. ASSUME NEW m \in prepared' PROVE PreparedMsg(m)'
  <2>1. PreparedMsg(m) /\ m.cmd # r.cmd
    BY <1>1, <1>2 DEF ArecInv, PreparedMsg
  <2>2. m.cmd.new \cap r.cmd.new = {} /\ m.cmd.new \subseteq Node
    BY <1>2, <2>1, EpochAssumption DEF PreparedMsg
  <2>3. \A n \in m.cmd.new : epoch'[n] = -1
    BY <1>1, <2>1, <2>2 DEF PreparedMsg
  <2> QED
    BY <1>1, <1>5, <2>1, <2>3 DEF PreparedMsg
<1>12. Owned'
  <2>1. ASSUME NEW e \in DOMAIN conf, e # 0
        PROVE  \E y \in Commands : /\ y.by \in arecInProgress'
                                   /\ \A m \in prepared' : m.by # y.by
                                   /\ EpochBy(y.by, e)
    <3>1. PICK y \in Commands : /\ y.by \in arecInProgress
                                /\ \A m \in prepared : m.by # y.by
                                /\ EpochBy(y.by, e)
      BY <2>1 DEF ArecInv, Owned
    <3> QED
      BY <1>1, <3>1
  <2>2. /\ r.by \in arecInProgress'
        /\ \A m \in prepared' : m.by # r.by
        /\ EpochBy(r.by, r.new)
    BY <1>1, <1>2 DEF ArecInv, PreparedMsg
  <2> QED
    BY <1>2, <1>5, <2>1, <2>2 DEF Owned
<1>13. ASSUME NEW m \in rms' PROVE SentMsg(m)'
  <2>1. CASE m \in rms
    BY <1>7, <2>1 DEF ArecInv
  <2>2. ASSUME NEW k \in Arec!MembersOf(epoch[r.by]),
               m = [to |-> k, epoch |-> r.epoch, new |-> r.new, old |-> r.old]
        PROVE  SentMsg(m)'
    <3>1. k \in Node
      BY <1>2 DEF PreparedMsg, ArecInv, InOwnEpoch, Configured, GoodConf,
                  Arec!MembersOf, Arec!PidsOf
    <3>2. r.epoch \in DOMAIN conf /\ Agree(r.old, conf[r.epoch], r.conf)
      BY <1>2 DEF PreparedMsg
    <3> QED
      BY <1>5, <2>2, <3>1, <3>2 DEF SentMsg
  <2> QED
    BY <1>1, <2>1, <2>2
<1> QED
  BY <1>1, <1>5, <1>7, <1>8, <1>9, <1>10, <1>11, <1>12, <1>13 DEF ArecInv

LEMMA ArecFailsStep ==
    ASSUME ArecInv, NEW r, Arec!RemoteSetupFails(r)
    PROVE  ArecInv'
<1>1. /\ r \in prepared /\ prepared' = prepared \ {r}
      /\ arecInProgress' = arecInProgress \ {r.by}
      /\ UNCHANGED <<epoch, stateful, valid, from, cPromises, conf, rms, cps>>
  BY DEF Arec!RemoteSetupFails, Arec!handlerVars
<1>2. ASSUME NEW m \in prepared' PROVE PreparedMsg(m)'
  <2>1. PreparedMsg(m) /\ m.by # r.by
    BY <1>1 DEF ArecInv
  <2> QED
    BY <1>1, <2>1 DEF PreparedMsg
<1>3. Owned'
  <2> SUFFICES ASSUME NEW e \in DOMAIN conf, e # 0
               PROVE  \E y \in Commands : /\ y.by \in arecInProgress'
                                          /\ \A m \in prepared' : m.by # y.by
                                          /\ EpochBy(y.by, e)
    BY <1>1 DEF Owned
  <2>1. PICK y \in Commands : /\ y.by \in arecInProgress
                              /\ \A m \in prepared : m.by # y.by
                              /\ EpochBy(y.by, e)
    BY DEF ArecInv, Owned
  <2> QED
    BY <1>1, <2>1
<1>4. /\ \A m : SentMsg(m) => SentMsg(m)'
      /\ \A m : Promise(m) => Promise(m)'
      /\ \A m : SentPromise(m) => SentPromise(m)'
      /\ \A e \in DOMAIN conf :
           Cardinality(StoppedPids(e)) >= Arec!Quorum(e)
               => Cardinality(StoppedPids(e)') >= Arec!Quorum(e)'
  BY <1>1, StaysStopped DEF ArecInv, ArecType
<1>5. ArecType' /\ Configured' /\ InOwnEpoch'
  BY <1>1 DEF ArecInv, ArecType, Configured, InOwnEpoch, Arec!MembersOf, Arec!PidsOf
<1> QED
  BY <1>1, <1>2, <1>3, <1>4, <1>5 DEF ArecInv

(* A step of the handlers of messages: what it has to do for the invariant *)
(* to be preserved.                                                        *)
LEMMA ArecHandlerStep ==
    ASSUME ArecInv, ArecType', InOwnEpoch',
           UNCHANGED <<arecInProgress, conf, prepared>>,
           rms' \subseteq rms,
           \A n \in Node : epoch'[n] = -1 <=> epoch[n] = -1,
           \A n \in Node : stateful[n] =>
               /\ stateful'[n]
               /\ \/ epoch'[n] > epoch[n]
                  \/ epoch'[n] = epoch[n] /\ (~valid[n] => ~valid'[n]),
           \A m \in cps' : m \in cps \/ SentPromise(m)',
           \A n \in Node : \A m \in cPromises'[n] : m \in cPromises[n] \/ m \in cps,
           \A n \in Node : from'[n] = from[n] \/
               /\ from'[n] \in DOMAIN conf
               /\ Cardinality(StoppedPids(from'[n])) >= Arec!Quorum(from'[n])
    PROVE  ArecInv'
<1>1. /\ \A m : SentMsg(m) => SentMsg(m)'
      /\ \A m : Promise(m) => Promise(m)'
      /\ \A m : SentPromise(m) => SentPromise(m)'
      /\ \A e \in DOMAIN conf :
           Cardinality(StoppedPids(e)) >= Arec!Quorum(e)
               => Cardinality(StoppedPids(e)') >= Arec!Quorum(e)'
  BY StaysStopped DEF ArecType
<1>2. Configured'
  BY DEF ArecInv, Configured, GoodConf
<1>3. Owned'
  BY DEF ArecInv, Owned
<1>4. \A m \in prepared' : PreparedMsg(m)'
  <2> SUFFICES ASSUME NEW m \in prepared PROVE PreparedMsg(m)'
    OBVIOUS
  <2>1. PreparedMsg(m) /\ m.by \in Node /\ m.cmd.new \subseteq Node
    BY EpochAssumption DEF ArecInv, PreparedMsg
  <2> QED
    BY <2>1 DEF PreparedMsg
<1>5. \A m \in cps' : SentPromise(m)'
  BY <1>1 DEF ArecInv
<1>6. \A n \in Node : \A m \in cPromises'[n] : Promise(m)'
  BY <1>1 DEF ArecInv, SentPromise
<1>7. ASSUME NEW n \in Node, from'[n] # -1
      PROVE  /\ from'[n] \in DOMAIN conf
             /\ Cardinality(StoppedPids(from[n])') >= Arec!Quorum(from[n])'
  <2>1. PICK e : e = from'[n]
    OBVIOUS
  <2>2. e \in DOMAIN conf /\ Cardinality(StoppedPids(e)) >= Arec!Quorum(e)
    BY <1>7, <2>1 DEF ArecInv
  <2>3. Cardinality(StoppedPids(e)') >= Arec!Quorum(e)'
    BY <1>1, <2>2
  <2>4. StoppedPids(from[n])' = StoppedPids(e)' /\ Arec!Quorum(from[n])' = Arec!Quorum(e)'
    BY <2>1 DEF StoppedPids, Arec!Quorum, Arec!PidsOf, Stopped
  <2> QED
    BY <2>1, <2>2, <2>3, <2>4
<1> QED
  BY <1>1, <1>2, <1>3, <1>4, <1>5, <1>6, <1>7 DEF ArecInv

(* handleReconfMsg: a CPromise is sent by a replica that has stopped.      *)
LEMMA ArecReconfMsgStep ==
    ASSUME ArecInv, NEW n, NEW r, Arec!HandleReconfMsg(n, r)
    PROVE  ArecInv'
<1>1. /\ r \in rms /\ r.to = n /\ rms' = rms \ {r}
      /\ UNCHANGED <<arecInProgress, conf, prepared>>
      /\ Arec!IgnoreReconfMsg(n, r) \/ Arec!Postpone(n, r) \/ Arec!StopPaxos(n, r)
  BY DEF Arec!HandleReconfMsg
<1>2. n \in Node /\ SentMsg(r)
  BY <1>1 DEF ArecInv, SentMsg
<1>3. CASE Arec!IgnoreReconfMsg(n, r) \/ Arec!Postpone(n, r)
  <2>1. UNCHANGED <<epoch, stateful, valid, cPromises, from, cps>>
    BY <1>3 DEF Arec!IgnoreReconfMsg, Arec!Postpone, Arec!handlerVars
  <2>2. ArecType'
    BY <1>1, <2>1 DEF ArecInv, ArecType
  <2>3. InOwnEpoch'
    BY <1>1, <2>1 DEF ArecInv, InOwnEpoch, Arec!MembersOf, Arec!PidsOf
  <2> QED
    BY <1>1, <2>1, <2>2, <2>3, ArecHandlerStep
<1>4. CASE Arec!StopPaxos(n, r)
  <2>1. /\ stateful[n] /\ valid' = [valid EXCEPT ![n] = FALSE]
        /\ UNCHANGED <<epoch, stateful, cPromises, from>>
        /\ IF Pid[n] \in r.old /\ epoch[n] = r.epoch THEN Arec!SendCP(n, r)
           ELSE UNCHANGED cps
    BY <1>4 DEF Arec!StopPaxos
  <2>2. ArecType' /\ InOwnEpoch'
    <3>1. ArecType'
      BY <1>1, <2>1 DEF ArecInv, ArecType
    <3>2. InOwnEpoch'
      BY <1>1, <2>1 DEF ArecInv, InOwnEpoch, Arec!MembersOf, Arec!PidsOf
    <3> QED
      BY <3>1, <3>2
  <2>3. \A m \in cps' : m \in cps \/ SentPromise(m)'
    <3> SUFFICES ASSUME NEW m \in cps', m \notin cps PROVE SentPromise(m)'
      OBVIOUS
    <3>1. epoch[n] = r.epoch /\ Arec!SendCP(n, r)
      BY <2>1
    <3>2. PICK k \in {conf[epoch[n]][p] : p \in r.old}
                     \cup {conf[r.new][p] : p \in DOMAIN conf[r.new] \ r.old} :
              m = [to |-> k, node |-> n, epoch |-> epoch[n], new |-> r.new,
                   confs |-> confs[n] \cup {r.new}]
      BY <3>1 DEF Arec!SendCP, Arec!PidsOf
    <3>3. k \in {conf[r.new][p] : p \in DOMAIN conf[r.new]}
      BY <1>2, <3>1, <3>2 DEF SentMsg, Agree
    <3>4. m.to = k /\ m.node = n /\ m.epoch = epoch[n] /\ m.new = r.new
      BY <3>2
    <3>5. m.new \in DOMAIN conf' /\ m.to \in Arec!MembersOf(m.new)'
      BY <1>1, <1>2, <3>3, <3>4 DEF SentMsg, Arec!MembersOf, Arec!PidsOf
    <3>6. Stopped(m.node, m.epoch)'
      BY <1>2, <2>1, <3>4 DEF Stopped, ArecInv, ArecType
    <3>7. m.epoch \in DOMAIN conf' /\ m.node \in Arec!MembersOf(m.epoch)'
      BY <1>1, <1>2, <2>1, <3>4 DEF ArecInv, InOwnEpoch, Arec!MembersOf, Arec!PidsOf
    <3> QED
      BY <3>5, <3>6, <3>7 DEF SentPromise, Promise
  <2>4. \A k \in Node : ~valid[k] => ~valid'[k]
    BY <2>1 DEF ArecInv, ArecType
  <2> QED
    BY <1>1, <2>1, <2>2, <2>3, <2>4, ArecHandlerStep
<1> QED
  BY <1>1, <1>3, <1>4

(* check: the replicas of a quorum of CPromises have stopped.              *)
LEMMA CheckedQuorum ==
    ASSUME ArecInv, NEW e \in DOMAIN conf, NEW msgs,
           \A m \in msgs : Promise(m), Arec!Check(msgs, e)
    PROVE  Cardinality(StoppedPids(e)) >= Arec!Quorum(e)
<1> DEFINE S == {Pid[m.node] : m \in {c \in msgs : c.epoch = e}}
<1>1. GoodConf(conf[e])
  BY DEF ArecInv, Configured
<1>2. StoppedPids(e) \in SUBSET (0..9)
  BY <1>1 DEF StoppedPids, GoodConf
<1>3. S \subseteq StoppedPids(e)
  <2> SUFFICES ASSUME NEW m \in msgs, m.epoch = e PROVE Pid[m.node] \in StoppedPids(e)
    OBVIOUS
  <2>1. PICK p \in DOMAIN conf[e] : m.node = conf[e][p]
    BY DEF Promise, Arec!MembersOf, Arec!PidsOf
  <2>2. Pid[m.node] = p /\ Stopped(conf[e][p], e)
    BY <1>1, <2>1 DEF GoodConf, Promise
  <2> QED
    BY <2>1, <2>2 DEF StoppedPids
<1>4. Cardinality(S) <= Cardinality(StoppedPids(e)) /\ Cardinality(S) \in Nat
  BY <1>2, <1>3, MorePids, SmallSets
<1>5. Cardinality(S) >= Arec!Quorum(e)
  BY SameCardinality DEF Arec!Check
<1>6. Cardinality(StoppedPids(e)) \in Nat
  BY <1>2, SmallSets
<1>7. Arec!Quorum(e) \in Nat
  <2>1. Cardinality(DOMAIN conf[e]) \in Nat
    BY <1>1, SmallSets DEF GoodConf
  <2> QED
    BY <2>1, SameCardinality DEF Arec!Quorum, Arec!PidsOf
<1> HIDE DEF S
<1> QED
  BY <1>4, <1>5, <1>6, <1>7

(* handleCPromise: an activation raises the epoch, to one the replica is a *)
(* member of.                                                              *)
LEMMA ArecCPromiseStep ==
    ASSUME ArecInv, NEW n, NEW c, Arec!HandleCPromise(n, c)
    PROVE  ArecInv'
<1>1. /\ c \in cps /\ c.to = n /\ cps' = cps \ {c}
      /\ UNCHANGED <<arecInProgress, conf, prepared, rms>>
  BY DEF Arec!HandleCPromise
<1>2. SentPromise(c) /\ Promise(c)
  BY <1>1 DEF ArecInv, SentPromise
<1>3. /\ n \in Node /\ c.new \in DOMAIN conf /\ c.epoch \in DOMAIN conf
      /\ n \in Arec!MembersOf(c.new) /\ epoch[n] # -1 /\ c.new \in Nat
  BY <1>1, <1>2 DEF SentPromise, Promise, Arec!MembersOf, Arec!PidsOf, ArecInv, ArecType,
                    Configured, GoodConf
<1>4. CASE UNCHANGED Arec!handlerVars
  <2>1. UNCHANGED <<epoch, stateful, valid, cPromises, from>>
    BY <1>4 DEF Arec!handlerVars
  <2>2. ArecType' /\ InOwnEpoch'
    <3>1. ArecType'
      BY <1>1, <2>1 DEF ArecInv, ArecType
    <3>2. InOwnEpoch'
      BY <1>1, <2>1 DEF ArecInv, InOwnEpoch, Arec!MembersOf, Arec!PidsOf
    <3> QED
      BY <3>1, <3>2
  <2> QED
    BY <1>1, <2>1, <2>2, ArecHandlerStep
<1>5. ASSUME ~UNCHANGED Arec!handlerVars PROVE ArecInv'
  <2>1. /\ ~(c.new < epoch[n] \/ (c.new = epoch[n] /\ stateful[n]))
        /\ \E cc \in Arec!CarriedConfs(c) :
             LET higher == {e \in cc : e >= c.new}
                 early == \E e \in cc : c.epoch < e /\ e < c.new
                 isNew == ~\E d \in cPromises[n] : d.epoch = c.epoch
                 msgs == cPromises[n] \cup {c} IN
             /\ cPromises' = IF early THEN cPromises
                             ELSE [cPromises EXCEPT ![n] = msgs]
             /\ IF ~early /\ ~isNew /\ Arec!Check(msgs, c.epoch)
                THEN Arec!HandleActivation(n, c.new, c.epoch, confs[n] \cup higher)
                ELSE UNCHANGED <<epoch, stateful, valid, from>>
    BY <1>5 DEF Arec!HandleCPromise
  <2>2. /\ DOMAIN cPromises' = Node
        /\ \A k \in Node : \A m \in cPromises'[k] : m \in cPromises[k] \/ m \in cps
    BY <1>1, <1>3, <2>1 DEF ArecInv, ArecType
  <2>3. CASE UNCHANGED <<epoch, stateful, valid, from>>
    <3>1. ArecType' /\ InOwnEpoch'
      BY <1>1, <2>2, <2>3
         DEF ArecInv, ArecType, InOwnEpoch, Arec!MembersOf, Arec!PidsOf
    <3> QED
      BY <1>1, <2>2, <2>3, <3>1, ArecHandlerStep
  <2>4. ASSUME NEW heard, Arec!Check(cPromises[n] \cup {c}, c.epoch),
               Arec!HandleActivation(n, c.new, c.epoch, heard)
        PROVE  ArecInv'
    <3>1. /\ epoch' = [epoch EXCEPT ![n] = c.new]
          /\ from' = [from EXCEPT ![n] = c.epoch]
          /\ stateful' = [stateful EXCEPT ![n] = TRUE]
          /\ \E v \in BOOLEAN : valid' = [valid EXCEPT ![n] = v]
      BY <2>4 DEF Arec!HandleActivation
    <3>2. c.epoch \in Nat /\ epoch[n] \in Int
      BY <1>3 DEF ArecInv, ArecType
    <3>3. ArecType'
      BY <1>1, <1>3, <2>2, <3>1, <3>2 DEF ArecInv, ArecType
    <3>4. InOwnEpoch'
      BY <1>1, <1>3, <3>1 DEF ArecInv, ArecType, InOwnEpoch, Arec!MembersOf, Arec!PidsOf
    <3>5. \A k \in Node : epoch'[k] = -1 <=> epoch[k] = -1
      BY <1>3, <3>1 DEF ArecInv, ArecType
    <3>6. \A k \in Node : stateful[k] =>
            /\ stateful'[k]
            /\ \/ epoch'[k] > epoch[k]
               \/ epoch'[k] = epoch[k] /\ (~valid[k] => ~valid'[k])
      <4> SUFFICES ASSUME NEW k \in Node, stateful[k]
                   PROVE  /\ stateful'[k]
                          /\ \/ epoch'[k] > epoch[k]
                             \/ epoch'[k] = epoch[k] /\ valid'[k] = valid[k]
        OBVIOUS
      <4>1. CASE k = n
        BY <1>3, <2>1, <3>1, <3>2, <4>1 DEF ArecInv, ArecType
      <4>2. CASE k # n
        BY <3>1, <4>2 DEF ArecInv, ArecType
      <4> QED
        BY <4>1, <4>2
    <3>7. \A m \in cPromises[n] \cup {c} : Promise(m)
      BY <1>2, <1>3 DEF ArecInv
    <3>8. Cardinality(StoppedPids(c.epoch)) >= Arec!Quorum(c.epoch)
      BY <1>3, <2>4, <3>7, CheckedQuorum
    <3>9. \A k \in Node : from'[k] = from[k] \/
            /\ from'[k] \in DOMAIN conf
            /\ Cardinality(StoppedPids(from'[k])) >= Arec!Quorum(from'[k])
      BY <1>3, <3>1, <3>8 DEF ArecInv, ArecType
    <3> QED
      BY <1>1, <2>2, <3>3, <3>4, <3>5, <3>6, <3>9, ArecHandlerStep
  <2> QED
    BY <2>1, <2>3, <2>4
<1> QED
  BY <1>4, <1>5

LEMMA ArecStep ==
    ASSUME ArecInv, Arec!Next
    PROVE  ArecInv'
BY ArecCmdStep, ArecSetupStep, ArecFailsStep, ArecReconfMsgStep, ArecCPromiseStep
   DEF Arec!Next

LEMMA ArecUnchanged ==
    ASSUME ArecInv,
           UNCHANGED <<epoch, stateful, valid, from, cPromises, conf,
                       arecInProgress, prepared, rms, cps>>
    PROVE  ArecInv'
<1>1. ArecType' /\ InOwnEpoch'
  BY DEF ArecInv, ArecType, InOwnEpoch, Arec!MembersOf, Arec!PidsOf
<1> QED
  BY <1>1, ArecHandlerStep

(* A set of nodes with different PaxosIDs is as large as that of these.    *)
LEMMA CountByPid ==
    ASSUME NEW T \in SUBSET Node, \A m, n \in T : Pid[m] = Pid[n] => m = n
    PROVE  /\ IsFiniteSet(T)
           /\ Cardinality({Pid[n] : n \in T}) = Cardinality(T)
<1> DEFINE R == {Pid[n] : n \in T}
           g == [n \in T |-> Pid[n]]
           h == [p \in R |-> CHOOSE n \in T : Pid[n] = p]
<1>1. R \in SUBSET (0..9)
  BY EpochAssumption
<1>2. IsFiniteSet(R)
  BY <1>1, SmallSets
<1>3. h \in Surjection(R, T)
  <2>1. \A p \in R : h[p] \in T
    OBVIOUS
  <2>2. \A n \in T : Pid[n] \in R /\ h[Pid[n]] = n
    OBVIOUS
  <2>3. h \in [R -> T]
    BY <2>1
  <2> HIDE DEF R, h
  <2> QED
    BY <2>2, <2>3 DEF Surjection
<1>4. g \in Surjection(T, R)
  <2>1. \A p \in R : \E n \in T : g[n] = p
    BY DEF R
  <2>2. g \in [T -> R]
    OBVIOUS
  <2> HIDE DEF R, g
  <2> QED
    BY <2>1, <2>2 DEF Surjection
<1> HIDE DEF R, g, h
<1>5. IsFiniteSet(T) /\ Cardinality(T) <= Cardinality(R)
  BY <1>2, <1>3, FS_Surjection
<1>6. Cardinality(R) <= Cardinality(T)
  BY <1>4, <1>5, FS_Surjection
<1>7. Cardinality(R) \in Nat /\ Cardinality(T) \in Nat
  BY <1>2, <1>5, FS_CardinalityType
<1>8. Cardinality(R) = Cardinality(T)
  BY <1>5, <1>6, <1>7
<1> QED
  BY <1>5, <1>8 DEF R

(* Of a quorum of stopped replicas, the others are none.                   *)
LEMMA TooFewRun ==
    ASSUME ArecInv, NEW e \in DOMAIN conf,
           Cardinality(StoppedPids(e)) >= Arec!Quorum(e)
    PROVE  Arec!Cardinality(Arec!Running(e)) < Arec!Quorum(e)
<1> DEFINE P == DOMAIN conf[e]
           S == StoppedPids(e)
           R == {Pid[n] : n \in Arec!Running(e)}
<1>1. GoodConf(conf[e]) /\ P \in SUBSET (0..9) /\ S \in SUBSET P
  BY DEF ArecInv, Configured, GoodConf, StoppedPids
<1>2. R \subseteq P \ S
  <2> SUFFICES ASSUME NEW n \in Arec!Running(e) PROVE Pid[n] \in P \ S
    OBVIOUS
  <2>1. PICK p \in P : n = conf[e][p]
    BY DEF Arec!Running, Arec!MembersOf, Arec!PidsOf
  <2>2. Pid[n] = p /\ n \in Node
    BY <1>1, <2>1 DEF GoodConf
  <2>3. ~Stopped(n, e)
    <3>1. epoch[n] = e /\ valid[n] /\ epoch[n] \in Int
      BY <2>2 DEF Arec!Running, ArecInv, ArecType
    <3> QED
      BY <3>1 DEF Stopped
  <2> QED
    BY <2>1, <2>2, <2>3 DEF StoppedPids
<1>3. /\ IsFiniteSet(P) /\ IsFiniteSet(S)
      /\ Cardinality(P) \in Nat /\ Cardinality(S) \in Nat
  BY <1>1, SmallSets
<1>4. Cardinality(P \ S) = Cardinality(P) - Cardinality(S)
  <2>1. Cardinality(P \ S) = Cardinality(P) - Cardinality(P \cap S)
    BY <1>3, FS_Difference
  <2>2. P \cap S = S
    BY <1>1
  <2> HIDE DEF P, S
  <2> QED
    BY <2>1, <2>2
<1>5. P \ S \in SUBSET (0..9) /\ R \in SUBSET (P \ S)
  BY <1>1, <1>2
<1>6. Cardinality(R) <= Cardinality(P \ S) /\ Cardinality(R) \in Nat
  <2>1. R \in SUBSET (0..9)
    BY <1>5
  <2> HIDE DEF P, S, R
  <2> QED
    BY <1>5, <2>1, MorePids, SmallSets
<1>7. /\ IsFiniteSet(Arec!Running(e))
      /\ Cardinality(Arec!Running(e)) = Cardinality(R)
  <2>1. \A n \in Arec!Running(e) : n \in Node /\ conf[e][Pid[n]] = n
    BY <1>1 DEF Arec!Running, Arec!MembersOf, Arec!PidsOf, GoodConf
  <2> QED
    BY <2>1, CountByPid
<1>8. Arec!Quorum(e) = Cardinality(P) \div 2 + 1
  BY SameCardinality DEF Arec!Quorum, Arec!PidsOf
<1>9. Cardinality(S) >= Cardinality(P) \div 2 + 1
  BY <1>8
<1>10. Cardinality(R) < Cardinality(P) \div 2 + 1
  <2> HIDE DEF P, S, R
  <2>1. Cardinality(R) <= Cardinality(P) - Cardinality(S) /\ Cardinality(R) \in Nat
    BY <1>4, <1>6
  <2> QED
    BY <1>3, <1>9, <2>1
<1> QED
  BY <1>7, <1>8, <1>10, SameCardinality

(* Who is activated in an epoch by the CPromises of another is so after    *)
(* the other has stopped for good, for any number of nodes and any set of  *)
(* commands, nodes that are added and failed setups included: a replica    *)
(* that sent a CPromise of an epoch does not run in it again.              *)
THEOREM OldEpochStoppedTheorem == Spec => []OldEpochStopped
<1> DEFINE Inv == Is("epochs") => ArecInv
<1>1. Init => Inv
  BY ArecInit DEF Init
<1>2. Inv /\ [Next]_allVars => Inv'
  <2> SUFFICES ASSUME Inv, [Next]_allVars, Is("epochs")' PROVE ArecInv'
    OBVIOUS
  <2>1. Is("epochs") /\ (Arec!Next \/ UNCHANGED arecVars)
    BY DEF Next, Is, allVars
  <2>2. CASE UNCHANGED arecVars
    BY <2>1, <2>2, ArecUnchanged DEF arecVars
  <2> QED
    BY <2>1, <2>2, ArecStep
<1>3. Inv => OldEpochStopped
  BY TooFewRun DEF OldEpochStopped, Arec!OldEpochStopped, ArecInv
<1> QED
  BY <1>1, <1>2, <1>3, PTL DEF Spec, allVars

-----------------------------------------------------------------------------
(* Which configurations can run at once.                                   *)

FirstPids == {Pid[n] : n \in Original}

(* At most two commands, each of which only replaces nodes.                *)
TwoReplacements ==
    /\ \A x, y, z \in Commands : x = y \/ y = z \/ x = z
    /\ \A x \in Commands : \A n \in x.new : Pid[n] \in FirstPids

(* The CPromises on their way and those stored.                            *)
AllPromises == cps \cup UNION {cPromises[n] : n \in Node}

(* All configurations have nodes for the same PaxosIDs.                    *)
SamePids ==
    /\ 0 \in DOMAIN conf
    /\ \A e \in DOMAIN conf : DOMAIN conf[e] = FirstPids
    /\ \A m \in prepared : DOMAIN m.conf = FirstPids

(* A replica makes one epoch at most.                                      *)
OnePerOwner ==
    \A d, e \in DOMAIN conf \ {0}, n \in Node :
        EpochBy(n, d) /\ EpochBy(n, e) => d = e

(* Replicas hear of epochs that have been made.                            *)
Heard ==
    /\ maxEpochSeen \in [Node -> DOMAIN conf]
    /\ confs \in [Node -> SUBSET DOMAIN conf]

(* A CPromise names the epoch it is for, and no more than its sender knows *)
(* of as long as that is in the epoch of the CPromise.                     *)
Names ==
    \A m \in AllPromises :
        /\ m.epoch < m.new /\ m.new \in m.confs
        /\ m.confs \subseteq DOMAIN conf
        /\ m.epoch = epoch[m.node] => m.confs \subseteq confs[m.node]

(* Of two CPromises of a replica in an epoch, the later one names what the *)
(* earlier one names.                                                      *)
Chain ==
    \A m, k \in AllPromises :
        m.node = k.node /\ m.epoch = k.epoch =>
            m.confs \subseteq k.confs \/ k.confs \subseteq m.confs

(* A replica stores CPromises for epochs it is to be a member of, if they  *)
(* name no epoch that is to be activated before, and has seen what they    *)
(* name.                                                                   *)
StoredPromises ==
    \A n \in Node : \A m \in cPromises[n] :
        /\ m.new \in DOMAIN conf /\ n \in Arec!MembersOf(m.new)
        /\ \A e \in m.confs : m.epoch < e => m.new <= e
        /\ \A e \in m.confs : m.new <= e => e <= maxEpochSeen[n]

(* When a replica is in a later epoch, the first has stopped.              *)
FirstStopped ==
    (\E n \in Node : stateful[n] /\ epoch[n] # 0) =>
        Cardinality(StoppedPids(0)) >= Arec!Quorum(0)

PromisePids(n, e) == {Pid[m.node] : m \in {c \in cPromises[n] : c.epoch = e}}

(* Who has been activated still has the CPromises it was activated by.     *)
CountedPromises ==
    \A n \in Node :
        /\ stateful[n] /\ epoch[n] # 0 => from[n] # -1
        /\ from[n] # -1 =>
            /\ from[n] < epoch[n]
            /\ Cardinality(PromisePids(n, from[n])) >= Arec!Quorum(from[n])

(* Who runs has no CPromise for its epoch that names a higher one.         *)
NoneHigher ==
    \A n \in Node : stateful[n] /\ valid[n] =>
        \A m \in cPromises[n] : m.new <= epoch[n] =>
            \A e \in m.confs : m.new <= e => e <= epoch[n]

EpochsInv ==
    /\ SamePids
    /\ OnePerOwner
    /\ Heard
    /\ Names
    /\ Chain
    /\ StoredPromises
    /\ FirstStopped
    /\ CountedPromises
    /\ NoneHigher

LEMMA EpochsInit ==
    ASSUME Arec!Init
    PROVE  EpochsInv
<1>1. /\ DOMAIN conf = {0} /\ DOMAIN conf[0] = FirstPids
      /\ prepared = {} /\ cps = {}
      /\ \A n \in Node : cPromises[n] = {} /\ from[n] = -1
      /\ \A n \in Node : stateful[n] => epoch[n] = 0
  <2>1. PICK f : f = [p \in {Pid[n] : n \in Original} |->
                         CHOOSE n \in Original : Pid[n] = p]
    OBVIOUS
  <2>2. conf = [e \in {0} |-> f] /\ DOMAIN f = FirstPids
    BY <2>1 DEF Arec!Init, FirstPids
  <2>3. DOMAIN conf = {0} /\ DOMAIN conf[0] = FirstPids
    BY <2>2
  <2> QED
    BY <2>3 DEF Arec!Init
<1>2. AllPromises = {}
  BY <1>1 DEF AllPromises
<1>3. Heard
  <2>1. maxEpochSeen = [n \in Node |-> 0] /\ confs = [n \in Node |-> {}]
    BY DEF Arec!Init
  <2> QED
    BY <1>1, <2>1 DEF Heard
<1>4. SamePids /\ OnePerOwner
  BY <1>1 DEF SamePids, OnePerOwner
<1>5. Names /\ Chain
  BY <1>2 DEF Names, Chain
<1>6. StoredPromises /\ FirstStopped /\ CountedPromises /\ NoneHigher
  BY <1>1 DEF StoredPromises, FirstStopped, CountedPromises, NoneHigher
<1> QED
  BY <1>3, <1>4, <1>5, <1>6 DEF EpochsInv

(* Two commands make two epochs.                                           *)
LEMMA AtMostTwoNew ==
    ASSUME ArecInv, OnePerOwner, TwoReplacements,
           NEW d \in DOMAIN conf, NEW e \in DOMAIN conf, NEW f \in DOMAIN conf,
           d # 0, e # 0, f # 0
    PROVE  d = e \/ e = f \/ d = f
<1>1. PICK x \in Commands : EpochBy(x.by, d)
  BY DEF ArecInv, Owned
<1>2. PICK y \in Commands : EpochBy(y.by, e)
  BY DEF ArecInv, Owned
<1>3. PICK z \in Commands : EpochBy(z.by, f)
  BY DEF ArecInv, Owned
<1>4. x = y \/ y = z \/ x = z
  BY DEF TwoReplacements
<1>5. x.by \in Node /\ y.by \in Node /\ z.by \in Node
  BY EpochAssumption
<1> QED
  BY <1>1, <1>2, <1>3, <1>4, <1>5 DEF OnePerOwner

LEMMA HighestEpoch ==
    ASSUME ArecInv, OnePerOwner, TwoReplacements,
           NEW S \in SUBSET DOMAIN conf, S # {}
    PROVE  \E e \in S : \A d \in S : d <= e
<1>1. DOMAIN conf \subseteq Nat
  BY DEF ArecInv, ArecType
<1> SUFFICES ASSUME \A e \in S : \E d \in S : d > e PROVE FALSE
  BY <1>1
<1>2. PICK s \in S : TRUE
  OBVIOUS
<1>3. PICK d \in S : d > s
  OBVIOUS
<1>4. PICK e \in S : e > d
  OBVIOUS
<1>5. PICK f \in S : f > e
  OBVIOUS
<1>6. d # 0 /\ e # 0 /\ f # 0 /\ d # e /\ e # f /\ d # f
  BY <1>1, <1>3, <1>4, <1>5
<1> QED
  BY <1>6, AtMostTwoNew

(* maxEpochSeen, after epochs es.                                          *)
LEMMA SeenGrows ==
    ASSUME ArecInv, OnePerOwner, TwoReplacements, Heard,
           NEW n \in Node, NEW es \in SUBSET DOMAIN conf,
           maxEpochSeen' = [maxEpochSeen EXCEPT ![n] =
               CHOOSE e \in es \cup {@} : \A d \in es \cup {@} : d <= e]
    PROVE  /\ maxEpochSeen' \in [Node -> DOMAIN conf]
           /\ \A k \in Node : maxEpochSeen[k] <= maxEpochSeen'[k]
           /\ \A d \in es : d <= maxEpochSeen'[n]
<1> DEFINE S == es \cup {maxEpochSeen[n]}
           v == CHOOSE e \in S : \A d \in S : d <= e
<1>1. S \in SUBSET DOMAIN conf /\ S # {}
  BY DEF Heard
<1>2. v \in S /\ \A d \in S : d <= v
  <2>1. \E e \in S : \A d \in S : d <= e
    BY <1>1, HighestEpoch
  <2> QED
    BY <2>1
<1>3. maxEpochSeen' = [maxEpochSeen EXCEPT ![n] = v]
  OBVIOUS
<1> HIDE DEF S, v
<1>4. DOMAIN conf \subseteq Nat
  BY DEF ArecInv, ArecType
<1>5. maxEpochSeen[n] \in S /\ es \subseteq S
  BY DEF S
<1>6. v \in DOMAIN conf /\ maxEpochSeen[n] <= v /\ \A d \in es : d <= v
  BY <1>1, <1>2, <1>5
<1>7. DOMAIN maxEpochSeen = Node /\ \A k \in Node : maxEpochSeen[k] \in DOMAIN conf
  BY DEF Heard
<1>8. /\ maxEpochSeen' \in [Node -> DOMAIN conf]
      /\ maxEpochSeen'[n] = v
      /\ \A k \in Node \ {n} : maxEpochSeen'[k] = maxEpochSeen[k]
  BY <1>3, <1>6, <1>7
<1>9. ASSUME NEW k \in Node PROVE maxEpochSeen[k] <= maxEpochSeen'[k]
  <2>1. CASE k = n
    BY <1>6, <1>8, <2>1
  <2>2. CASE k # n
    <3>1. maxEpochSeen[k] \in Nat /\ maxEpochSeen'[k] = maxEpochSeen[k]
      BY <1>4, <1>7, <1>8, <2>2
    <3> QED
      BY <3>1
  <2> QED
    BY <2>1, <2>2
<1> QED
  BY <1>6, <1>8, <1>9

(* A step that changes no more than what is prepared.                      *)
LEMMA EpochsFrame ==
    ASSUME EpochsInv,
           UNCHANGED <<epoch, stateful, valid, confs, maxEpochSeen, cPromises,
                       conf, cps, from>>,
           \A m \in prepared' : DOMAIN m.conf = FirstPids
    PROVE  EpochsInv'
<1>1. AllPromises' = AllPromises
  BY DEF AllPromises
<1>2. SamePids' /\ OnePerOwner' /\ Heard'
  BY DEF EpochsInv, SamePids, OnePerOwner, Heard
<1>3. Names' /\ Chain'
  BY <1>1 DEF EpochsInv, Names, Chain
<1>4. StoredPromises' /\ NoneHigher'
  BY DEF EpochsInv, StoredPromises, NoneHigher, Arec!MembersOf, Arec!PidsOf
<1>5. FirstStopped' /\ CountedPromises'
  BY DEF EpochsInv, FirstStopped, CountedPromises, StoppedPids, Stopped, PromisePids,
         Arec!Quorum, Arec!PidsOf
<1> QED
  BY <1>2, <1>3, <1>4, <1>5 DEF EpochsInv

(* handleReconfCmd: the new configuration has the PaxosIDs of the old one. *)
LEMMA EpochsCmdStep ==
    ASSUME ArecInv, EpochsInv, TwoReplacements,
           NEW x \in Commands, Arec!HandleReconfCmd(x)
    PROVE  EpochsInv'
<1>1. PICK n : n = x.by
  OBVIOUS
<1>2. PICK r : r = [by |-> n, cmd |-> x, epoch |-> epoch[n], new |-> Arec!NewEpoch(n),
                    conf |-> Arec!NewConf(conf[epoch[n]], x.new),
                    old |-> Arec!OldIds(epoch[n], x.new)]
  OBVIOUS
<1>3. /\ stateful[n] /\ n \in Node
      /\ prepared' = prepared \cup {r}
      /\ UNCHANGED <<epoch, stateful, valid, confs, maxEpochSeen, cPromises, conf, cps, from>>
  BY <1>1, <1>2, EpochAssumption DEF Arec!HandleReconfCmd, Arec!handlerVars
<1>4. epoch[n] \in DOMAIN conf
  BY <1>3 DEF ArecInv, InOwnEpoch
<1>5. DOMAIN Arec!NewConf(conf[epoch[n]], x.new) =
          DOMAIN conf[epoch[n]] \cup {Pid[k] : k \in x.new}
  BY DEF Arec!NewConf
<1>6. DOMAIN r.conf = FirstPids
  BY <1>2, <1>4, <1>5 DEF EpochsInv, SamePids, TwoReplacements
<1> QED
  BY <1>3, <1>6, EpochsFrame DEF EpochsInv, SamePids

(* doRemoteSetupAndSend: nodes without state are set up, which have no     *)
(* CPromises.                                                              *)
LEMMA EpochsSetupStep ==
    ASSUME ArecInv, EpochsInv, NEW r, Arec!DoRemoteSetupAndSend(r)
    PROVE  EpochsInv'
<1>1. /\ r \in prepared
      /\ prepared' = prepared \ {r}
      /\ conf' = [e \in DOMAIN conf \cup {r.new} |-> IF e = r.new THEN r.conf ELSE conf[e]]
      /\ epoch' = [n \in Node |-> IF n \in r.cmd.new THEN r.new ELSE epoch[n]]
      /\ maxEpochSeen' = [n \in Node |-> IF n \in r.cmd.new THEN r.new ELSE maxEpochSeen[n]]
      /\ UNCHANGED <<stateful, valid, confs, cPromises, arecInProgress, cps, from>>
  BY DEF Arec!DoRemoteSetupAndSend
<1>2. PreparedMsg(r) /\ r.by \in Node /\ EpochBy(r.by, r.new)
  BY <1>1, EpochAssumption DEF ArecInv, PreparedMsg
<1>3. ASSUME NEW e \in DOMAIN conf \ {0}, NEW n \in Node, EpochBy(n, e), EpochBy(n, r.new)
      PROVE  FALSE
  <2>1. PICK y \in Commands : (\A m \in prepared : m.by # y.by) /\ EpochBy(y.by, e)
    BY DEF ArecInv, Owned
  <2>2. y.by \in Node
    BY EpochAssumption
  <2>3. Pid[y.by] = Pid[n] /\ Pid[n] = Pid[r.by]
    BY <1>2, <1>3, <2>1, <2>2, EpochsApart
  <2>4. y.by = r.by
    BY <1>2, <2>3, EpochAssumption DEF PreparedMsg
  <2> QED
    BY <1>1, <2>1, <2>4
<1>4. r.new \notin DOMAIN conf
  <2>1. r.new # 0
    BY <1>2, EpochsApart
  <2> QED
    BY <1>2, <1>3, <2>1
<1>5. /\ DOMAIN conf' = DOMAIN conf \cup {r.new}
      /\ conf'[r.new] = r.conf
      /\ \A e \in DOMAIN conf : conf'[e] = conf[e]
  BY <1>1, <1>4
<1>6. SamePids' /\ OnePerOwner'
  <2>1. SamePids'
    BY <1>1, <1>5 DEF EpochsInv, SamePids
  <2>2. OnePerOwner'
    BY <1>3, <1>5 DEF EpochsInv, OnePerOwner
  <2> QED
    BY <2>1, <2>2
<1>7. Heard'
  BY <1>1, <1>5 DEF EpochsInv, Heard
<1>8. ASSUME NEW n \in Node, epoch[n] # -1
      PROVE  epoch'[n] = epoch[n] /\ maxEpochSeen'[n] = maxEpochSeen[n]
  BY <1>1, <1>2, <1>8 DEF PreparedMsg
<1>9. \A n \in Node : stateful[n] => epoch[n] # -1
  BY DEF ArecInv, ArecType, InOwnEpoch
<1>10. \A e \in DOMAIN conf : /\ Arec!MembersOf(e)' = Arec!MembersOf(e)
                              /\ Arec!Quorum(e)' = Arec!Quorum(e)
  BY <1>5 DEF Arec!MembersOf, Arec!Quorum, Arec!PidsOf
<1>11. AllPromises' = AllPromises
  BY <1>1 DEF AllPromises
<1>12. Names' /\ Chain'
  <2>1. ASSUME NEW m \in AllPromises PROVE epoch'[m.node] = epoch[m.node]
    <3>1. Promise(m)
      BY DEF AllPromises, ArecInv, SentPromise
    <3>2. m.node \in Node /\ stateful[m.node]
      BY <3>1 DEF Promise, Stopped, ArecInv, Configured, GoodConf, Arec!MembersOf,
                  Arec!PidsOf
    <3> QED
      BY <1>8, <1>9, <3>2
  <2>2. Names'
    BY <1>1, <1>5, <1>11, <2>1 DEF EpochsInv, Names
  <2>3. Chain'
    BY <1>11 DEF EpochsInv, Chain
  <2> QED
    BY <2>2, <2>3
<1>13. StoredPromises'
  <2> SUFFICES ASSUME NEW n \in Node, NEW m \in cPromises[n]
               PROVE  /\ m.new \in DOMAIN conf' /\ n \in Arec!MembersOf(m.new)'
                      /\ \A e \in m.confs : m.epoch < e => m.new <= e
                      /\ \A e \in m.confs : m.new <= e => e <= maxEpochSeen'[n]
    BY <1>1 DEF StoredPromises
  <2>1. m.new \in DOMAIN conf /\ n \in Arec!MembersOf(m.new)
    BY DEF EpochsInv, StoredPromises
  <2>2. epoch[n] # -1
    BY <2>1 DEF ArecInv, Configured, Arec!MembersOf, Arec!PidsOf
  <2> QED
    BY <1>5, <1>8, <1>10, <2>1, <2>2 DEF EpochsInv, StoredPromises
<1>14. FirstStopped'
  <2>1. \A n \in Node : stateful[n] =>
            stateful'[n] /\ epoch'[n] \in Int /\ epoch'[n] = epoch[n] /\ valid'[n] = valid[n]
    BY <1>1, <1>8, <1>9 DEF ArecInv, ArecType
  <2>2. 0 \in DOMAIN conf
    BY DEF EpochsInv, SamePids
  <2>3. Cardinality(StoppedPids(0)) >= Arec!Quorum(0)
            => Cardinality(StoppedPids(0)') >= Arec!Quorum(0)'
    BY <1>5, <2>1, <2>2, StaysStopped
  <2>4. (\E n \in Node : stateful'[n] /\ epoch'[n] # 0)
            => \E n \in Node : stateful[n] /\ epoch[n] # 0
    BY <1>1, <2>1
  <2> QED
    BY <2>3, <2>4 DEF EpochsInv, FirstStopped
<1>15. CountedPromises'
  <2> SUFFICES ASSUME NEW n \in Node
               PROVE  /\ stateful[n] /\ epoch'[n] # 0 => from[n] # -1
                      /\ from[n] # -1 =>
                           /\ from[n] < epoch'[n]
                           /\ Cardinality(PromisePids(n, from[n])) >= Arec!Quorum(from[n])'
    BY <1>1 DEF CountedPromises, PromisePids
  <2>1. stateful[n] /\ epoch'[n] # 0 => from[n] # -1
    BY <1>8, <1>9 DEF EpochsInv, CountedPromises
  <2>2. ASSUME from[n] # -1
        PROVE  /\ from[n] < epoch'[n]
               /\ Cardinality(PromisePids(n, from[n])) >= Arec!Quorum(from[n])'
    <3>1. from[n] \in Nat /\ from[n] < epoch[n]
      <4>1. from[n] \in DOMAIN conf
        BY <2>2 DEF ArecInv
      <4>2. from[n] < epoch[n]
        BY <2>2 DEF EpochsInv, CountedPromises
      <4> QED
        BY <4>1, <4>2 DEF ArecInv, ArecType
    <3>2. epoch'[n] = epoch[n]
      BY <1>8, <3>1
    <3>3. from[n] \in DOMAIN conf
      BY <2>2 DEF ArecInv
    <3>4. Arec!Quorum(from[n])' = Arec!Quorum(from[n])
      BY <1>1, <1>5, <3>3 DEF Arec!Quorum, Arec!PidsOf
    <3> QED
      BY <2>2, <3>1, <3>2, <3>4 DEF EpochsInv, CountedPromises
  <2> QED
    BY <2>1, <2>2
<1>16. NoneHigher'
  BY <1>1, <1>8, <1>9 DEF EpochsInv, NoneHigher
<1> QED
  BY <1>6, <1>7, <1>12, <1>13, <1>14, <1>15, <1>16 DEF EpochsInv

(* A step of the handlers of messages by replica n, which may store c.     *)
LEMMA EpochsHandlerStep ==
    ASSUME ArecInv, EpochsInv,
           UNCHANGED <<conf, prepared>>,
           NEW n \in Node,
           Heard',
           \A k \in Node : maxEpochSeen[k] <= maxEpochSeen'[k],
           \A k \in Node \ {n} : /\ epoch'[k] = epoch[k] /\ confs'[k] = confs[k]
                                 /\ stateful'[k] = stateful[k]
                                 /\ valid'[k] = valid[k] /\ from'[k] = from[k]
                                 /\ cPromises'[k] = cPromises[k],
           stateful[n] => stateful'[n],
           epoch'[n] \in Int,
           \/ epoch'[n] > epoch[n]
           \/ epoch'[n] = epoch[n]
              /\ stateful'[n] = stateful[n] /\ (valid'[n] => valid[n])
           \/ epoch'[n] = epoch[n] /\ ~stateful[n]
    PROVE  /\ SamePids' /\ OnePerOwner'
           /\ \A e \in DOMAIN conf : /\ Arec!MembersOf(e)' = Arec!MembersOf(e)
                                     /\ Arec!Quorum(e)' = Arec!Quorum(e)
           /\ \A e \in DOMAIN conf :
                Cardinality(StoppedPids(e)) >= Arec!Quorum(e)
                    => Cardinality(StoppedPids(e)') >= Arec!Quorum(e)'
           /\ \A k \in Node : \A m \in cPromises[k] :
                  \A e \in m.confs : m.new <= e => e <= maxEpochSeen'[k]
<1>1. SamePids' /\ OnePerOwner'
  BY DEF EpochsInv, SamePids, OnePerOwner
<1>2. \A e \in DOMAIN conf : /\ Arec!MembersOf(e)' = Arec!MembersOf(e)
                             /\ Arec!Quorum(e)' = Arec!Quorum(e)
  BY DEF Arec!MembersOf, Arec!Quorum, Arec!PidsOf
<1>3. \A k \in Node : stateful[k] =>
          /\ stateful'[k]
          /\ epoch'[k] \in Int
          /\ \/ epoch'[k] > epoch[k]
             \/ epoch'[k] = epoch[k] /\ (~valid[k] => ~valid'[k])
  <2> SUFFICES ASSUME NEW k \in Node, stateful[k]
               PROVE  /\ stateful'[k]
                      /\ epoch'[k] \in Int
                      /\ \/ epoch'[k] > epoch[k]
                         \/ epoch'[k] = epoch[k] /\ (~valid[k] => ~valid'[k])
    OBVIOUS
  <2>1. CASE k = n
    BY <2>1
  <2>2. CASE k # n
    BY <2>2 DEF ArecInv, ArecType
  <2> QED
    BY <2>1, <2>2
<1>4. \A e \in DOMAIN conf :
          Cardinality(StoppedPids(e)) >= Arec!Quorum(e)
              => Cardinality(StoppedPids(e)') >= Arec!Quorum(e)'
  BY <1>3, StaysStopped
<1>5. ASSUME NEW k \in Node, NEW m \in cPromises[k], NEW e \in m.confs, m.new <= e
      PROVE  e <= maxEpochSeen'[k]
  <2>1. m \in AllPromises
    BY DEF AllPromises
  <2>2. e \in DOMAIN conf
    BY <2>1 DEF EpochsInv, Names
  <2>3. e \in Nat /\ maxEpochSeen[k] \in Nat /\ maxEpochSeen'[k] \in Nat
    BY <2>2 DEF ArecInv, ArecType, EpochsInv, Heard
  <2>4. e <= maxEpochSeen[k]
    BY <1>5 DEF EpochsInv, StoredPromises
  <2> QED
    BY <2>3, <2>4
<1> QED
  BY <1>1, <1>2, <1>4, <1>5

(* updateConfs.                                                            *)
LEMMA ConfsUpdated ==
    ASSUME ArecInv, EpochsInv, TwoReplacements,
           NEW n \in Node, NEW es \in SUBSET DOMAIN conf, conf' = conf,
           Arec!UpdateConfs(n, es)
    PROVE  /\ Heard'
           /\ \A k \in Node : maxEpochSeen[k] <= maxEpochSeen'[k]
           /\ \A d \in es : d <= maxEpochSeen'[n]
           /\ confs'[n] = confs[n] \cup es
           /\ \A k \in Node \ {n} : confs'[k] = confs[k]
<1>1. /\ maxEpochSeen' \in [Node -> DOMAIN conf]
      /\ \A k \in Node : maxEpochSeen[k] <= maxEpochSeen'[k]
      /\ \A d \in es : d <= maxEpochSeen'[n]
  BY SeenGrows DEF Arec!UpdateConfs, EpochsInv
<1>2. confs' = [confs EXCEPT ![n] = @ \cup es]
  BY DEF Arec!UpdateConfs
<1>3. /\ confs' \in [Node -> SUBSET DOMAIN conf]
      /\ confs'[n] = confs[n] \cup es
      /\ \A k \in Node \ {n} : confs'[k] = confs[k]
  BY <1>2 DEF EpochsInv, Heard
<1> QED
  BY <1>1, <1>3 DEF Heard

(* handleReconfMsg: a CPromise names all its sender has heard of.          *)
LEMMA EpochsReconfMsgStep ==
    ASSUME ArecInv, EpochsInv, TwoReplacements,
           NEW n, NEW r, Arec!HandleReconfMsg(n, r)
    PROVE  EpochsInv'
<1>1. /\ r \in rms /\ r.to = n
      /\ UNCHANGED <<conf, prepared>>
      /\ Arec!IgnoreReconfMsg(n, r) \/ Arec!Postpone(n, r) \/ Arec!StopPaxos(n, r)
  BY DEF Arec!HandleReconfMsg
<1>2. n \in Node /\ r.new \in DOMAIN conf
  BY <1>1 DEF ArecInv, SentMsg
<1>3. CASE Arec!IgnoreReconfMsg(n, r)
  <2>1. UNCHANGED <<epoch, stateful, valid, confs, maxEpochSeen, cPromises, cps, from>>
    BY <1>3 DEF Arec!IgnoreReconfMsg, Arec!handlerVars
  <2> QED
    BY <1>1, <2>1, EpochsFrame DEF EpochsInv, SamePids
<1>4. CASE Arec!Postpone(n, r) \/ Arec!StopPaxos(n, r)
  <2>1. /\ stateful[n] /\ r.new > epoch[n]
        /\ UNCHANGED <<epoch, stateful, cPromises, from>>
        /\ Arec!UpdateConfs(n, {r.new})
    BY <1>4 DEF Arec!Postpone, Arec!StopPaxos
  <2>2. \A k \in Node : (valid'[k] => valid[k]) /\ (k # n => valid'[k] = valid[k])
    BY <1>4 DEF Arec!Postpone, Arec!StopPaxos, ArecInv, ArecType
  <2>3. ASSUME NEW m \in cps', m \notin cps
        PROVE  /\ m.node = n /\ m.epoch = epoch[n] /\ m.new = r.new
               /\ m.confs = confs[n] \cup {r.new}
    <3>1. Arec!SendCP(n, r)
      BY <1>4, <2>3 DEF Arec!Postpone, Arec!StopPaxos
    <3>2. PICK k : m = [to |-> k, node |-> n, epoch |-> epoch[n], new |-> r.new,
                        confs |-> confs[n] \cup {r.new}]
      BY <2>3, <3>1 DEF Arec!SendCP
    <3> QED
      BY <3>2
  <2>4. /\ Heard'
        /\ \A k \in Node : maxEpochSeen[k] <= maxEpochSeen'[k]
        /\ confs'[n] = confs[n] \cup {r.new}
        /\ \A k \in Node \ {n} : confs'[k] = confs[k]
    BY <1>1, <1>2, <2>1, ConfsUpdated
  <2>5. epoch[n] \in Int
    BY <1>2 DEF ArecInv, ArecType
  <2>6. /\ SamePids' /\ OnePerOwner'
        /\ \A e \in DOMAIN conf : /\ Arec!MembersOf(e)' = Arec!MembersOf(e)
                                  /\ Arec!Quorum(e)' = Arec!Quorum(e)
        /\ \A e \in DOMAIN conf :
             Cardinality(StoppedPids(e)) >= Arec!Quorum(e)
                 => Cardinality(StoppedPids(e)') >= Arec!Quorum(e)'
        /\ \A k \in Node : \A m \in cPromises[k] :
               \A e \in m.confs : m.new <= e => e <= maxEpochSeen'[k]
    BY <1>1, <1>2, <2>1, <2>2, <2>4, <2>5, EpochsHandlerStep
  <2>7. \A m \in AllPromises' : m \in AllPromises \/ (m \in cps' /\ m \notin cps)
    BY <2>1 DEF AllPromises
  <2>8. Names'
    <3> SUFFICES ASSUME NEW m \in AllPromises'
                 PROVE  /\ m.epoch < m.new /\ m.new \in m.confs
                        /\ m.confs \subseteq DOMAIN conf
                        /\ m.epoch = epoch[m.node] => m.confs \subseteq confs'[m.node]
      BY <1>1, <2>1 DEF Names
    <3>1. CASE m \in AllPromises
      <4>1. m.node \in Node
        BY <3>1 DEF AllPromises, ArecInv, SentPromise, Promise, Configured, GoodConf,
                    Arec!MembersOf, Arec!PidsOf
      <4>2. confs[m.node] \subseteq confs'[m.node]
        BY <2>4, <4>1
      <4> QED
        BY <3>1, <4>2 DEF EpochsInv, Names
    <3>2. CASE m \in cps' /\ m \notin cps
      <4>1. confs[n] \subseteq DOMAIN conf
        BY <1>2 DEF EpochsInv, Heard
      <4> QED
        BY <1>2, <2>1, <2>3, <2>4, <2>5, <3>2, <4>1
    <3> QED
      BY <2>7, <3>1, <3>2
  <2>9. Chain'
    <3>1. ASSUME NEW m \in AllPromises, NEW k \in AllPromises',
                 m.node = k.node, m.epoch = k.epoch, k \in cps', k \notin cps
          PROVE  m.confs \subseteq k.confs
      <4>1. m.node = n /\ m.epoch = epoch[n] /\ k.confs = confs[n] \cup {r.new}
        BY <2>3, <3>1
      <4> QED
        BY <4>1 DEF EpochsInv, Names
    <3> SUFFICES ASSUME NEW m \in AllPromises', NEW k \in AllPromises',
                        m.node = k.node, m.epoch = k.epoch
                 PROVE  m.confs \subseteq k.confs \/ k.confs \subseteq m.confs
      BY DEF Chain
    <3>2. CASE m \in AllPromises /\ k \in AllPromises
      BY <3>2 DEF EpochsInv, Chain
    <3>3. CASE m \in AllPromises /\ k \in cps' /\ k \notin cps
      BY <3>1, <3>3
    <3>4. CASE k \in AllPromises /\ m \in cps' /\ m \notin cps
      BY <3>1, <3>4
    <3>5. CASE m \in cps' /\ m \notin cps /\ k \in cps' /\ k \notin cps
      BY <2>3, <3>5
    <3> QED
      BY <2>7, <3>2, <3>3, <3>4, <3>5
  <2>10. StoredPromises'
    BY <1>1, <2>1, <2>6 DEF EpochsInv, StoredPromises
  <2>11. FirstStopped'
    BY <2>1, <2>6 DEF EpochsInv, FirstStopped, SamePids
  <2>12. CountedPromises'
    <3>1. \A k \in Node : from[k] # -1 =>
              Arec!Quorum(from[k])' = Arec!Quorum(from[k])
      BY <1>1, <2>1 DEF Arec!Quorum, Arec!PidsOf
    <3>2. \A k \in Node : PromisePids(k, from[k])' = PromisePids(k, from[k])
      BY <2>1 DEF PromisePids
    <3> QED
      BY <2>1, <3>1, <3>2 DEF EpochsInv, CountedPromises
  <2>13. NoneHigher'
    BY <2>1, <2>2 DEF EpochsInv, NoneHigher
  <2> QED
    BY <2>4, <2>6, <2>8, <2>9, <2>10, <2>11, <2>12, <2>13 DEF EpochsInv
<1> QED
  BY <1>1, <1>3, <1>4

LEMMA QuorumNat ==
    ASSUME ArecInv, NEW e \in DOMAIN conf
    PROVE  Arec!Quorum(e) \in Nat /\ Arec!Quorum(e) = Cardinality(DOMAIN conf[e]) \div 2 + 1
<1>1. Cardinality(DOMAIN conf[e]) \in Nat
  BY SmallSets DEF ArecInv, Configured, GoodConf
<1> QED
  BY <1>1, SameCardinality DEF Arec!Quorum, Arec!PidsOf

(* handleCPromise: what is stored, counted and seen.                       *)
LEMMA EpochsCPromiseStep ==
    ASSUME ArecInv, ArecInv', EpochsInv, TwoReplacements,
           NEW n, NEW c, Arec!HandleCPromise(n, c)
    PROVE  EpochsInv'
<1>1. /\ c \in cps /\ c.to = n /\ cps' = cps \ {c}
      /\ UNCHANGED <<conf, prepared>>
  BY DEF Arec!HandleCPromise
<1>2. SentPromise(c) /\ Promise(c) /\ c \in AllPromises
  BY <1>1 DEF ArecInv, SentPromise, AllPromises
<1>3. /\ n \in Node /\ c.new \in DOMAIN conf /\ c.epoch \in DOMAIN conf
      /\ n \in Arec!MembersOf(c.new) /\ c.node \in Node
  BY <1>1, <1>2 DEF SentPromise, Promise, Arec!MembersOf, Arec!PidsOf, ArecInv,
                    Configured, GoodConf
<1>4. /\ c.new \in Nat /\ c.epoch \in Nat /\ epoch[n] \in Int
      /\ c.epoch < c.new /\ c.new \in c.confs /\ c.confs \subseteq DOMAIN conf
      /\ DOMAIN conf \subseteq Nat
  BY <1>2, <1>3 DEF ArecInv, ArecType, EpochsInv, Names
<1>5. CASE UNCHANGED Arec!handlerVars
  <2>1. UNCHANGED <<epoch, stateful, valid, confs, maxEpochSeen, cPromises, from>>
    BY <1>5 DEF Arec!handlerVars
  <2>2. SamePids' /\ OnePerOwner' /\ Heard'
    BY <1>1, <2>1 DEF EpochsInv, SamePids, OnePerOwner, Heard
  <2>3. \A m \in AllPromises' : m \in AllPromises
    BY <1>1, <2>1 DEF AllPromises
  <2>4. Names' /\ Chain'
    BY <1>1, <2>1, <2>3 DEF EpochsInv, Names, Chain
  <2>5. StoredPromises' /\ NoneHigher'
    BY <1>1, <2>1 DEF EpochsInv, StoredPromises, NoneHigher, Arec!MembersOf, Arec!PidsOf
  <2>6. FirstStopped' /\ CountedPromises'
    BY <1>1, <2>1
       DEF EpochsInv, FirstStopped, CountedPromises, StoppedPids, Stopped, PromisePids,
           Arec!Quorum, Arec!PidsOf
  <2> QED
    BY <2>2, <2>4, <2>5, <2>6 DEF EpochsInv
<1>6. ASSUME ~UNCHANGED Arec!handlerVars PROVE EpochsInv'
  <2>1. /\ ~(c.new < epoch[n] \/ (c.new = epoch[n] /\ stateful[n]))
        /\ \E cc \in Arec!CarriedConfs(c) :
             LET higher == {e \in cc : e >= c.new}
                 early == \E e \in cc : c.epoch < e /\ e < c.new
                 isNew == ~\E d \in cPromises[n] : d.epoch = c.epoch
                 msgs == cPromises[n] \cup {c} IN
             /\ cPromises' = IF early THEN cPromises
                             ELSE [cPromises EXCEPT ![n] = msgs]
             /\ maxEpochSeen' = [maxEpochSeen EXCEPT ![n] =
                  CHOOSE e \in higher \cup {@} : \A d \in higher \cup {@} : d <= e]
             /\ IF ~early /\ ~isNew /\ Arec!Check(msgs, c.epoch)
                THEN Arec!HandleActivation(n, c.new, c.epoch, confs[n] \cup higher)
                ELSE /\ confs' = [confs EXCEPT ![n] = @ \cup higher]
                     /\ UNCHANGED <<epoch, stateful, valid, from>>
    BY <1>6 DEF Arec!HandleCPromise
  <2>2. PICK cc, higher, early :
             /\ cc \in Arec!CarriedConfs(c)
             /\ higher = {e \in cc : e >= c.new}
             /\ early = \E e \in cc : c.epoch < e /\ e < c.new
             /\ cPromises' = IF early THEN cPromises
                             ELSE [cPromises EXCEPT ![n] = cPromises[n] \cup {c}]
             /\ maxEpochSeen' = [maxEpochSeen EXCEPT ![n] =
                  CHOOSE e \in higher \cup {@} : \A d \in higher \cup {@} : d <= e]
             /\ \/ /\ ~early /\ Arec!Check(cPromises[n] \cup {c}, c.epoch)
                   /\ Arec!HandleActivation(n, c.new, c.epoch, confs[n] \cup higher)
                \/ /\ confs' = [confs EXCEPT ![n] = @ \cup higher]
                   /\ UNCHANGED <<epoch, stateful, valid, from>>
    BY <2>1
  <2>3. c.confs \subseteq cc /\ cc \subseteq DOMAIN conf
    <3>1. confs[c.node] \subseteq DOMAIN conf
      BY <1>3 DEF EpochsInv, Heard
    <3> QED
      BY <1>2, <1>4, <2>2, <3>1 DEF Arec!CarriedConfs, EpochsInv, Names
  <2>4. higher \in SUBSET DOMAIN conf /\ \A e \in c.confs : c.new <= e => e \in higher
    BY <1>4, <2>2, <2>3
  <2>5. /\ maxEpochSeen' \in [Node -> DOMAIN conf]
        /\ \A k \in Node : maxEpochSeen[k] <= maxEpochSeen'[k]
        /\ \A d \in higher : d <= maxEpochSeen'[n]
    <3>1. higher \in SUBSET DOMAIN conf
      BY <2>4
    <3>2. maxEpochSeen' = [maxEpochSeen EXCEPT ![n] =
            CHOOSE e \in higher \cup {@} : \A d \in higher \cup {@} : d <= e]
      BY <2>2
    <3> QED
      BY <1>3, <3>1, <3>2, SeenGrows DEF EpochsInv
  <2>6. /\ \A k \in Node \ {n} : cPromises'[k] = cPromises[k]
        /\ cPromises[n] \subseteq cPromises'[n]
        /\ \A m \in cPromises'[n] : m \in cPromises[n] \/ (m = c /\ ~early)
    BY <1>3, <2>2 DEF ArecInv, ArecType
  <2>7. \A m \in AllPromises' : m \in AllPromises
    BY <1>1, <2>6 DEF AllPromises
  <2>8. ASSUME ~early, NEW e \in c.confs, c.epoch < e PROVE c.new <= e
    BY <1>4, <2>2, <2>3, <2>8
  <2>9. StoredPromises'
    <3> SUFFICES ASSUME NEW k \in Node, NEW m \in cPromises'[k]
                 PROVE  /\ m.new \in DOMAIN conf /\ k \in Arec!MembersOf(m.new)
                        /\ \A e \in m.confs : m.epoch < e => m.new <= e
                        /\ \A e \in m.confs : m.new <= e => e <= maxEpochSeen'[k]
      BY <1>1 DEF StoredPromises, Arec!MembersOf, Arec!PidsOf
    <3>1. CASE m \in cPromises[k]
      <4>1. m \in AllPromises
        BY <3>1 DEF AllPromises
      <4>2. m.confs \subseteq Nat /\ maxEpochSeen[k] \in Nat /\ maxEpochSeen'[k] \in Nat
        BY <1>4, <2>5, <4>1 DEF EpochsInv, Names, Heard
      <4>3. \A e \in m.confs : m.new <= e => e <= maxEpochSeen[k]
        BY <3>1 DEF EpochsInv, StoredPromises
      <4>4. \A e \in m.confs : m.new <= e => e <= maxEpochSeen'[k]
        BY <2>5, <4>2, <4>3
      <4> QED
        BY <3>1, <4>4 DEF EpochsInv, StoredPromises
    <3>2. CASE k = n /\ m = c /\ ~early
      BY <1>3, <2>4, <2>5, <2>8, <3>2
    <3> QED
      BY <2>6, <3>1, <3>2
  <2>10. ASSUME NEW k \in Node, NEW e \in DOMAIN conf
         PROVE  Cardinality(PromisePids(k, e)) >= Arec!Quorum(e)
                    => Cardinality(PromisePids(k, e)') >= Arec!Quorum(e)
    <3>1. \A m \in AllPromises : m.node \in Node
      BY DEF AllPromises, ArecInv, SentPromise, Promise, Configured, GoodConf,
             Arec!MembersOf, Arec!PidsOf
    <3>2. cPromises'[k] \subseteq AllPromises
      BY <2>7 DEF AllPromises
    <3>3. PromisePids(k, e)' \in SUBSET (0..9)
      BY <3>1, <3>2, EpochAssumption DEF PromisePids
    <3>4. PromisePids(k, e) \in SUBSET (PromisePids(k, e)')
      BY <2>6 DEF PromisePids
    <3>5. /\ Cardinality(PromisePids(k, e)) <= Cardinality(PromisePids(k, e)')
          /\ Cardinality(PromisePids(k, e)) \in Nat
          /\ Cardinality(PromisePids(k, e)') \in Nat
      BY <3>3, <3>4, MorePids, SmallSets
    <3>6. Arec!Quorum(e) \in Nat
      BY QuorumNat
    <3> QED
      BY <3>5, <3>6
  <2>11. Chain'
    BY <2>7 DEF EpochsInv, Chain
  <2>12. CASE /\ confs' = [confs EXCEPT ![n] = @ \cup higher]
              /\ UNCHANGED <<epoch, stateful, valid, from>>
    <3>1. /\ confs' \in [Node -> SUBSET DOMAIN conf]
          /\ \A k \in Node : confs[k] \subseteq confs'[k]
          /\ \A k \in Node \ {n} : confs'[k] = confs[k]
      BY <1>3, <2>4, <2>12 DEF EpochsInv, Heard
    <3>2. Heard'
      BY <1>1, <2>5, <3>1 DEF Heard
    <3>3. /\ SamePids' /\ OnePerOwner'
          /\ \A e \in DOMAIN conf : /\ Arec!MembersOf(e)' = Arec!MembersOf(e)
                                    /\ Arec!Quorum(e)' = Arec!Quorum(e)
          /\ \A e \in DOMAIN conf :
               Cardinality(StoppedPids(e)) >= Arec!Quorum(e)
                   => Cardinality(StoppedPids(e)') >= Arec!Quorum(e)'
      BY <1>1, <1>3, <1>4, <2>5, <2>6, <2>12, <3>1, <3>2, EpochsHandlerStep
    <3>4. Names'
      <4> SUFFICES ASSUME NEW m \in AllPromises
                   PROVE  /\ m.epoch < m.new /\ m.new \in m.confs
                          /\ m.confs \subseteq DOMAIN conf
                          /\ m.epoch = epoch[m.node] => m.confs \subseteq confs'[m.node]
        BY <1>1, <2>7, <2>12 DEF Names
      <4>1. m.node \in Node
        BY DEF AllPromises, ArecInv, SentPromise, Promise, Configured, GoodConf,
               Arec!MembersOf, Arec!PidsOf
      <4> QED
        BY <3>1, <4>1 DEF EpochsInv, Names
    <3>5. FirstStopped'
      BY <2>12, <3>3 DEF EpochsInv, FirstStopped, SamePids
    <3>6. CountedPromises'
      <4> SUFFICES ASSUME NEW k \in Node, NEW f, f = from[k]
                   PROVE  /\ stateful[k] /\ epoch[k] # 0 => f # -1
                          /\ f # -1 =>
                               /\ f < epoch[k]
                               /\ Cardinality(PromisePids(k, f)') >= Arec!Quorum(f)
        BY <1>1, <2>12 DEF CountedPromises, PromisePids, Arec!Quorum, Arec!PidsOf
      <4>1. f # -1 => f \in DOMAIN conf
        BY DEF ArecInv
      <4> QED
        BY <2>10, <4>1 DEF EpochsInv, CountedPromises
    <3>7. NoneHigher'
      <4> SUFFICES ASSUME NEW k \in Node, stateful[k], valid[k],
                          NEW m \in cPromises'[k], m.new <= epoch[k],
                          NEW e \in m.confs, m.new <= e
                   PROVE  e <= epoch[k]
        BY <2>12 DEF NoneHigher
      <4>1. m \in cPromises[k]
        BY <1>4, <2>1, <2>6
      <4> QED
        BY <4>1 DEF EpochsInv, NoneHigher
    <3> QED
      BY <2>9, <2>11, <3>2, <3>3, <3>4, <3>5, <3>6, <3>7 DEF EpochsInv
  <2>13. CASE /\ ~early /\ Arec!Check(cPromises[n] \cup {c}, c.epoch)
              /\ Arec!HandleActivation(n, c.new, c.epoch, confs[n] \cup higher)
    <3>1. /\ epoch' = [epoch EXCEPT ![n] = c.new]
          /\ from' = [from EXCEPT ![n] = c.epoch]
          /\ stateful' = [stateful EXCEPT ![n] = TRUE]
          /\ \/ /\ maxEpochSeen'[n] <= c.new
                /\ valid' = [valid EXCEPT ![n] = TRUE]
                /\ confs' = [confs EXCEPT ![n] = {}]
             \/ /\ valid' = [valid EXCEPT ![n] = FALSE]
                /\ confs' = [confs EXCEPT ![n] = {d \in confs[n] \cup higher : d > c.new}]
      BY <2>13 DEF Arec!HandleActivation
    <3>2. /\ epoch'[n] = c.new /\ from'[n] = c.epoch /\ stateful'[n]
          /\ valid'[n] => maxEpochSeen'[n] <= c.new
          /\ \A k \in Node \ {n} : /\ epoch'[k] = epoch[k] /\ from'[k] = from[k]
                                   /\ stateful'[k] = stateful[k] /\ valid'[k] = valid[k]
      BY <1>3, <3>1 DEF ArecInv, ArecType
    <3>3. /\ confs' \in [Node -> SUBSET DOMAIN conf]
          /\ \A k \in Node \ {n} : confs'[k] = confs[k]
      BY <1>3, <2>4, <3>1 DEF EpochsInv, Heard
    <3>4. Heard'
      BY <1>1, <2>5, <3>3 DEF Heard
    <3>5. /\ SamePids' /\ OnePerOwner'
          /\ \A e \in DOMAIN conf :
               Cardinality(StoppedPids(e)) >= Arec!Quorum(e)
                   => Cardinality(StoppedPids(e)') >= Arec!Quorum(e)'
      <4>1. epoch'[n] > epoch[n] \/ (epoch'[n] = epoch[n] /\ ~stateful[n])
        BY <1>4, <2>1, <3>2
      <4> QED
        BY <1>1, <1>3, <1>4, <2>5, <2>6, <3>2, <3>3, <3>4, <4>1, EpochsHandlerStep
    <3>6. Names'
      <4> SUFFICES ASSUME NEW m \in AllPromises
                   PROVE  /\ m.epoch < m.new /\ m.new \in m.confs
                          /\ m.confs \subseteq DOMAIN conf
                          /\ m.epoch = epoch'[m.node] => m.confs \subseteq confs'[m.node]
        BY <1>1, <2>7 DEF Names
      <4>1. Promise(m)
        BY DEF AllPromises, ArecInv, SentPromise
      <4>2. m.node \in Node
        BY <4>1 DEF Promise, ArecInv, Configured, GoodConf, Arec!MembersOf, Arec!PidsOf
      <4>3. CASE m.node = n
        <5>1. stateful[n] /\ m.epoch <= epoch[n] /\ m.epoch \in Nat
          BY <1>4, <4>1, <4>3 DEF Promise, Stopped
        <5>2. m.epoch # epoch'[n]
          BY <1>4, <2>1, <3>2, <5>1
        <5> QED
          BY <4>3, <5>2 DEF EpochsInv, Names
      <4>4. CASE m.node # n
        BY <3>2, <3>3, <4>2, <4>4 DEF EpochsInv, Names
      <4> QED
        BY <4>3, <4>4
    <3>7. FirstStopped'
      <4>1. 0 \in DOMAIN conf
        BY DEF EpochsInv, SamePids
      <4>2. CASE c.epoch = 0
        <5>1. \A m \in cPromises[n] \cup {c} : Promise(m)
          BY <1>2, <1>3 DEF ArecInv
        <5>2. Cardinality(StoppedPids(0)) >= Arec!Quorum(0)
          BY <2>13, <4>1, <4>2, <5>1, CheckedQuorum
        <5> QED
          BY <3>5, <4>1, <5>2 DEF FirstStopped
      <4>3. CASE c.epoch # 0
        <5>1. stateful[c.node] /\ epoch[c.node] # 0
          BY <1>2, <1>4, <4>3 DEF Promise, Stopped
        <5>2. Cardinality(StoppedPids(0)) >= Arec!Quorum(0)
          BY <1>3, <5>1 DEF EpochsInv, FirstStopped
        <5> QED
          BY <3>5, <4>1, <5>2 DEF FirstStopped
      <4> QED
        BY <4>2, <4>3
    <3>8. CountedPromises'
      <4> SUFFICES ASSUME NEW k \in Node, NEW f, f = from'[k]
                   PROVE  /\ stateful'[k] /\ epoch'[k] # 0 => f # -1
                          /\ f # -1 =>
                               /\ f < epoch'[k]
                               /\ Cardinality(PromisePids(k, f)') >= Arec!Quorum(f)
        BY <1>1 DEF CountedPromises, PromisePids, Arec!Quorum, Arec!PidsOf
      <4>1. CASE k = n
        <5>1. f = c.epoch /\ f # -1 /\ f < epoch'[n]
          BY <1>4, <3>2, <4>1
        <5>2. cPromises'[n] = cPromises[n] \cup {c}
          BY <1>3, <2>2, <2>13 DEF ArecInv, ArecType
        <5>3. Cardinality(PromisePids(n, c.epoch)') >= Arec!Quorum(c.epoch)
          BY <2>13, <5>2, SameCardinality DEF PromisePids, Arec!Check
        <5> QED
          BY <4>1, <5>1, <5>3
      <4>2. CASE k # n
        <5>1. f # -1 => f \in DOMAIN conf
          BY <3>2, <4>2 DEF ArecInv
        <5> QED
          BY <2>10, <3>2, <4>2, <5>1 DEF EpochsInv, CountedPromises
      <4> QED
        BY <4>1, <4>2
    <3>9. NoneHigher'
      <4> SUFFICES ASSUME NEW k \in Node, stateful'[k], valid'[k],
                          NEW m \in cPromises'[k], m.new <= epoch'[k],
                          NEW e \in m.confs, m.new <= e
                   PROVE  e <= epoch'[k]
        BY DEF NoneHigher
      <4>1. CASE k = n
        <5>1. e <= maxEpochSeen'[n] /\ maxEpochSeen'[n] <= c.new
          BY <2>9, <3>2, <4>1 DEF StoredPromises
        <5>2. e \in Nat /\ maxEpochSeen'[n] \in Nat
          BY <1>3, <1>4, <2>5, <2>7 DEF EpochsInv, Names, AllPromises
        <5> QED
          BY <1>4, <3>2, <4>1, <5>1, <5>2
      <4>2. CASE k # n
        BY <2>6, <3>2, <4>2 DEF EpochsInv, NoneHigher
      <4> QED
        BY <4>1, <4>2
    <3> QED
      BY <2>9, <2>11, <3>4, <3>5, <3>6, <3>7, <3>8, <3>9 DEF EpochsInv
  <2> QED
    BY <2>2, <2>12, <2>13
<1> QED
  BY <1>5, <1>6

LEMMA EpochsFailsStep ==
    ASSUME EpochsInv, NEW r, Arec!RemoteSetupFails(r)
    PROVE  EpochsInv'
<1>1. /\ prepared' = prepared \ {r}
      /\ UNCHANGED <<epoch, stateful, valid, confs, maxEpochSeen, cPromises, conf, cps, from>>
  BY DEF Arec!RemoteSetupFails, Arec!handlerVars
<1> QED
  BY <1>1, EpochsFrame DEF EpochsInv, SamePids

LEMMA EpochsStep ==
    ASSUME ArecInv, ArecInv', EpochsInv, TwoReplacements, Arec!Next
    PROVE  EpochsInv'
BY EpochsCmdStep, EpochsSetupStep, EpochsFailsStep, EpochsReconfMsgStep,
   EpochsCPromiseStep
   DEF Arec!Next

LEMMA SharedPid ==
    ASSUME NEW R \in SUBSET (0..9), NEW S \in SUBSET R, NEW T \in SUBSET R,
           Cardinality(S) >= Cardinality(R) \div 2 + 1,
           Cardinality(T) >= Cardinality(R) \div 2 + 1
    PROVE  S \cap T # {}
<1>1. /\ IsFiniteSet(R) /\ IsFiniteSet(S) /\ IsFiniteSet(T)
      /\ Cardinality(R) \in Nat /\ Cardinality(S) \in Nat /\ Cardinality(T) \in Nat
  BY SmallSets
<1>2. Cardinality(S) + Cardinality(T) > Cardinality(R)
  BY <1>1
<1> QED
  BY <1>1, <1>2, FS_MajoritiesIntersect

(* A configuration's nodes are told apart by their PaxosIDs.               *)
LEMMA RunningPids ==
    ASSUME ArecInv, EpochsInv, NEW e \in DOMAIN conf,
           Arec!Cardinality(Arec!Running(e)) >= Arec!Quorum(e)
    PROVE  /\ {Pid[n] : n \in Arec!Running(e)} \in SUBSET FirstPids
           /\ Cardinality({Pid[n] : n \in Arec!Running(e)})
                  >= Cardinality(FirstPids) \div 2 + 1
<1>1. GoodConf(conf[e]) /\ DOMAIN conf[e] = FirstPids
  BY DEF ArecInv, Configured, EpochsInv, SamePids
<1>2. \A n \in Arec!Running(e) : n \in Node /\ Pid[n] \in FirstPids /\ conf[e][Pid[n]] = n
  BY <1>1 DEF Arec!Running, Arec!MembersOf, Arec!PidsOf, GoodConf
<1>3. Cardinality({Pid[n] : n \in Arec!Running(e)}) = Cardinality(Arec!Running(e))
  BY <1>2, CountByPid
<1>4. Arec!Quorum(e) = Cardinality(FirstPids) \div 2 + 1
  BY <1>1, QuorumNat
<1> QED
  BY <1>2, <1>3, <1>4, SameCardinality

(* Who runs in d cannot be of e as well.                                   *)
LEMMA MembersElsewhere ==
    ASSUME ArecInv, EpochsInv, NEW d \in DOMAIN conf, NEW e \in DOMAIN conf,
           Arec!Cardinality(Arec!Running(d)) >= Arec!Quorum(d),
           Arec!Cardinality(Arec!Running(e)) >= Arec!Quorum(e),
           Arec!Running(d) \subseteq Arec!MembersOf(e)
    PROVE  d = e
<1>1. FirstPids \in SUBSET (0..9) /\ GoodConf(conf[e])
  BY DEF ArecInv, Configured, GoodConf, EpochsInv, SamePids
<1>2. {Pid[n] : n \in Arec!Running(d)} \cap {Pid[n] : n \in Arec!Running(e)} # {}
  BY <1>1, RunningPids, SharedPid
<1>3. PICK m \in Arec!Running(d), n \in Arec!Running(e) : Pid[m] = Pid[n]
  BY <1>2
<1>4. m \in Arec!MembersOf(e) /\ n \in Arec!MembersOf(e)
  BY DEF Arec!Running
<1>5. m = n
  BY <1>1, <1>3, <1>4 DEF Arec!MembersOf, Arec!PidsOf, GoodConf
<1> QED
  BY <1>5 DEF Arec!Running

(* A node of one epoch only that runs in it has counted CPromises for it.  *)
LEMMA OnlyForIt ==
    ASSUME ArecInv, EpochsInv, TwoReplacements,
           NEW d \in DOMAIN conf \ {0}, NEW e \in DOMAIN conf \ {0}, d # e,
           NEW n \in Arec!Running(d), n \notin Arec!MembersOf(e),
           NEW m \in cPromises[n], m.epoch = 0
    PROVE  d \in m.confs /\ e \notin m.confs
<1>1. n \in Node /\ epoch[n] = d /\ stateful[n] /\ valid[n]
  BY DEF Arec!Running, Arec!MembersOf, Arec!PidsOf, ArecInv, Configured, GoodConf
<1>2. m \in AllPromises
  BY <1>1 DEF AllPromises
<1>3. d \in Nat /\ e \in Nat /\ d # 0 /\ e # 0
  BY DEF ArecInv, ArecType
<1>4. /\ m.new \in DOMAIN conf /\ n \in Arec!MembersOf(m.new)
      /\ m.new \in m.confs /\ m.new # 0
  BY <1>1, <1>2 DEF EpochsInv, StoredPromises, Names
<1>5. m.new = d
  BY <1>3, <1>4, AtMostTwoNew DEF EpochsInv
<1>6. ASSUME e \in m.confs PROVE FALSE
  <2>1. d <= e
    BY <1>1, <1>3, <1>5, <1>6 DEF EpochsInv, StoredPromises
  <2>2. e <= d
    BY <1>1, <1>3, <1>5, <1>6, <2>1 DEF EpochsInv, NoneHigher
  <2> QED
    BY <1>3, <2>1, <2>2
<1> QED
  BY <1>4, <1>5, <1>6

(* The first epoch has stopped before another runs.  Of two others each    *)
(* has a running node of its own, which has counted CPromises that do not  *)
(* name the other; the two quorums of these share a replica, and of its    *)
(* CPromises the later one names all that the earlier one does.            *)
LEMMA OneRuns ==
    ASSUME ArecInv, EpochsInv, TwoReplacements
    PROVE  Arec!OneEpochRuns
<1> DEFINE Runs(e) == Arec!Cardinality(Arec!Running(e)) >= Arec!Quorum(e)
<1>1. FirstPids \in SUBSET (0..9) /\ 0 \in DOMAIN conf /\ DOMAIN conf \subseteq Nat
  BY DEF ArecInv, ArecType, Configured, GoodConf, EpochsInv, SamePids
<1>2. ASSUME NEW e \in DOMAIN conf, Runs(e), Cardinality(StoppedPids(e)) >= Arec!Quorum(e)
      PROVE  FALSE
  <2>1. Cardinality(Arec!Running(e)) < Arec!Quorum(e)
    BY <1>2, TooFewRun, SameCardinality
  <2>2. Cardinality(Arec!Running(e)) >= Arec!Quorum(e) /\ Arec!Quorum(e) \in Nat
    BY <1>2, QuorumNat, SameCardinality
  <2>3. Cardinality(Arec!Running(e)) \in Nat
    <3>1. GoodConf(conf[e])
      BY DEF ArecInv, Configured
    <3>2. \A n \in Arec!Running(e) : n \in Node /\ conf[e][Pid[n]] = n
      BY <3>1 DEF Arec!Running, Arec!MembersOf, Arec!PidsOf, GoodConf
    <3> QED
      BY <3>2, CountByPid, FS_CardinalityType
  <2> QED
    BY <2>1, <2>2, <2>3
<1>3. ASSUME NEW e \in DOMAIN conf \ {0}, Runs(e), Runs(0) PROVE FALSE
  <2>1. PICK n \in Arec!Running(e) : TRUE
    <3> DEFINE Q(d) == {Pid[k] : k \in Arec!Running(d)}
    <3>1. /\ Q(e) \in SUBSET FirstPids
          /\ Cardinality(Q(e)) >= Cardinality(FirstPids) \div 2 + 1
      BY <1>3, RunningPids, Zenon
    <3>2. Q(e) # {}
      BY <1>1, <3>1, SharedPid, Zenon
    <3> QED
      BY <3>2
  <2>2. n \in Node /\ epoch[n] = e /\ stateful[n]
    <3>1. GoodConf(conf[e])
      BY DEF ArecInv, Configured
    <3>2. n \in Arec!MembersOf(e) /\ epoch[n] = e /\ stateful[n]
      BY DEF Arec!Running
    <3> QED
      BY <3>1, <3>2 DEF Arec!MembersOf, Arec!PidsOf, GoodConf
  <2>3. Cardinality(StoppedPids(0)) >= Arec!Quorum(0)
    BY <2>2 DEF EpochsInv, FirstStopped
  <2> QED
    BY <1>1, <1>2, <1>3, <2>3
<1>4. ASSUME NEW d \in DOMAIN conf \ {0}, NEW e \in DOMAIN conf \ {0}, d # e,
             Runs(d), Runs(e), NEW n \in Arec!Running(d)
      PROVE  /\ n \in Node
             /\ PromisePids(n, 0) \in SUBSET FirstPids
             /\ Cardinality(PromisePids(n, 0)) >= Cardinality(FirstPids) \div 2 + 1
  <2>1. n \in Node /\ epoch[n] = d /\ stateful[n]
    BY DEF Arec!Running, Arec!MembersOf, Arec!PidsOf, ArecInv, Configured, GoodConf
  <2>2. from[n] # -1 /\ from[n] < d
    BY <2>1 DEF EpochsInv, CountedPromises
  <2>3. from[n] \in DOMAIN conf /\ Cardinality(StoppedPids(from[n])) >= Arec!Quorum(from[n])
    BY <2>1, <2>2 DEF ArecInv
  <2>4. from[n] # d /\ from[n] # e
    BY <1>1, <1>2, <1>4, <2>2, <2>3
  <2>5. from[n] = 0
    BY <1>4, <2>3, <2>4, AtMostTwoNew DEF EpochsInv
  <2>6. Cardinality(PromisePids(n, 0)) >= Arec!Quorum(0)
    BY <2>1, <2>2, <2>5 DEF EpochsInv, CountedPromises
  <2>7. PromisePids(n, 0) \in SUBSET FirstPids
    <3> SUFFICES ASSUME NEW m \in cPromises[n], m.epoch = 0 PROVE Pid[m.node] \in FirstPids
      BY DEF PromisePids
    <3>1. m.node \in Arec!MembersOf(0)
      BY <2>1 DEF ArecInv, Promise
    <3> QED
      BY <1>1, <3>1 DEF Arec!MembersOf, Arec!PidsOf, ArecInv, Configured, GoodConf,
                        EpochsInv, SamePids
  <2>8. Arec!Quorum(0) = Cardinality(FirstPids) \div 2 + 1
    BY <1>1, QuorumNat DEF EpochsInv, SamePids
  <2> QED
    BY <2>1, <2>6, <2>7, <2>8
<1>5. ASSUME NEW d \in DOMAIN conf \ {0}, NEW e \in DOMAIN conf \ {0}, d # e,
             Runs(d), Runs(e)
      PROVE  FALSE
  <2>1. PICK x \in Arec!Running(d) : x \notin Arec!MembersOf(e)
    BY <1>5, MembersElsewhere
  <2>2. PICK y \in Arec!Running(e) : y \notin Arec!MembersOf(d)
    BY <1>5, MembersElsewhere
  <2>3. PromisePids(x, 0) \cap PromisePids(y, 0) # {} /\ x \in Node /\ y \in Node
    BY <1>1, <1>4, <1>5, SharedPid
  <2>4. PICK m \in cPromises[x], k \in cPromises[y] :
            m.epoch = 0 /\ k.epoch = 0 /\ Pid[m.node] = Pid[k.node]
    BY <2>3 DEF PromisePids
  <2>5. m.node \in Arec!MembersOf(0) /\ k.node \in Arec!MembersOf(0)
    BY <2>3, <2>4 DEF ArecInv, Promise
  <2>6. m.node = k.node
    BY <1>1, <2>4, <2>5 DEF Arec!MembersOf, Arec!PidsOf, ArecInv, Configured, GoodConf
  <2>7. m.confs \subseteq k.confs \/ k.confs \subseteq m.confs
    BY <2>3, <2>4, <2>6 DEF EpochsInv, Chain, AllPromises
  <2>8. d \in m.confs /\ e \notin m.confs /\ e \in k.confs /\ d \notin k.confs
    BY <1>5, <2>1, <2>2, <2>4, OnlyForIt
  <2> QED
    BY <2>7, <2>8
<1>6. ASSUME NEW d \in DOMAIN conf, NEW e \in DOMAIN conf, Runs(d), Runs(e) PROVE d = e
  BY <1>3, <1>5, <1>6
<1> QED
  BY <1>6 DEF Arec!OneEpochRuns

(* No two configurations have a quorum of running acceptors, for any       *)
(* number of nodes, as long as there are at most two commands and they     *)
(* only replace nodes.  Both hypotheses are needed: CPromises are counted  *)
(* whatever epoch they are for, and a third replacement, or a node that is *)
(* added, makes two quorums of them that run two epochs.                   *)
THEOREM OneEpochRunsTheorem ==
    ASSUME TwoReplacements
    PROVE  Spec => []OneEpochRuns
<1> DEFINE Inv == Is("epochs") => ArecInv /\ EpochsInv
<1>1. Init => Inv
  BY ArecInit, EpochsInit DEF Init
<1>2. Inv /\ [Next]_allVars => Inv'
  <2> SUFFICES ASSUME Inv, [Next]_allVars, Is("epochs")' PROVE ArecInv' /\ EpochsInv'
    OBVIOUS
  <2>1. Is("epochs") /\ (Arec!Next \/ UNCHANGED arecVars)
    BY DEF Next, Is, allVars
  <2>2. CASE UNCHANGED arecVars
    <3>1. /\ ArecInv /\ EpochsInv
          /\ UNCHANGED <<epoch, stateful, valid, confs, maxEpochSeen, from, cPromises,
                         conf, arecInProgress, prepared, rms, cps>>
      BY <2>1, <2>2 DEF arecVars
    <3>2. ArecInv'
      BY <3>1, ArecUnchanged
    <3>3. EpochsInv'
      BY <3>1, EpochsFrame DEF EpochsInv, SamePids
    <3> QED
      BY <3>2, <3>3
  <2>3. CASE Arec!Next
    <3>1. ArecInv'
      BY <2>1, <2>3, ArecStep
    <3>2. EpochsInv'
      BY <2>1, <2>3, <3>1, EpochsStep
    <3> QED
      BY <3>1, <3>2
  <2> QED
    BY <2>1, <2>2, <2>3
<1>3. Inv => OneEpochRuns
  BY OneRuns DEF OneEpochRuns
<1> QED
  BY <1>1, <1>2, <1>3, PTL DEF Spec, allVars
=============================================================================
