--------------------------- MODULE MultiAcceptor ---------------------------
(***************************************************************************)
(* The acceptor of package multipaxos, without Live Replacement and        *)
(* without asynchronous reconfiguration (handlePrep and handleAcc).  One   *)
(* goroutine serves its channels, so each handler is one atomic step.      *)
(* Nothing is written to disk: a node that stops is gone, and is modelled  *)
(* by an acceptor that takes no further step.                              *)
(***************************************************************************)
EXTENDS Paxos

VARIABLES
    aRnd,    \* AcceptorSlotMap.Rnd: highest round participated in
    vrnd,    \* AcceptorSlot.VRnd, per slot
    vval,    \* AcceptorSlot.VVal, per slot
    maxSeen  \* AcceptorSlotMap.MaxSeen: highest slot ever looked up

accVars == <<aRnd, vrnd, vval, maxSeen>>

AccTypeOK ==
    /\ aRnd \in [Acceptor -> OwnedRound \cup {ZeroRound}]
    /\ vrnd \in [Acceptor -> [Slot -> OwnedRound \cup {ZeroRound}]]
    /\ vval \in [Acceptor -> [Slot -> Value \cup {None}]]
    /\ maxSeen \in [Acceptor -> Slot]
    /\ \A a \in Acceptor, s \in Slot :
           vrnd[a][s] # ZeroRound => vval[a][s] \in Value

(* In a fresh group lowSlot is NextExpectedDcd = 1, and MaxSeen starts     *)
(* there.  No slot is below lowSlot, so that check of handleAcc never      *)
(* fires here.                                                             *)
AccInit ==
    /\ aRnd = [a \in Acceptor |-> ZeroRound]
    /\ vrnd = [a \in Acceptor |-> [s \in Slot |-> ZeroRound]]
    /\ vval = [a \in Acceptor |-> [s \in Slot |-> None]]
    /\ maxSeen = [a \in Acceptor |-> 1]

(* AcceptorSlotMap.GetSlot as far as it changes state.                     *)
GetSlot(a, s) ==
    maxSeen' = [maxSeen EXCEPT ![a] = IF s > @ THEN s ELSE @]

(* The accslots of a Promise: every slot from the prepare's slot on that   *)
(* holds a vote.  A prepare beyond MaxSeen makes the slice start with      *)
(* msg.Slot - max zero-valued entries (all equal: one element here).       *)
AccSlots(a, from) ==
    {[id |-> s, vrnd |-> vrnd[a][s], vval |-> vval[a][s]] :
        s \in {t \in Slot : from <= t /\ t <= maxSeen[a]
                            /\ RoundLess(ZeroRound, vrnd[a][t])}}
    \cup (IF from > maxSeen[a]
          THEN {ZeroSlot} ELSE {})

(* A bug: the promised round is not remembered.                            *)
HandlePrepareForgotten(a, m) ==
    /\ RoundLess(aRnd[a], m.crnd)
    /\ promises' = promises \cup
         {[id |-> a, rnd |-> m.crnd, accslots |-> AccSlots(a, m.slot)]}
    /\ UNCHANGED <<accVars, prepares, accepts, learns, creqs, cresps>>

(* handlePrep, when the round is higher than every round taken part in.    *)
HandlePrepare(a, m) ==
    /\ RoundLess(aRnd[a], m.crnd)
    /\ aRnd' = [aRnd EXCEPT ![a] = m.crnd]
    /\ promises' = promises \cup
         {[id |-> a, rnd |-> m.crnd, accslots |-> AccSlots(a, m.slot)]}
    /\ UNCHANGED <<vrnd, vval, maxSeen, prepares, accepts, learns,
                   creqs, cresps>>

(* An Accept of a round below the promised one, or of the round already    *)
(* voted in, at most raises MaxSeen; a resent Accept therefore yields no   *)
(* second Learn.                                                           *)
IgnoreAccept(a, m) ==
    /\ m.slot > maxSeen[a]
    /\ RoundLess(m.rnd, aRnd[a]) \/ m.rnd = vrnd[a][m.slot]
    /\ GetSlot(a, m.slot)
    /\ UNCHANGED <<aRnd, vrnd, vval, netVars>>

(* A bug: the promise not to vote in lower rounds is not kept.             *)
VoteForAnyRound(a, m) ==
    /\ m.rnd # vrnd[a][m.slot]
    /\ GetSlot(a, m.slot)
    /\ aRnd' = [aRnd EXCEPT ![a] = m.rnd]
    /\ vrnd' = [vrnd EXCEPT ![a][m.slot] = m.rnd]
    /\ vval' = [vval EXCEPT ![a][m.slot] = m.val]
    /\ learns' = learns \cup
         {[id |-> a, rnd |-> m.rnd, slot |-> m.slot, val |-> m.val]}
    /\ UNCHANGED <<prepares, promises, accepts, creqs, cresps>>

(* handleAcc, when it votes.                                               *)
VoteFor(a, m) ==
    /\ ~RoundLess(m.rnd, aRnd[a])
    /\ m.rnd # vrnd[a][m.slot]
    /\ GetSlot(a, m.slot)
    /\ aRnd' = [aRnd EXCEPT ![a] = m.rnd]
    /\ vrnd' = [vrnd EXCEPT ![a][m.slot] = m.rnd]
    /\ vval' = [vval EXCEPT ![a][m.slot] = m.val]
    /\ learns' = learns \cup
         {[id |-> a, rnd |-> m.rnd, slot |-> m.slot, val |-> m.val]}
    /\ UNCHANGED <<prepares, promises, accepts, creqs, cresps>>

HandleAccept(a, m) == IgnoreAccept(a, m) \/ VoteFor(a, m)

AccNext ==
    \E a \in Acceptor :
        \/ \E m \in prepares : HandlePrepare(a, m)
        \/ \E m \in accepts : HandleAccept(a, m)
=============================================================================
