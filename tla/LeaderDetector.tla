--------------------------- MODULE LeaderDetector ---------------------------
(***************************************************************************)
(* Package liveness on one replica, Self: the failure detector (Fd), which *)
(* turns the messages that arrive into suspicions, and the monarchical     *)
(* leader detector (Ld), which turns suspicions into the trusted leader    *)
(* and tells the modules that subscribed to it.                            *)
(*                                                                         *)
(* Both are goroutines that publish on bounded channels and block while a  *)
(* channel is full; what they have yet to send is part of their state, and *)
(* they serve nothing else until it is empty.  The detectors of different  *)
(* replicas share no state, so one replica is modelled and the others are  *)
(* its environment: they send messages, and may stop.                      *)
(***************************************************************************)
EXTENDS Integers, Sequences, FiniteSets

CONSTANTS
    Node,        \* PaxosIDs of the group, all of them proposers
    Self,
    Subscriber,  \* modules on Self that subscribed to the Paxos leader
    FdCap,       \* capacity of the Ld's channel (Quorum in the code)
    TrustCap,    \* capacity of a subscriber's channel (4 in the code)
    Bound,       \* the timeout at which every period is long enough
    MaxTimeout   \* bound: where the model stops counting timeout increases

ASSUME DetectorAssumption ==
    /\ Node \subseteq Nat
    /\ IsFiniteSet(Node)
    /\ Self \in Node
    /\ FdCap \in Nat \ {0}
    /\ TrustCap \in Nat \ {0}
    /\ Bound \in Nat
    /\ MaxTimeout \in Nat
    /\ Bound <= MaxTimeout

VARIABLES
    up,           \* the replicas that have not stopped
    inFlight,     \* those of which a message is under way to Self
    alive,        \* Fd.alive: heard from since the last tick
    suspected,    \* Fd.suspected
    timeout,      \* Fd.timeout, in multiples of the increase
    fdOut,        \* events timeoutProcedure has yet to publish
    fdChan,       \* the channel from the Fd to the Ld
    ldSuspected,  \* MonarchicalLD.suspected
    pleader,      \* MonarchicalLD.pleader
    trustOut,     \* subscribers publishPaxosTrust has yet to send pleader to
    trust,        \* the subscribers' channels
    leader        \* the leader each subscriber trusts

envVars == <<up, inFlight>>
fdVars == <<alive, suspected, timeout, fdOut>>
ldVars == <<ldSuspected, pleader, trustOut>>
subVars == <<trust, leader>>
vars == <<envVars, fdVars, fdChan, ldVars, subVars>>

Event == {"Suspect", "Restore"}
FdMsg == [event : Event, id : Node]
MinID == -1

(* Types.  That the leader is a replica, never MinID, depends on Self not  *)
(* being suspected.                                                        *)
TypeOK ==
    /\ up \subseteq Node
    /\ inFlight \subseteq Node
    /\ alive \subseteq Node
    /\ suspected \subseteq Node
    /\ timeout \in 0..MaxTimeout
    /\ fdOut \subseteq FdMsg
    /\ fdChan \in Seq(FdMsg)
    /\ ldSuspected \subseteq Node
    /\ pleader \in Node
    /\ trustOut \subseteq Subscriber
    /\ trust \in [Subscriber -> Seq(Node)]
    /\ leader \in [Subscriber -> Node]

(* maxRank: the highest PaxosID that is not suspected, MinID if all are.   *)
MaxRank(susp) ==
    IF Node \subseteq susp THEN MinID
    ELSE CHOOSE n \in Node \ susp : \A q \in Node \ susp : q <= n

(* NewMonarchicalLD computes the leader before anything is suspected, and  *)
(* the subscribers start with it.                                          *)
Init ==
    /\ up = Node
    /\ inFlight = {}
    /\ alive = {}
    /\ suspected = {}
    /\ timeout = 0
    /\ fdOut = {}
    /\ fdChan = << >>
    /\ ldSuspected = {}
    /\ pleader = MaxRank({})
    /\ trustOut = {}
    /\ trust = [s \in Subscriber |-> << >>]
    /\ leader = [s \in Subscriber |-> MaxRank({})]

-----------------------------------------------------------------------------
(* The other replicas.                                                     *)

Crash(q) ==
    /\ q \in up \ {Self}
    /\ up' = up \ {q}
    /\ UNCHANGED <<inFlight, fdVars, fdChan, ldVars, subVars>>

(* The heartbeat emitter of q broadcasts a heartbeat when its interval has *)
(* passed without any other broadcast; whichever message it is counts.     *)
Emit(q) ==
    /\ q \in up \ {Self}
    /\ q \notin inFlight
    /\ inFlight' = inFlight \cup {q}
    /\ UNCHANGED <<up, fdVars, fdChan, ldVars, subVars>>

-----------------------------------------------------------------------------
(* The failure detector.                                                   *)

(* <-heartbeatChan: a connection delivered some message of q.              *)
Hear(q) ==
    /\ fdOut = {}
    /\ q \in inFlight
    /\ inFlight' = inFlight \ {q}
    /\ alive' = alive \cup {q}
    /\ UNCHANGED <<up, suspected, timeout, fdOut, fdChan, ldVars, subVars>>

(* The timeout grows when a suspicion proved wrong, and the bug of leaving *)
(* it as it is.                                                            *)
IncreasedNever == timeout
Increased ==
    IF alive \cap suspected # {} /\ timeout < MaxTimeout
    THEN timeout + 1 ELSE timeout

(* fd.alive with Self added.                                               *)
AliveNow == alive \cup {Self}

(* <-ticker.C: timeoutProcedure up to what it publishes.  From a timeout   *)
(* of Bound on, every running replica is heard from in every period.       *)
Timeout ==
    LET restored == suspected \cap AliveNow
        added == Node \ (AliveNow \cup suspected)
    IN  /\ fdOut = {}
        /\ timeout >= Bound => up \subseteq alive \cup {Self}
        /\ timeout' = Increased
        /\ suspected' = (suspected \ restored) \cup added
        /\ fdOut' = [event : {"Suspect"}, id : added]
                    \cup [event : {"Restore"}, id : restored]
        /\ alive' = {}
        /\ UNCHANGED <<envVars, fdChan, ldVars, subVars>>

(* A bug: an event is dropped when the channel is full.                    *)
PublishFdMsgOrDrop(m) ==
    /\ m \in fdOut
    /\ fdChan' = IF Len(fdChan) < FdCap THEN Append(fdChan, m) ELSE fdChan
    /\ fdOut' = fdOut \ {m}
    /\ UNCHANGED <<envVars, alive, suspected, timeout, ldVars, subVars>>

(* publishFdMsg: blocks while the channel is full.                         *)
PublishFdMsg(m) ==
    /\ m \in fdOut
    /\ Len(fdChan) < FdCap
    /\ fdChan' = Append(fdChan, m)
    /\ fdOut' = fdOut \ {m}
    /\ UNCHANGED <<envVars, alive, suspected, timeout, ldVars, subVars>>

-----------------------------------------------------------------------------
(* The leader detector and its subscribers.                                *)

(* handleFdMsg and checkPaxosLeader: a change of leader is to be published *)
(* to every subscriber.                                                    *)
HandleFdMsg ==
    /\ trustOut = {}
    /\ fdChan # << >>
    /\ fdChan' = Tail(fdChan)
    /\ ldSuspected' = IF Head(fdChan).event = "Suspect"
                      THEN ldSuspected \cup {Head(fdChan).id}
                      ELSE ldSuspected \ {Head(fdChan).id}
    /\ pleader' = MaxRank(ldSuspected')
    /\ trustOut' = IF pleader' # pleader THEN Subscriber ELSE {}
    /\ UNCHANGED <<envVars, fdVars, subVars>>

(* A bug: a subscriber with a full channel is passed over.                 *)
PublishPaxosTrustOrDrop(s) ==
    /\ s \in trustOut
    /\ trust' = IF Len(trust[s]) < TrustCap
                THEN [trust EXCEPT ![s] = Append(@, pleader)] ELSE trust
    /\ trustOut' = trustOut \ {s}
    /\ UNCHANGED <<envVars, fdVars, fdChan, ldSuspected, pleader, leader>>

(* publishPaxosTrust: blocks while the subscriber's channel is full.       *)
PublishPaxosTrust(s) ==
    /\ s \in trustOut
    /\ Len(trust[s]) < TrustCap
    /\ trust' = [trust EXCEPT ![s] = Append(@, pleader)]
    /\ trustOut' = trustOut \ {s}
    /\ UNCHANGED <<envVars, fdVars, fdChan, ldSuspected, pleader, leader>>

(* A subscriber's <-trust.                                                 *)
ReceiveTrust(s) ==
    /\ trust[s] # << >>
    /\ leader' = [leader EXCEPT ![s] = Head(trust[s])]
    /\ trust' = [trust EXCEPT ![s] = Tail(@)]
    /\ UNCHANGED <<envVars, fdVars, fdChan, ldVars>>

-----------------------------------------------------------------------------
Next ==
    \/ \E q \in Node : Crash(q) \/ Emit(q) \/ Hear(q)
    \/ Timeout
    \/ \E m \in FdMsg : PublishFdMsg(m)
    \/ HandleFdMsg
    \/ \E s \in Subscriber : PublishPaxosTrust(s) \/ ReceiveTrust(s)

Spec == Init /\ [][Next]_vars

-----------------------------------------------------------------------------
(* Correctness.                                                            *)

(* The last event about q on its way from the Fd to the Ld is e.           *)
LastOnTheWay(q, e) ==
    \/ [event |-> e, id |-> q] \in fdOut
    \/ /\ \A m \in fdOut : m.id # q
       /\ \E i \in 1..Len(fdChan) :
              /\ fdChan[i] = [event |-> e, id |-> q]
              /\ \A j \in (i + 1)..Len(fdChan) : fdChan[j].id # q

(* No event about q is on its way.                                         *)
NoneOnTheWay(q) ==
    /\ \A m \in fdOut : m.id # q
    /\ \A i \in 1..Len(fdChan) : fdChan[i].id # q

(* The Ld ends up with the suspicions of the Fd: once it has handled what  *)
(* is on its way, the two sets are equal.  No event is lost, duplicated    *)
(* with the wrong sense, or overtaken (timeoutProcedure, publishFdMsg,     *)
(* handleFdMsg), however often suspicions change while the Ld is blocked.  *)
SuspicionsReachLd ==
    \A q \in Node :
        \/ NoneOnTheWay(q) /\ (q \in suspected <=> q \in ldSuspected)
        \/ LastOnTheWay(q, "Suspect") /\ q \in suspected
        \/ LastOnTheWay(q, "Restore") /\ q \notin suspected

(* Every subscriber ends up trusting the highest replica the Ld does not   *)
(* suspect: the last leader in its channel, or the one it trusts when the  *)
(* channel is empty, is the Ld's, unless the Ld has yet to send it         *)
(* (checkPaxosLeader, publishPaxosTrust).  So proposer, learner and client *)
(* handler of one replica never settle on different leaders.               *)
TrustReachesSubscribers ==
    /\ pleader = MaxRank(ldSuspected)
    /\ \A s \in Subscriber \ trustOut :
           pleader = IF trust[s] = << >> THEN leader[s]
                                         ELSE trust[s][Len(trust[s])]

(* Nobody on Self ever follows a replica below Self: the detector counts   *)
(* itself as alive, so a proposer gives up leading only to a higher one.   *)
NeverBelowSelf ==
    \A s \in Subscriber :
        /\ leader[s] >= Self
        /\ \A i \in 1..Len(trust[s]) : trust[s][i] >= Self

(* Eventual leader detection: from some point on every subscriber trusts   *)
(* the highest replica that runs, whichever replicas stopped and however   *)
(* often the detector erred before its timeout had grown long enough.      *)
EventualLeader ==
    <>[](\A s \in Subscriber : leader[s] = MaxRank(Node \ up))
=============================================================================
