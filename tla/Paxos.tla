------------------------------- MODULE Paxos -------------------------------
(***************************************************************************)
(* What package paxos shares between the actors of MultiPaxos: rounds,     *)
(* slots, the messages, and the network the actors exchange them over.     *)
(*                                                                         *)
(* A node is its PaxosID: with neither Live Replacement nor asynchronous   *)
(* reconfiguration enabled every grp.ID has epoch 0, so comparing two IDs  *)
(* is comparing two PaxosIDs.  The demuxer hands each concrete message     *)
(* type to its own channel, hence one variable per message type.  A        *)
(* message, once sent, stays in its set: it may be delivered to any of its *)
(* receivers late, in any order relative to others, or never (the sender   *)
(* drops a message when a connection's queue is full, and a connection may *)
(* break).  Delivery is a read, so a message may also arrive twice; an     *)
(* Accept really does, because the proposer resends it.                    *)
(***************************************************************************)
EXTENDS Integers, FiniteSets

CONSTANTS
    Proposer, Acceptor, Learner,  \* the nodes that run each role
    Value,                        \* client commands
    None,                         \* the zero paxos.Value
    MaxSlot,                      \* bound: slots are 1..MaxSlot
    MaxRnd                        \* bound: where each proposer's Rnd counter stops

ASSUME NodeAssumption ==
    /\ Proposer \subseteq Nat
    /\ IsFiniteSet(Proposer)
    /\ IsFiniteSet(Acceptor)
    /\ Proposer # {}
ASSUME ValueAssumption == None \notin Value
ASSUME BoundAssumption == 
    /\ MaxSlot \in Nat \ {0}
    /\ MaxRnd \in [Proposer -> Nat \ {0}]

Slot == 1..MaxSlot

-----------------------------------------------------------------------------
(* paxos.ProposerRound: a counter and the proposer that owns the round.    *)

Round == Nat \X Nat

(* The rounds the proposers can get to.                                    *)
OwnedRound == UNION {{<<n, p>> : n \in 1..MaxRnd[p]} : p \in Proposer}

ZeroRound == <<0, 0>>

(* ProposerRound.Compare = -1: by counter, then by owner.                  *)
RoundLess(r1, r2) ==
    \/ r1[1] < r2[1]
    \/ r1[1] = r2[1] /\ r1[2] < r2[2]

(* NodeMap.Quorum, derived from the number of acceptors.                   *)
Quorum == Cardinality(Acceptor) \div 2 + 1

IsQuorum(S) == Cardinality(S) >= Quorum

-----------------------------------------------------------------------------
(* The messages of paxos/msg.go.  Lists of acceptor slots and of caught-up *)
(* values are sets; the destination of a Promise is the owner of its       *)
(* round, that of a catch-up message the field "dest".                     *)

(* The zero paxos.AcceptorSlot. *)
ZeroSlot == [id |-> 0, vrnd |-> ZeroRound, vval |-> None]

AcceptorSlot == [id : Slot, vrnd : OwnedRound, vval : Value] \cup {ZeroSlot}

PrepareMsg == [id : Proposer, crnd : OwnedRound, slot : 0..MaxSlot]
PromiseMsg == [id : Acceptor, rnd : OwnedRound, accslots : SUBSET AcceptorSlot]
AcceptMsg == [id : Proposer, rnd : OwnedRound, slot : Slot, val : Value]
LearnMsg == [id : Acceptor, rnd : OwnedRound, slot : Slot, val : Value]
CatchUpRequest == [id : Learner, dest : Learner, from : Slot, to : Slot]
CatchUpResponse ==
    [id : Learner, dest : Learner,
     vals : SUBSET [slot : Slot, val : Value]]

VARIABLES
    prepares, promises, accepts, learns,  \* the Paxos messages sent so far
    creqs, cresps                         \* the catch-up messages sent so far

netVars == <<prepares, promises, accepts, learns, creqs, cresps>>

NetTypeOK ==
    /\ prepares \subseteq PrepareMsg
    /\ promises \subseteq PromiseMsg
    /\ accepts \subseteq AcceptMsg
    /\ learns \subseteq LearnMsg
    /\ creqs \subseteq CatchUpRequest
    /\ cresps \subseteq CatchUpResponse

NetInit ==
    /\ prepares = {}
    /\ promises = {}
    /\ accepts = {}
    /\ learns = {}
    /\ creqs = {}
    /\ cresps = {}

(* The acceptors whose Learn for slot s carries round r and value v.       *)
VotersFor(s, r, v) ==
    {m.id : m \in {n \in learns : n.slot = s /\ n.rnd = r /\ n.val = v}}

(* A quorum has voted for v in slot s in one round: v is chosen.           *)
Chosen(s, v) ==
    \E m \in learns :
        m.slot = s /\ m.val = v /\ IsQuorum(VotersFor(s, m.rnd, v))
=============================================================================
