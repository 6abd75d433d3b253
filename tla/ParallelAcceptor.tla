-------------------------- MODULE ParallelAcceptor --------------------------
(***************************************************************************)
(* One acceptor of ParallelPaxos (package parallelpaxos, acceptor.go): the *)
(* processors take prepares and accepts from the same channels.  A prepare *)
(* is handled under the round lock taken for writing, accepts under the    *)
(* lock taken for reading, so several at a time; what they read and write  *)
(* there is in steps of its own.                                           *)
(*                                                                         *)
(* A round has one value for a slot; a value is named by its round.        *)
(***************************************************************************)
EXTENDS Integers, FiniteSets

CONSTANTS Processor, SlotID, MaxRound

ASSUME AcceptorAssumption == IsFiniteSet(Processor) /\ MaxRound \in Nat

Round == 1..MaxRound   \* 0 is ZeroRound

VARIABLES
    rnd,       \* slots.Rnd
    vrnd,      \* VRnd of each slot
    vval,      \* VVal of each slot
    pc, msg,   \* where a processor is, and the accept it handles
    promised,  \* the highest round promised
    cast       \* votes cast: slot and round

vars == <<rnd, vrnd, vval, pc, msg, promised, cast>>
Accept == [slot : SlotID, rnd : Round]
NoMsg == [slot |-> 0, rnd |-> 0]

Init ==
    /\ rnd = 0
    /\ vrnd = [s \in SlotID |-> 0]
    /\ vval = [s \in SlotID |-> 0]
    /\ pc = [p \in Processor |-> "idle"]
    /\ msg = [p \in Processor |-> NoMsg]
    /\ promised = 0
    /\ cast = {}

Goto(p, l) == pc' = [pc EXCEPT ![p] = l]

(* RUnlock as handleAccept returns.                                        *)
Return(p) == Goto(p, "idle") /\ msg' = [msg EXCEPT ![p] = NoMsg]

(* A bug: a prepare is handled under the lock taken for reading.           *)
HandlePrepareShared(p, r) ==
    /\ pc[p] = "idle"
    /\ rnd < r
    /\ rnd' = r
    /\ promised' = IF r > promised THEN r ELSE promised
    /\ UNCHANGED <<vrnd, vval, pc, msg, cast>>

(* handlePrepare: nobody is in handleAccept.                               *)
HandlePrepare(p, r) ==
    /\ pc[p] = "idle"
    /\ \A q \in Processor : pc[q] = "idle"
    /\ rnd < r
    /\ rnd' = r
    /\ promised' = IF r > promised THEN r ELSE promised
    /\ UNCHANGED <<vrnd, vval, pc, msg, cast>>

(* handleAccept, up to its comparisons.                                    *)
HandleAccept(p, m) ==
    /\ pc[p] = "idle"
    /\ Goto(p, "round")
    /\ msg' = [msg EXCEPT ![p] = m]
    /\ UNCHANGED <<rnd, vrnd, vval, promised, cast>>

CompareRound(p) ==
    /\ pc[p] = "round"
    /\ IF rnd > msg[p].rnd THEN Return(p) ELSE Goto(p, "vrnd") /\ UNCHANGED msg
    /\ UNCHANGED <<rnd, vrnd, vval, promised, cast>>

CompareVRnd(p) ==
    /\ pc[p] = "vrnd"
    /\ IF vrnd[msg[p].slot] = msg[p].rnd
       THEN Return(p) ELSE Goto(p, "higher") /\ UNCHANGED msg
    /\ UNCHANGED <<rnd, vrnd, vval, promised, cast>>

(* The round of the accept is higher: rnd is raised to it.                 *)
CompareHigher(p) ==
    /\ pc[p] = "higher"
    /\ Goto(p, IF rnd < msg[p].rnd THEN "raise" ELSE "vote")
    /\ UNCHANGED <<rnd, vrnd, vval, msg, promised, cast>>

Raise(p) ==
    /\ pc[p] = "raise"
    /\ rnd' = msg[p].rnd
    /\ Goto(p, "vote")
    /\ UNCHANGED <<vrnd, vval, msg, promised, cast>>

(* The vote: VRnd, then VVal.                                              *)
SetVRnd(p) ==
    /\ pc[p] = "vote"
    /\ vrnd' = [vrnd EXCEPT ![msg[p].slot] = msg[p].rnd]
    /\ cast' = cast \cup {msg[p]}
    /\ Goto(p, "val")
    /\ UNCHANGED <<rnd, vval, msg, promised>>

SetVVal(p) ==
    /\ pc[p] = "val"
    /\ vval' = [vval EXCEPT ![msg[p].slot] = msg[p].rnd]
    /\ Goto(p, "learn")
    /\ UNCHANGED <<rnd, vrnd, msg, promised, cast>>

(* The Learn is sent, with what rnd is at that moment for its round.       *)
SendLearn(p) ==
    /\ pc[p] = "learn"
    /\ Return(p)
    /\ UNCHANGED <<rnd, vrnd, vval, promised, cast>>

Next ==
    \E p \in Processor :
        \/ \E r \in Round : HandlePrepare(p, r)
        \/ \E m \in Accept : HandleAccept(p, m)
        \/ CompareRound(p) \/ CompareVRnd(p) \/ CompareHigher(p)
        \/ Raise(p) \/ SetVRnd(p) \/ SetVVal(p) \/ SendLearn(p)

Spec == Init /\ [][Next]_vars

-----------------------------------------------------------------------------
(* Correctness.                                                            *)

(* When the acceptor has promised a round it casts no vote in a lower one, *)
(* however accepts and prepares are spread over the processors: this is    *)
(* what the round lock is for.                                             *)
PromiseKept == [][\A m \in cast' \ cast : m.rnd >= promised]_vars

(* Nor is the acceptor's round ever below what it has promised, although   *)
(* two accepts that raise it may leave the lower of theirs.                *)
RoundCoversPromise == rnd >= promised

(* VRnd is the highest round in which a vote was cast for the slot, which  *)
(* is what a promise has to report. The code violates it: accepts are      *)
(* handled under a lock taken for reading, and the lower round may be      *)
(* written last.                                                           *)
VRndHighest == \A m \in cast : vrnd[m.slot] >= m.rnd

(* VVal is the value voted for in VRnd, when no processor is at the slot.  *)
(* The code violates it, for the same reason.                              *)
VValOfVRnd ==
    \A s \in SlotID :
        (\A p \in Processor : msg[p].slot # s) => vval[s] = vrnd[s]
=============================================================================
