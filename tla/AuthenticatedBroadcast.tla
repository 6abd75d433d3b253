----------------------- MODULE AuthenticatedBroadcast -----------------------
(***************************************************************************)
(* Package authenticatedbc: a round of Publish and Forward.                *)
(*                                                                         *)
(* An acceptor forwards every Publish it receives.  Connections deliver in *)
(* order, and a learner keeps the first Forward of each replica: forwards  *)
(* are sequences, and each learner reads them from the start.              *)
(***************************************************************************)
EXTENDS Broadcast, Sequences

CONSTANT MaxForward  \* bound: the Forwards of one acceptor in the round

VARIABLES
    pub,        \* the value a correct publisher published
    value,      \* Round.Val of the acceptor
    forwards,   \* the hashes each acceptor sent in Forwards
    handled,    \* how many of them each learner has handled
    lforwards,  \* Round.Forwards of the learner
    decided,    \* learners with Round.Decided; they sent a ValReq
    resp,       \* ValResps on their way to the learner of the same replica
    learned     \* Round.Learned and Val of the learner

accVars == <<value, forwards>>
lrnVars == <<handled, lforwards, decided, resp, learned>>
vars == <<pub, accVars, lrnVars>>

Init ==
    /\ pub = None
    /\ value = [r \in Correct |-> None]
    /\ forwards = [r \in Correct |-> << >>]
    /\ handled = [r \in Learner |-> [q \in Correct |-> 0]]
    /\ lforwards = [r \in Learner |-> Nothing]
    /\ decided = {}
    /\ resp = {}
    /\ learned = {}

(* sendPublish: a Publish of v to every replica.                           *)
Publish(v) ==
    /\ Publisher \in Correct
    /\ pub = None
    /\ pub' = v
    /\ UNCHANGED <<accVars, lrnVars>>

(* handlePublish and sendForward.  A correct publisher's Publish arrives   *)
(* once.                                                                   *)
HandlePublish(r, v) ==
    /\ \/ v = pub /\ forwards[r] = << >>
       \/ Publisher \in Faulty
    /\ Len(forwards[r]) < MaxForward
    /\ value' = [value EXCEPT ![r] = v]
    /\ forwards' = [forwards EXCEPT ![r] = Append(@, v)]
    /\ UNCHANGED <<pub, lrnVars>>

(* The next Forward from q to the learner of r carries v.                  *)
Arrives(r, q, v) ==
    \/ q \in Faulty /\ lforwards[r][q] = None
    \/ /\ q \in Correct
       /\ handled[r][q] < Len(forwards[q])
       /\ v = forwards[q][handled[r][q] + 1]

(* handleForward when the round is not decided: the first Forward of q is  *)
(* stored and counted.                                                     *)
Count(r, q, v) ==
    LET F == [lforwards[r] EXCEPT ![q] = v]
    IN  /\ lforwards' = [lforwards EXCEPT ![r] = F]
        /\ decided' = IF SomeHashAbove(F, 2 * nFaulty)
                      THEN decided \cup {r} ELSE decided

(* A bug: a later Forward of a replica takes the place of its first.       *)
HandleForwardLast(r, q, v) ==
    /\ Arrives(r, q, v)
    /\ handled' = IF q \in Correct
                  THEN [handled EXCEPT ![r][q] = @ + 1] ELSE handled
    /\ IF r \in decided THEN UNCHANGED <<lforwards, decided>>
                        ELSE Count(r, q, v)
    /\ UNCHANGED <<pub, accVars, resp, learned>>

(* handleForward, sendValReq when the round is decided.                    *)
HandleForward(r, q, v) ==
    /\ Arrives(r, q, v)
    /\ handled' = IF q \in Correct
                  THEN [handled EXCEPT ![r][q] = @ + 1] ELSE handled
    /\ IF r \in decided \/ lforwards[r][q] # None
       THEN UNCHANGED <<lforwards, decided>>
       ELSE Count(r, q, v)
    /\ UNCHANGED <<pub, accVars, resp, learned>>

(* sendVal: answers the ValReq with what is stored, the zero Value when no *)
(* Publish has arrived.                                                    *)
SendVal(r) ==
    /\ r \in decided
    /\ \A m \in resp : m.id # r
    /\ resp' = resp \cup {[id |-> r, val |-> value[r]]}
    /\ UNCHANGED <<pub, accVars, handled, lforwards, decided, learned>>

(* storeVal.                                                               *)
StoreVal(m) ==
    /\ m \in resp
    /\ m \notin learned
    /\ learned' = learned \cup {m}
    /\ UNCHANGED <<pub, accVars, handled, lforwards, decided, resp>>

Next ==
    \/ \E v \in Value : Publish(v)
    \/ \E r \in Correct, v \in Value : HandlePublish(r, v)
    \/ \E r \in Learner, q \in Replica, v \in Value : HandleForward(r, q, v)
    \/ \E r \in Learner : SendVal(r)
    \/ \E m \in resp : StoreVal(m)

Spec == Init /\ [][Next]_vars

-----------------------------------------------------------------------------
(* Correctness.                                                            *)

(* The learner of r decided v.                                             *)
Decides(r, v) == Cardinality(From(lforwards[r], v)) > 2 * nFaulty

(* The learners of correct replicas decide the same value, although an     *)
(* acceptor forwards every value a faulty publisher sends it and faulty    *)
(* replicas forward different values to different learners: each learner   *)
(* counts the first Forward of a replica (handleForward).                  *)
LearnersAgree ==
    \A r, s \in decided : \A v, w \in Value :
        Decides(r, v) /\ Decides(s, w) => v = w
=============================================================================
