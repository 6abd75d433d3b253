-------------------------- MODULE ReliableBroadcast --------------------------
(***************************************************************************)
(* Package reliablebc: a round of Publish, Prepare and Commit.             *)
(*                                                                         *)
(* A replica sends its Prepare and its Commit to everybody, so prepared[r] *)
(* and committed[r], the hashes it sent, are the messages; SentPrepare and *)
(* SentCommit say whether there are any.                                   *)
(***************************************************************************)
EXTENDS Broadcast

CONSTANT Republish  \* bound: whether a faulty publisher publishes again

VARIABLES
    pub,        \* the value a correct publisher published
    value,      \* AcceptorRound.Value
    prepares,   \* AcceptorRound.Prepares
    commits,    \* AcceptorRound.Commits
    prepared,   \* the hashes each acceptor sent in a Prepare
    committed,  \* the hashes each acceptor sent in a CommitA and a Commit
    lcommits,   \* LearnerRound.Commits
    decided,    \* learners with LearnerRound.Decided; they sent a ValReq
    resp,       \* ValResps on their way to the learner of the same replica
    learned     \* LearnerRound.Learned and Val

accVars == <<value, prepares, commits, prepared, committed>>
lrnVars == <<lcommits, decided, resp, learned>>
vars == <<pub, accVars, lrnVars>>

Response == [id : Learner, val : Value \cup {None}]

(* Types.                                                                  *)
TypeOK ==
    /\ pub \in Value \cup {None}
    /\ value \in [Correct -> Value \cup {None}]
    /\ prepares \in [Correct -> Received]
    /\ commits \in [Correct -> Received]
    /\ prepared \in [Correct -> SUBSET Value]
    /\ committed \in [Correct -> SUBSET Value]
    /\ lcommits \in [Learner -> Received]
    /\ decided \subseteq Learner
    /\ resp \subseteq Response
    /\ learned \subseteq Response

Init ==
    /\ pub = None
    /\ value = [r \in Correct |-> None]
    /\ prepares = [r \in Correct |-> Nothing]
    /\ commits = [r \in Correct |-> Nothing]
    /\ prepared = [r \in Correct |-> {}]
    /\ committed = [r \in Correct |-> {}]
    /\ lcommits = [r \in Learner |-> Nothing]
    /\ decided = {}
    /\ resp = {}
    /\ learned = {}

-----------------------------------------------------------------------------
(* The acceptor.                                                           *)

(* sendPublish: a Publish of v to every replica.                           *)
Publish(v) ==
    /\ Publisher \in Correct
    /\ pub = None
    /\ pub' = v
    /\ UNCHANGED <<accVars, lrnVars>>

(* sendPrepare: the acceptor handles its own Prepare at once, and ignores  *)
(* what handlePrepare returns; P is what it has stored before.             *)
SendPrepare(r, v, P) ==
    /\ prepared' = [prepared EXCEPT ![r] = @ \cup {v}]
    /\ prepares' = [prepares EXCEPT ![r] =
                        IF committed[r] = {} /\ P[r] = None
                        THEN [P EXCEPT ![r] = v] ELSE P]

(* sendCommit: the same with its own CommitA.                              *)
SendCommit(r, v, C) ==
    /\ committed' = [committed EXCEPT ![r] = @ \cup {v}]
    /\ commits' = [commits EXCEPT ![r] =
                       IF C[r] = None THEN [C EXCEPT ![r] = v] ELSE C]

(* What handlePrepare and handleCommit do when a threshold is reached: a   *)
(* Prepare if none was sent yet, then a Commit, both with the hash of the  *)
(* message that is being handled.                                          *)
PrepareAndCommit(r, v, P, C) ==
    /\ IF prepared[r] = {}
       THEN SendPrepare(r, v, P)
       ELSE prepares' = [prepares EXCEPT ![r] = P] /\ UNCHANGED prepared
    /\ SendCommit(r, v, C)

(* handlePublish: stores the value, whatever it prepared before.           *)
HandlePublish(r, v) ==
    /\ v = pub \/ (Publisher \in Faulty /\ (value[r] = None \/ Republish))
    /\ value' = [value EXCEPT ![r] = v]
    /\ IF prepared[r] = {}
       THEN SendPrepare(r, v, prepares[r])
       ELSE UNCHANGED <<prepares, prepared>>
    /\ UNCHANGED <<pub, commits, committed, lrnVars>>

(* handlePrepare of a Prepare from q.                                      *)
HandlePrepare(r, q, v) ==
    LET P == [prepares[r] EXCEPT ![q] = v]
    IN  /\ q # r
        /\ MayReceive(prepared, q, v)
        /\ committed[r] = {}
        /\ prepares[r][q] = None
        /\ IF SomeHashAbove(P, 2 * nFaulty)
           THEN PrepareAndCommit(r, v, P, commits[r])
           ELSE /\ prepares' = [prepares EXCEPT ![r] = P]
                /\ UNCHANGED <<prepared, commits, committed>>
        /\ UNCHANGED <<pub, value, lrnVars>>

(* A bug: Commits are counted although a Commit was sent.                  *)
HandleCommitAgain(r, q, v) ==
    LET C == [commits[r] EXCEPT ![q] = v]
    IN  /\ q # r
        /\ MayReceive(committed, q, v)
        /\ commits[r][q] = None
        /\ IF SomeHashAbove(C, nFaulty)
           THEN PrepareAndCommit(r, v, prepares[r], C)
           ELSE /\ commits' = [commits EXCEPT ![r] = C]
                /\ UNCHANGED <<prepares, prepared, committed>>
        /\ UNCHANGED <<pub, value, lrnVars>>

(* A bug: Commits are counted but never answered with a Commit.            *)
HandleCommitSilently(r, q, v) ==
    /\ q # r
    /\ MayReceive(committed, q, v)
    /\ committed[r] = {}
    /\ commits[r][q] = None
    /\ commits' = [commits EXCEPT ![r][q] = v]
    /\ UNCHANGED <<pub, value, prepares, prepared, committed, lrnVars>>

(* handleCommit of a CommitA from q.                                       *)
HandleCommit(r, q, v) ==
    LET C == [commits[r] EXCEPT ![q] = v]
    IN  /\ q # r
        /\ MayReceive(committed, q, v)
        /\ committed[r] = {}
        /\ commits[r][q] = None
        /\ IF SomeHashAbove(C, nFaulty)
           THEN PrepareAndCommit(r, v, prepares[r], C)
           ELSE /\ commits' = [commits EXCEPT ![r] = C]
                /\ UNCHANGED <<prepares, prepared, committed>>
        /\ UNCHANGED <<pub, value, lrnVars>>

(* sendVal: answers the ValReq with what is stored, the zero Value when no *)
(* Publish has arrived.                                                    *)
SendVal(r) ==
    /\ r \in decided
    /\ \A m \in resp : m.id # r
    /\ resp' = resp \cup {[id |-> r, val |-> value[r]]}
    /\ UNCHANGED <<pub, accVars, lcommits, decided, learned>>

-----------------------------------------------------------------------------
(* The learner.                                                            *)

(* handleCommit of the learner, sendValReq when the round is decided.      *)
LearnCommit(r, q, v) ==
    LET C == [lcommits[r] EXCEPT ![q] = v]
    IN  /\ MayReceive(committed, q, v)
        /\ r \notin decided
        /\ lcommits[r][q] = None
        /\ lcommits' = [lcommits EXCEPT ![r] = C]
        /\ decided' = IF SomeHashAbove(C, 2 * nFaulty)
                      THEN decided \cup {r} ELSE decided
        /\ UNCHANGED <<pub, accVars, resp, learned>>

(* storeVal.                                                               *)
StoreVal(m) ==
    /\ m \in resp
    /\ m \notin learned
    /\ learned' = learned \cup {m}
    /\ UNCHANGED <<pub, accVars, lcommits, decided, resp>>

-----------------------------------------------------------------------------
Next ==
    \/ \E v \in Value : Publish(v)
    \/ \E r \in Correct, v \in Value : HandlePublish(r, v)
    \/ \E r \in Correct, q \in Replica, v \in Value :
           HandlePrepare(r, q, v) \/ HandleCommit(r, q, v)
    \/ \E r \in Learner, q \in Replica, v \in Value : LearnCommit(r, q, v)
    \/ \E r \in Learner : SendVal(r)
    \/ \E m \in resp : StoreVal(m)

Spec == Init /\ [][Next]_vars

-----------------------------------------------------------------------------
(* Correctness.                                                            *)

(* No two values are decidable in a round: with at most nFaulty faulty     *)
(* replicas, a publisher that sends different values to different          *)
(* acceptors and acceptors that commit both included, no two learners can  *)
(* decide different values (SentCommit, the thresholds).                   *)
Agreement ==
    \A v, w \in Value :
        Decidable(committed, v) /\ Decidable(committed, w) => v = w

(* The learner of r decided v.                                             *)
Decides(r, v) == Cardinality(From(lcommits[r], v)) > 2 * nFaulty

(* The learners of correct replicas decide the same value.                 *)
LearnersAgree ==
    \A r, s \in decided : \A v, w \in Value :
        Decides(r, v) /\ Decides(s, w) => v = w

(* A Commit carries a hash with a quorum of Prepares, or one that was      *)
(* committed by more than nFaulty others: what comparePrepares and         *)
(* compareCommits need not tell, by the comment on them, as they are       *)
(* called right after a message was added. The code violates it:           *)
(* sendPrepare drops the result of adding its own Prepare, and the next    *)
(* Prepare, of any hash, is taken for the decided one.                     *)
CommitsJustified ==
    \A r \in Correct : \A v \in committed[r] :
        \/ Cardinality(From(prepares[r], v)) > 2 * nFaulty
        \/ Cardinality(From(commits[r], v) \ {r}) > nFaulty

(* The value a learner gets from its acceptor is the one that was decided. *)
(* The code violates it: Commits may decide the round before the Publish   *)
(* is here, and the acceptor answers with a zero value.                    *)
LearnsDecidedValue ==
    \A m \in learned : m.val # None /\ Decides(m.id, m.val)

(* When a correct publisher publishes, every correct learner decides and   *)
(* learns something, with up to nFaulty replicas stopped: that an acceptor *)
(* ignores the quorum its own Prepare completes stops nobody.              *)
AllLearn == (pub # None) ~> (\A r \in Learner : \E m \in learned : m.id = r)
=============================================================================
