---------------------------- MODULE MultiLearner ----------------------------
(***************************************************************************)
(* The learner of package multipaxos, without Live Replacement, and the    *)
(* server loop that executes what it decides.                              *)
(*                                                                         *)
(* A learned slot waits until every slot before it is learned; then it is  *)
(* marked Decided and its value goes to the server over decidedChan.  Both *)
(* happen in one handler, so the decided slots are exactly those below     *)
(* next, and decidedChan holds those above the server's localAru.          *)
(***************************************************************************)
EXTENDS Paxos

VARIABLES
    lslots,             \* per slot: Rnd, the replicas in Learns, Learned, LearnedVal
    next,               \* next slot to decide
    catchUpInProgress,  \* a catch-up request awaits its response
    aru                 \* the server's localAru: slots executed

lrnVars == <<lslots, next, catchUpInProgress, aru>>

LearnerSlot == [rnd : OwnedRound \cup {ZeroRound}, from : SUBSET Acceptor,
                learned : BOOLEAN, val : Value \cup {None}]

LrnTypeOK ==
    /\ lslots \in [Learner -> [Slot -> LearnerSlot]]
    /\ next \in [Learner -> 1..(MaxSlot + 1)]
    /\ catchUpInProgress \in [Learner -> BOOLEAN]
    /\ aru \in [Learner -> 0..MaxSlot]
    /\ \A l \in Learner, s \in Slot :
           lslots[l][s].learned => lslots[l][s].val \in Value

LrnInit ==
    /\ lslots = [l \in Learner |-> [s \in Slot |->
                    [rnd |-> ZeroRound, from |-> {},
                     learned |-> FALSE, val |-> None]]]
    /\ next = [l \in Learner |-> 1]
    /\ catchUpInProgress = [l \in Learner |-> FALSE]
    /\ aru = [l \in Learner |-> 0]

(* LearnerSlot.Decided.                                                    *)
Decided(l, s) == s < next[l]

(* The loop around advance: hand every consecutive learned slot of the     *)
(* updated slot map ls to the server.                                      *)
Advance(l, ls) ==
    \E n \in next[l]..(MaxSlot + 1) :
        /\ \A s \in next[l]..(n - 1) : ls[s].learned
        /\ n <= MaxSlot => ~ls[n].learned
        /\ next' = [next EXCEPT ![l] = n]

(* genCatchUpReq: ask the leader for every slot from next up to the one    *)
(* just learned.  No slot from next on is decided, so getUndecSlots yields *)
(* this one range.  The trust channel may have delivered any leader to     *)
(* this learner; a request to a node that runs no learner is lost.         *)
StartCatchUp(l, s) ==
    \/ /\ ~catchUpInProgress[l]
       /\ catchUpInProgress' = [catchUpInProgress EXCEPT ![l] = TRUE]
       /\ \E ldr \in Proposer \ {l} :
            creqs' = IF ldr \in Learner
                     THEN creqs \cup {[id |-> l, dest |-> ldr,
                                       from |-> next[l], to |-> s - 1]}
                     ELSE creqs
    \/ /\ catchUpInProgress[l] \/ l \in Proposer
       /\ UNCHANGED <<catchUpInProgress, creqs>>

(* handleLrn: what slot m.slot becomes.  A higher round starts over.       *)
AddLearn(sl, m) ==
    LET restart == RoundLess(sl.rnd, m.rnd)
        voted == (IF restart THEN {} ELSE sl.from) \cup {m.id}
    IN  [sl EXCEPT !.rnd = m.rnd, !.from = voted,
                   !.learned = IsQuorum(voted),
                   !.val = IF IsQuorum(voted) THEN m.val ELSE @]

(* <-learnChan: handleLrn and, when it completes a quorum, learnVal.  A    *)
(* quorum for a slot below next would reach learnVal's panic.              *)
HandleLearn(l, m) ==
    LET sl == lslots[l][m.slot]
        ls == [lslots[l] EXCEPT ![m.slot] = AddLearn(sl, m)]
    IN  /\ ~sl.learned
        /\ ~RoundLess(m.rnd, sl.rnd)
        /\ RoundLess(sl.rnd, m.rnd) \/ m.id \notin sl.from
        /\ lslots' = [lslots EXCEPT ![l] = ls]
        /\ \/ /\ ~ls[m.slot].learned
              /\ UNCHANGED <<next, catchUpInProgress, creqs>>
           \/ /\ ls[m.slot].learned
              /\ m.slot = next[l]
              /\ Advance(l, ls)
              /\ UNCHANGED <<catchUpInProgress, creqs>>
           \/ /\ ls[m.slot].learned
              /\ m.slot > next[l]
              /\ StartCatchUp(l, m.slot)
              /\ UNCHANGED next
        /\ UNCHANGED <<aru, prepares, promises, accepts, learns, cresps>>

(* <-creqChan: answer with the decided slots of the range.                 *)
HandleCatchUpRequest(l, m) ==
    /\ m.dest = l
    /\ cresps' = cresps \cup
         {[id |-> l, dest |-> m.id,
           vals |-> {[slot |-> s, val |-> lslots[l][s].val] :
                        s \in {t \in m.from..m.to : Decided(l, t)}}]}
    /\ UNCHANGED <<lslots, next, catchUpInProgress, aru, prepares, promises,
                   accepts, learns, creqs>>

(* <-crespChan: learn what is still unlearned, then decide what follows.   *)
HandleCatchUpResponse(l, m) ==
    LET missing == {d \in m.vals : ~lslots[l][d.slot].learned}
        ls == [s \in Slot |->
                 IF \E d \in missing : d.slot = s
                 THEN [lslots[l][s] EXCEPT !.learned = TRUE,
                         !.val = (CHOOSE d \in missing : d.slot = s).val]
                 ELSE lslots[l][s]]
    IN  /\ m.dest = l
        /\ lslots' = [lslots EXCEPT ![l] = ls]
        /\ catchUpInProgress' = [catchUpInProgress EXCEPT ![l] = FALSE]
        /\ Advance(l, ls)
        /\ UNCHANGED <<aru, netVars>>

(* A bug: one decided value advances localAru by two.                      *)
HandleDecidedValCountedTwice(l) ==
    /\ aru[l] + 1 < next[l]
    /\ aru' = [aru EXCEPT ![l] = @ + 2]
    /\ UNCHANGED <<lslots, next, catchUpInProgress, netVars>>

(* The server's <-decidedChan for a value of type App with one request:    *)
(* execute, answer the client, increment localAru, signal the proposer.    *)
HandleDecidedVal(l) ==
    /\ aru[l] + 1 < next[l]
    /\ aru' = [aru EXCEPT ![l] = @ + 1]
    /\ UNCHANGED <<lslots, next, catchUpInProgress, netVars>>

LrnNext ==
    \E l \in Learner :
        \/ \E m \in learns : HandleLearn(l, m)
        \/ \E m \in creqs : HandleCatchUpRequest(l, m)
        \/ \E m \in cresps : HandleCatchUpResponse(l, m)
        \/ HandleDecidedVal(l)
=============================================================================
