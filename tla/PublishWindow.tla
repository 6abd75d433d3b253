---------------------------- MODULE PublishWindow ----------------------------
(***************************************************************************)
(* The rounds of the broadcast protocols: the publisher, which keeps alpha *)
(* rounds open and forces the next one when nothing is decided, and the    *)
(* learners, which deliver rounds in order and report to the publisher.    *)
(* Both packages have the same code for it.                                *)
(*                                                                         *)
(* That a published round is learned is a step here: ReliableBroadcast and *)
(* AuthenticatedBroadcast have what leads to it.  The value of a round is  *)
(* the round's place in the publisher's queue.  Rounds are fewer than the  *)
(* round storage holds, so none is dropped from it.                        *)
(***************************************************************************)
EXTENDS Integers, Sequences, FiniteSets, FiniteSetsExt

CONSTANTS
    Replica,
    Alpha,
    Total,  \* nrOfPublications
    Width   \* the width of a uint, in bits

VARIABLES
    current,         \* RelPublisher.currentRnd
    maxdecided,
    prevmaxdecided,
    counts,          \* RelPublisher.decided
    failedReplicas,
    learned,         \* rounds with LearnerRound.Learned, per learner
    maxlearned,      \* RelLearner.maxlearned
    delivered,       \* rounds sent on dcdChan, in order
    reports          \* DcdRnds on their way to the publisher

pubVars == <<current, maxdecided, prevmaxdecided, counts, failedReplicas>>
lrnVars == <<learned, maxlearned, delivered>>
vars == <<pubVars, lrnVars, reports>>

nAcceptors == Cardinality(Replica)

(* genPublish: publishes while the window and the queue allow.             *)
GenPublish(cur, dec) == Max({cur, Min({dec + Alpha, Total})})

Init ==
    /\ maxdecided = 0
    /\ prevmaxdecided = 0
    /\ current = GenPublish(0, 0)
    /\ counts = [d \in 0..Total |-> 0]
    /\ failedReplicas = 0
    /\ learned = [r \in Replica |-> {}]
    /\ maxlearned = [r \in Replica |-> 0]
    /\ delivered = [r \in Replica |-> << >>]
    /\ reports = [r \in Replica |-> << >>]

-----------------------------------------------------------------------------
(* The learner.                                                            *)

(* The first round from rnd on that is not in L.                           *)
EndOfRun(rnd, L) == Min({e \in rnd..(Total + 1) : e \notin L})

Interval(a, b) == [i \in 1..(b - a) |-> a + i - 1]

(* sendDecided when round rnd may be delivered: it and the learned rounds  *)
(* that follow it go to the server, one report each to the publisher,      *)
(* numbered from max on.                                                   *)
Deliver(r, rnd, max) ==
    LET end == EndOfRun(rnd, learned'[r])
    IN  /\ delivered' = [delivered EXCEPT ![r] = @ \o Interval(rnd, end)]
        /\ reports' = [reports EXCEPT
                           ![r] = @ \o Interval(max, max + end - rnd)]
        /\ maxlearned' = [maxlearned EXCEPT ![r] = max + end - rnd]

(* storeVal and sendDecided: the round after the last delivered one is     *)
(* delivered, one more than alpha ahead is delivered out of turn, and      *)
(* others are held.                                                        *)
Learn(r, rnd) ==
    /\ rnd \in 0..(current - 1)
    /\ rnd \notin learned[r]
    /\ learned' = [learned EXCEPT ![r] = @ \cup {rnd}]
    /\ IF maxlearned[r] + Alpha < rnd
       THEN Deliver(r, rnd, maxlearned[r] + 1)
       ELSE IF maxlearned[r] + 1 = rnd
            THEN Deliver(r, rnd, maxlearned[r])
            ELSE UNCHANGED <<delivered, reports, maxlearned>>
    /\ UNCHANGED pubVars

-----------------------------------------------------------------------------
(* The publisher.                                                          *)

(* How many reports decide a round; the subtraction wraps around.  A bug:  *)
(* one report is enough.                                                   *)
NeededOne == 1
Needed == (nAcceptors - failedReplicas) % 2^Width

(* <-dcdChan.                                                              *)
HandleDcdRnd(r) ==
    LET d == Head(reports[r])
    IN  /\ reports[r] # << >>
        /\ reports' = [reports EXCEPT ![r] = Tail(@)]
        /\ IF d > maxdecided
           THEN /\ counts' = [counts EXCEPT ![d] = @ + 1]
                /\ maxdecided' = IF counts'[d] >= Needed THEN d
                                                         ELSE maxdecided
                /\ current' = GenPublish(current, maxdecided')
           ELSE UNCHANGED <<counts, maxdecided, current>>
        /\ UNCHANGED <<prevmaxdecided, failedReplicas, lrnVars>>

(* A bug: nothing is forced.                                               *)
TickIdle ==
    /\ current < Total
    /\ prevmaxdecided' = maxdecided
    /\ UNCHANGED <<current, maxdecided, counts, failedReplicas, lrnVars,
                   reports>>

(* <-ticker.C: when nothing was decided since the last tick, the next      *)
(* round is forced.  With an empty queue a tick changes nothing more.      *)
Tick ==
    /\ current < Total
    /\ IF maxdecided = prevmaxdecided
       THEN /\ maxdecided' = maxdecided + 1
            /\ failedReplicas' = failedReplicas + 1
            /\ current' = GenPublish(current, maxdecided + 1)
       ELSE UNCHANGED <<maxdecided, failedReplicas, current>>
    /\ prevmaxdecided' = maxdecided'
    /\ UNCHANGED <<counts, lrnVars, reports>>

Next ==
    \/ \E r \in Replica, rnd \in 0..Total : Learn(r, rnd)
    \/ \E r \in Replica : HandleDcdRnd(r)
    \/ Tick

Spec == Init /\ [][Next]_vars

-----------------------------------------------------------------------------
(* Correctness.                                                            *)

(* As long as no round was forced, the publisher waits for every learner:  *)
(* no round further than alpha ahead of a learner is open, and each        *)
(* learner has delivered rounds 1, 2, ... in order and once.  Round 0 is   *)
(* never delivered, as maxlearned starts at 0.                             *)
WaitsForAll ==
    failedReplicas = 0 =>
        \A r \in Replica :
            /\ current <= maxlearned[r] + Alpha
            /\ delivered[r] = Interval(1, maxlearned[r] + 1)

(* Decides are sent for the learned rounds in the correct order, as the    *)
(* comment on sendDecided has it. The code violates it once a round is     *)
(* forced: a round more than alpha ahead is delivered at once, and again   *)
(* when those before it are.                                               *)
InOrder ==
    \A r \in Replica : \A i, j \in 1..Len(delivered[r]) :
        i < j => delivered[r][i] < delivered[r][j]

(* The publisher gets rid of its queue although learners may stop: the     *)
(* ticker forces rounds, and a failedReplicas above nAcceptors, where the  *)
(* count of reports needed wraps around, does not keep it from doing so.   *)
AllPublished == <>(current = Total)
=============================================================================
