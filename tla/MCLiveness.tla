----------------------------- MODULE MCLiveness -----------------------------
(***************************************************************************)
(* What eventually happens in the components, for TLC.  The components     *)
(* share no state here, so a behaviour is one of a single instance: the    *)
(* initial state says of which, and the variables of the others stay as    *)
(* they are.                                                               *)
(*                                                                         *)
(* "multipaxos": one leader, two acceptors, two learners, two slots, and   *)
(*     two attempts at Phase 1 that may time out.                          *)
(* "detector": the failure and leader detector of a replica that has one   *)
(*     above it and one below, so that it can lead and be led; LeaderDe-   *)
(*     tector is the module that this one extends.                         *)
(* "relbc": reliable broadcast with one of four replicas stopped.          *)
(* "window": a publisher and two learners, alpha of 1, and more rounds     *)
(*     than it takes the number of reports needed to wrap around.          *)
(* "reconfig": two servers and up to two reconfigurations, one at a time.  *)
(* "hold": three holds asked for by the server, whose handler of a         *)
(*     reconfiguration may leave its channel open; two subscribers.        *)
(* "lr": Live Replacement of one of three replicas.                        *)
(* "batch": BatchPaxos with one request of each of two clients.            *)
(* "path": a client with two requests, two replicas, and faults.           *)
(***************************************************************************)
EXTENDS LeaderDetector, TLC

VARIABLES
    instance,
    mpPrepares, mpPromises, mpAccepts, mpLearns, creqs, cresps,
    mpLeader, crnd, mpAdu, nextSlot, proposal, sentCount, reqQueue, p1Promises,
    phaseOneDone, aRnd, vrnd, vval, maxSeen, lslots, mpNext, catchUpInProgress,
    mpAru,
    pub, value, prepares, commits, prepared, committed, lcommits, decided,
    resp, learned,
    current, maxdecided, prevmaxdecided, counts, failedReplicas, wLearned,
    maxlearned, delivered, reports,
    chosen, executed, localAru, adu, config, mode, sDecided, filled, first,
    user, requests, closed, mgr, toPrepare, prepare, ready, held, releases,
    timedOut,
    rnd, vote, ev, lrUp, pes, installing, stuck, eps, epochPromises, lPrepares,
    startEv, promises, phaseOne, used, accepts, lValue, learns, slot,
    next, values, entries, batchMap, bLearns, batchPoints, bCommits,
    bCommitted, execute, bExecuted, batchAru, updates,
    seq, pc, reqSent, failed, redirected, server, sent, pathLeader, reqChan,
    connected, replies, buffer, batchTimer, log, aru, back, breaks, lost, trusts

Mp == INSTANCE MultiPaxos WITH
    Proposer <- {0}, Acceptor <- {"a1", "a2"}, Learner <- {0, 10},
    Value <- {"v1"}, None <- "none", MaxSlot <- 2, MaxRnd <- 0 :> 3,
    Requests <- 0 :> {"v1"}, Alpha <- 1, ResendThreshold <- 1, MaxQueue <- 1,
    prepares <- mpPrepares, promises <- mpPromises, accepts <- mpAccepts,
    learns <- mpLearns, leader <- mpLeader, adu <- mpAdu, next <- mpNext,
    aru <- mpAru

Relbc == INSTANCE ReliableBroadcast WITH
    Replica <- {"r0", "r1", "r2", "r3"}, Publisher <- "r0", Faulty <- {},
    Stopped <- {"r3"}, Learner <- {"r0", "r1", "r2"}, Value <- {"v"},
    Republish <- FALSE, None <- "none"

Window == INSTANCE PublishWindow WITH
    Replica <- {"r1", "r2"}, Alpha <- 1, Total <- 5, Width <- 4,
    learned <- wLearned

Reconfig == INSTANCE Reconfiguration WITH
    Replica <- {"r1", "r2"}, Leader <- "r1", Alpha <- 3, MaxSlot <- 8,
    MaxConfig <- 2, Overlap <- FALSE, MayFail <- FALSE, decided <- sDecided

Group == INSTANCE GroupHold WITH
    Subscriber <- {"s1", "s2"}, Requester <- "server", MaxHold <- 3

Lr == INSTANCE LiveReplacement WITH
    Pid <- 1..3, Replacer <- {<<2, 1>>}, MaxRound <- 1,
    Proposer <- <<<<1, 0>>>>, Learner <- <<0, 0>>,
    prepares <- lPrepares, value <- lValue, up <- lrUp

Batch == INSTANCE BatchPaxos WITH
    Replica <- {"r1", "r2", "r3"}, Clients <- <<"c", "d">>, MaxSeq <- 0,
    MaxBatch <- 1, BatchMaxReq <- 1, learns <- bLearns, commits <- bCommits,
    committed <- bCommitted, executed <- bExecuted

Path == INSTANCE RequestPath WITH
    Replica <- {"r1", "r2"}, Nobody <- "nobody", BatchMaxSize <- 2,
    MaxSeq <- 2, MaxBreaks <- 1, MaxLost <- 1, MaxTrusts <- 1,
    leader <- pathLeader

mpPropVars == <<mpLeader, crnd, mpAdu, nextSlot, proposal, sentCount, reqQueue,
                p1Promises, phaseOneDone>>
mpAccVars == <<aRnd, vrnd, vval, maxSeen>>
mpLrnVars == <<lslots, mpNext, catchUpInProgress, mpAru>>
mpVars == <<mpPrepares, mpPromises, mpAccepts, mpLearns, creqs, cresps,
            mpPropVars, mpAccVars, mpLrnVars>>
detectorVars == vars
relbcVars == <<pub, value, prepares, commits, prepared, committed, lcommits,
               decided, resp, learned>>
windowVars == <<current, maxdecided, prevmaxdecided, counts, failedReplicas,
                wLearned, maxlearned, delivered, reports>>
reconfigVars == <<chosen, executed, localAru, adu, config, mode, sDecided,
                  filled, first>>
groupVars == <<user, requests, closed, mgr, toPrepare, prepare, ready, held,
               releases, timedOut>>
lrVars == <<rnd, vote, ev, lrUp, pes, installing, stuck, eps, epochPromises,
            lPrepares, startEv, promises, phaseOne, used, accepts, lValue,
            learns, slot>>
batchVars == <<next, values, entries, batchMap, bLearns, batchPoints, bCommits,
               bCommitted, execute, bExecuted, batchAru, updates>>
pathVars == <<seq, pc, reqSent, failed, redirected, server, sent, pathLeader,
              reqChan, connected, replies, buffer, batchTimer, log, aru, back,
              breaks, lost, trusts>>

Is(i) == instance = i

MCInit ==
    /\ instance \in {"multipaxos", "detector", "relbc", "window", "reconfig",
                     "hold", "lr", "batch", "path"}
    /\ Mp!Init /\ Init /\ Relbc!Init /\ Window!Init /\ Reconfig!Init
    /\ Group!Init /\ Lr!Init /\ Batch!Init /\ Path!Init
    /\ Is("path") \/ pathLeader = "r1"

Step ==
    \/ /\ Is("multipaxos") /\ Mp!Next
       /\ UNCHANGED <<detectorVars, relbcVars, windowVars, reconfigVars,
                      groupVars, lrVars, batchVars, pathVars>>
    \/ /\ Is("detector") /\ Next
       /\ UNCHANGED <<mpVars, relbcVars, windowVars, reconfigVars,
                      groupVars, lrVars, batchVars, pathVars>>
    \/ /\ Is("relbc") /\ Relbc!Next
       /\ UNCHANGED <<mpVars, detectorVars, windowVars, reconfigVars,
                      groupVars, lrVars, batchVars, pathVars>>
    \/ /\ Is("window") /\ Window!Next
       /\ UNCHANGED <<mpVars, detectorVars, relbcVars, reconfigVars,
                      groupVars, lrVars, batchVars, pathVars>>
    \/ /\ Is("reconfig") /\ Reconfig!Next
       /\ UNCHANGED <<mpVars, detectorVars, relbcVars, windowVars,
                      groupVars, lrVars, batchVars, pathVars>>
    \/ /\ Is("hold") /\ Group!Next
       /\ UNCHANGED <<mpVars, detectorVars, relbcVars, windowVars,
                      reconfigVars, lrVars, batchVars, pathVars>>
    \/ /\ Is("lr") /\ Lr!Next
       /\ UNCHANGED <<mpVars, detectorVars, relbcVars, windowVars,
                      reconfigVars, groupVars, batchVars, pathVars>>
    \/ /\ Is("batch") /\ Batch!Next
       /\ UNCHANGED <<mpVars, detectorVars, relbcVars, windowVars,
                      reconfigVars, groupVars, lrVars, pathVars>>
    \/ /\ Is("path") /\ Path!Next
       /\ UNCHANGED <<mpVars, detectorVars, relbcVars, windowVars,
                      reconfigVars, groupVars, lrVars, batchVars>>

MCNext == Step /\ UNCHANGED instance

MCSpec ==
    MCInit /\ [][MCNext]_<<instance, mpVars, detectorVars, relbcVars, windowVars,
                          reconfigVars, groupVars, lrVars, batchVars, pathVars>>

-----------------------------------------------------------------------------
(* Fairness.  Connections between running replicas deliver, and goroutines *)
(* that can go on do.                                                      *)

ProposerDoes(A) ==
    Is("multipaxos") /\ A /\ UNCHANGED <<mpAccVars, mpLrnVars>>
AcceptorDoes(A) ==
    Is("multipaxos") /\ A /\ UNCHANGED <<mpPropVars, mpLrnVars>>
LearnerDoes(A) ==
    Is("multipaxos") /\ A /\ UNCHANGED <<mpPropVars, mpAccVars>>

(* Clients send requests, timers fire, and the goroutines of proposer,     *)
(* acceptors, learners and servers take what is in their channels.  The    *)
(* bound MaxRnd stands for the point from which on messages are faster     *)
(* than the phase timers.                                                  *)
MpFairness ==
    /\ WF_mpVars(ProposerDoes(mpAdu[0] < mpAru[0] /\ Mp!HandleNewDcd(0)))
    /\ WF_mpVars(ProposerDoes(Mp!HandleProposal(0, "v1")))
    /\ WF_mpVars(ProposerDoes(\E m \in mpPromises : Mp!HandlePromise(0, m)))
    /\ WF_mpVars(ProposerDoes(Mp!PhaseOneTimeout(0)))
    /\ WF_mpVars(ProposerDoes(Mp!ResendAccepts(0)))
    /\ WF_mpVars(ProposerDoes(Mp!ResendLimitReached(0)))
    /\ \A a \in {"a1", "a2"} :
        /\ WF_mpVars(AcceptorDoes(\E m \in mpPrepares : Mp!HandlePrepare(a, m)))
        /\ WF_mpVars(AcceptorDoes(\E m \in mpAccepts : Mp!HandleAccept(a, m)))
    /\ \A l \in {0, 10} :
        /\ WF_mpVars(LearnerDoes(\E m \in mpLearns : Mp!HandleLearn(l, m)))
        /\ WF_mpVars(LearnerDoes(\E m \in creqs : Mp!HandleCatchUpRequest(l, m)))
        /\ WF_mpVars(LearnerDoes(\E m \in cresps : Mp!HandleCatchUpResponse(l, m)))
        /\ WF_mpVars(LearnerDoes(Mp!HandleDecidedVal(l)))

(* The ticker ticks, running replicas keep on emitting, and connections    *)
(* deliver.  Nothing obliges a replica to stop.                            *)
DetectorFairness ==
    /\ \A q \in Node :
        /\ WF_vars(Is("detector") /\ Emit(q))
        /\ WF_vars(Is("detector") /\ Hear(q))
    /\ WF_vars(Is("detector") /\ Timeout)
    /\ WF_vars(Is("detector") /\ \E m \in FdMsg : PublishFdMsg(m))
    /\ WF_vars(Is("detector") /\ HandleFdMsg)
    /\ \A s \in Subscriber :
        /\ WF_vars(Is("detector") /\ PublishPaxosTrust(s))
        /\ WF_vars(Is("detector") /\ ReceiveTrust(s))

RelbcFairness ==
    /\ \A r, q \in Relbc!Correct :
        /\ WF_relbcVars(Is("relbc") /\ Relbc!HandlePrepare(r, q, "v"))
        /\ WF_relbcVars(Is("relbc") /\ Relbc!HandleCommit(r, q, "v"))
        /\ WF_relbcVars(Is("relbc") /\ Relbc!LearnCommit(r, q, "v"))
    /\ \A r \in Relbc!Correct :
        /\ WF_relbcVars(Is("relbc") /\ pub = "v" /\ Relbc!HandlePublish(r, "v"))
        /\ WF_relbcVars(Is("relbc") /\ Relbc!SendVal(r))
    /\ WF_relbcVars(Is("relbc") /\ \E m \in resp : Relbc!StoreVal(m))

(* The ticker ticks and reports arrive; no replica has to learn a round.   *)
WindowFairness ==
    /\ WF_windowVars(Is("window") /\ Window!Tick)
    /\ \A r \in {"r1", "r2"} : WF_windowVars(Is("window") /\ Window!HandleDcdRnd(r))

(* The leader gets its no-ops chosen and servers execute; clients need not *)
(* send anything.                                                          *)
ReconfigFairness ==
    /\ WF_reconfigVars(Is("reconfig") /\ \E s \in 1..8 : Reconfig!Fill("r1", s))
    /\ \A r \in {"r1", "r2"} :
        WF_reconfigVars(/\ Is("reconfig")
                        /\ \E c \in chosen : \/ Reconfig!Execute(r, c)
                                             \/ Reconfig!StartReconfig(r, c)
                                             \/ Reconfig!ExecuteInFill(r, c))

(* Handlers finish their change, and nothing obliges one to fail or the    *)
(* manager to time out.                                                    *)
HoldFairness ==
    /\ WF_groupVars(Is("hold") /\ Group!Mgr)
    /\ WF_groupVars(Is("hold") /\ Group!Close)
    /\ \A s \in {"s1", "s2"} :
        /\ WF_groupVars(Is("hold") /\ Group!HandleGrpHold(s))
        /\ WF_groupVars(Is("hold") /\ Group!Released(s))

(* The handlers of Live Replacement run; Paxos need not.                   *)
LrFairness ==
    /\ WF_lrVars(Is("lr") /\ \E m \in eps : Lr!HandleEpochPromise(<<2, 1>>, m))
    /\ \A i \in Lr!ID :
        /\ WF_lrVars(Is("lr") /\ Lr!HandlePrepareEpoch(i, <<2, 1>>))
        /\ WF_lrVars(Is("lr") /\ Lr!Replace(i))

(* While some replica has a commit or an update to handle, one is handled. *)
BatchFairness ==
    WF_batchVars(/\ Is("batch")
                 /\ \/ \E r \in {"r1", "r2", "r3"} : Batch!HandleCommitMsg(r)
                    \/ \E m \in updates : \/ Batch!HandleUpdateRequest(m)
                                          \/ Batch!HandleUpdateReply(m))

(* Neither a connection has to break nor a leader to change.               *)
PathFairness ==
    /\ WF_pathVars(Is("path") /\ Path!SendRequest)
    /\ WF_pathVars(Is("path") /\ Path!Receive)
    /\ WF_pathVars(Is("path") /\ Path!ReadTimeout)
    /\ WF_pathVars(Is("path") /\ Path!GiveUp)
    /\ \A r \in {"r1", "r2"} :
        /\ WF_pathVars(Is("path") /\ Path!Connect(r))
        /\ WF_pathVars(Is("path") /\ Path!Notice(r))
        /\ WF_pathVars(Is("path") /\ Path!HandleRequest(r))
        /\ WF_pathVars(Is("path") /\ Path!BatchTimeout(r))
        /\ WF_pathVars(Is("path") /\ Path!Execute(r))

-----------------------------------------------------------------------------
(* The properties of the components, each in the instance it is about.     *)

(* Every replica executes every slot for which there are requests          *)
(* (MultiPaxos), by its Learns or by catch-up, though attempts at Phase 1  *)
(* time out and throw requests away.                                       *)
AllExecuted == Is("multipaxos") /\ MpFairness => Mp!AllExecuted

(* Every subscriber trusts the highest replica that runs from some point   *)
(* on (LeaderDetector).                                                    *)
LeaderSettles == Is("detector") /\ DetectorFairness => EventualLeader

(* Every correct learner learns what a correct publisher published         *)
(* (ReliableBroadcast), with nFaulty replicas stopped.                     *)
RelbcAllLearn == Is("relbc") /\ RelbcFairness => Relbc!AllLearn

(* The publisher gets rid of its queue though learners may stop            *)
(* (PublishWindow): what the ticker that forces rounds is for.             *)
AllPublished == Is("window") /\ WindowFairness => Window!AllPublished

(* A server that waits in handlePreReconfig for its slots to be filled     *)
(* ends with it (Reconfiguration).                                         *)
ReconfigEnds == Is("reconfig") /\ ReconfigFairness => Reconfig!ReconfigEnds

(* Nobody stays held, and every hold asked for ends, unless the manager    *)
(* waits for a channel that handleReconfigCmd left open (GroupHold).       *)
HoldsEnd == Is("hold") /\ HoldFairness => Group!HoldsEnd

(* A replacer that was announced is activated by handleEpochPromise        *)
(* (LiveReplacement).                                                      *)
ReplacerActivates == Is("lr") /\ LrFairness => Lr!ReplacerActivates

(* Every replica executes every committed batch, whatever requests it      *)
(* misses (BatchPaxos): one UpdateRequest is enough.                       *)
CommittedExecuted == Is("batch") /\ BatchFairness => Batch!CommittedExecuted

(* Every request ends, answered or given up (RequestPath), although        *)
(* connections break, proposals get lost and leaders change.               *)
AllEnd == Is("path") /\ PathFairness => Path!AllEnd
=============================================================================
