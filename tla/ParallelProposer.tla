-------------------------- MODULE ParallelProposer --------------------------
(***************************************************************************)
(* The proposer of ParallelPaxos (package parallelpaxos, proposer.go,      *)
(* proposer_demuxer.go, proposer_processor.go): a demuxer that does phase  *)
(* 1, numbers the requests and says up to which slot to send accepts, and  *)
(* processors that take requests from a shared queue for their own slots.  *)
(* The commands to the processors, and their answers that all is decided   *)
(* up to a slot, are sent by goroutines of their own: they arrive in any   *)
(* order.                                                                  *)
(*                                                                         *)
(* The slots are decided in their order, as the learner does, when an      *)
(* accept was sent for them, or while another replica leads.  A vote that  *)
(* a promise reports is named by its round, a request by its number.       *)
(***************************************************************************)
EXTENDS Integers, Sequences, FiniteSets, TLC

CONSTANTS
    Acceptor,
    NumProcessors,    \* parallelPaxosProposers
    Alpha,
    QueueSize,        \* of reqQueue
    UintSize,         \* numbers are modulo this
    MaxSlot, MaxRequests, MaxRound,
    Reports,          \* the slots an acceptor may report
    MaxVRnd           \* the rounds of other replicas, in which votes are reported

Slot == 1..MaxSlot
Proc == 0..(NumProcessors - 1)
Quorum == Cardinality(Acceptor) \div 2 + 1
ProcOf(s) == s % NumProcessors
Uint(n) == n % UintSize
NoProposal == -1

VARIABLES
    isLeader,          \* leader = id
    crnd,              \* how often the round was raised
    phase1done,
    phase1promises,    \* by acceptor: VRnd of the slots it reports
    adu, next, reqQueueLength, aduInProcessor,   \* of the demuxer
    reqQueue, requests,                          \* requests that came
    sendAccepts,       \* commands on their way to a processor
    command,           \* the command a processor executes
    pnext, padu,       \* next and adu of each processor
    proposal, isDecided,  \* slots of the processors
    advanceChan,       \* messages of the processors to the demuxer
    accepts,           \* accepts sent
    decided            \* how many slots the learner has decided

demuxer == <<isLeader, crnd, phase1done, phase1promises, adu, next,
             reqQueueLength, aduInProcessor>>
processor == <<command, pnext, padu, proposal, isDecided>>
vars == <<demuxer, reqQueue, requests, sendAccepts, processor, advanceChan,
          accepts, decided>>

NoPromise == << >>
NoCommand == [upTo |-> 0, crnd |-> 0]
Report == UNION {[ss -> 0..MaxVRnd] : ss \in SUBSET Reports}

Init ==
    /\ isLeader = FALSE
    /\ crnd = 0
    /\ phase1done = FALSE
    /\ phase1promises = NoPromise
    /\ adu = 0 /\ next = 1 /\ reqQueueLength = 0
    /\ aduInProcessor = [p \in Proc |-> 0]
    /\ reqQueue = <<>> /\ requests = 0
    /\ sendAccepts = {}
    /\ command = [p \in Proc |-> NoCommand]
    /\ pnext = [p \in Proc |-> IF p = 0 THEN NumProcessors ELSE p]
    /\ padu = [p \in Proc |-> 0]
    /\ proposal = [s \in Slot |-> NoProposal]
    /\ isDecided = [s \in Slot |-> FALSE]
    /\ advanceChan = {}
    /\ accepts = {}
    /\ decided = 0

-----------------------------------------------------------------------------
(* The demuxer.                                                            *)

(* demuxerStartPhase1                                                      *)
StartPhase1 ==
    /\ crnd < MaxRound
    /\ crnd' = crnd + 1
    /\ phase1done' = FALSE
    /\ phase1promises' = NoPromise

(* demuxerHandleTrust                                                      *)
HandleTrust(me) ==
    /\ me # isLeader
    /\ isLeader' = me
    /\ IF me THEN StartPhase1
       ELSE UNCHANGED <<crnd, phase1done, phase1promises>>
    /\ UNCHANGED <<adu, next, reqQueueLength, aduInProcessor, reqQueue, requests,
                   sendAccepts, processor, advanceChan, accepts, decided>>

(* demuxerHandlePhaseTick                                                  *)
HandlePhaseTick ==
    /\ isLeader /\ ~phase1done
    /\ StartPhase1
    /\ UNCHANGED <<isLeader, adu, next, reqQueueLength, aduInProcessor, reqQueue,
                   requests, sendAccepts, processor, advanceChan, accepts, decided>>

(* A bug: the last slot for which there is a request is one too high.      *)
SignalToSendAcceptsLast(a, len, rnd) ==
    LET last == Uint(next + len)
        upTo == IF Uint(a + Alpha) < last THEN Uint(a + Alpha) ELSE last
    IN  /\ sendAccepts' = sendAccepts \cup
              {[proc |-> p, upTo |-> upTo, crnd |-> rnd] : p \in Proc}
        /\ reqQueueLength' = Uint(len - (upTo - next))
        /\ next' = Uint(next + (upTo - next))

(* demuxerSignalToSendAccepts, with adu a and len requests waiting.        *)
SignalToSendAccepts(a, len, rnd) ==
    LET last == Uint(next + len - 1)
        upTo == IF Uint(a + Alpha) < last THEN Uint(a + Alpha) ELSE last
    IN  /\ sendAccepts' = sendAccepts \cup
              {[proc |-> p, upTo |-> upTo, crnd |-> rnd] : p \in Proc}
        /\ reqQueueLength' = Uint(len - (upTo - next))
        /\ next' = Uint(next + (upTo - next))

(* ProcessPromises of the slot's processor: what an acceptor reports takes *)
(* the place of a proposal whose round is not lower.                       *)
Processed(s, promises) ==
    LET rounds == {promises[a][s] : a \in {b \in DOMAIN promises : s \in DOMAIN promises[b]}}
        all == rounds \cup (IF proposal[s] = NoProposal THEN {} ELSE {proposal[s]})
    IN  IF s <= padu[ProcOf(s)] \/ rounds = {} THEN proposal[s]
        ELSE CHOOSE v \in all : \A w \in all : v <= w

(* demuxerHandlePromise of acceptor a for the current round; with a quorum *)
(* demuxerFinishPhase1, which waits for each processor.                    *)
HandlePromise(a, report) ==
    /\ crnd > 0 /\ ~phase1done
    /\ a \notin DOMAIN phase1promises
    /\ LET promises == (a :> report) @@ phase1promises
       IN  /\ phase1promises' = promises
           /\ IF Cardinality(DOMAIN promises) < Quorum
              THEN UNCHANGED <<phase1done, next, reqQueueLength, sendAccepts, proposal>>
              ELSE /\ \A p \in Proc : command[p] = NoCommand
                   /\ proposal' = [s \in Slot |-> Processed(s, promises)]
                   /\ phase1done' = TRUE
                   /\ SignalToSendAccepts(adu, reqQueueLength, crnd)
    /\ UNCHANGED <<isLeader, crnd, adu, aduInProcessor, reqQueue, requests,
                   command, pnext, padu, isDecided, advanceChan, accepts, decided>>

(* demuxerHandleNewRequest; a request is dropped when the queue is full.   *)
HandleNewRequest ==
    /\ isLeader => requests < MaxRequests
    /\ IF isLeader /\ Len(reqQueue) < QueueSize
       THEN /\ requests' = requests + 1
            /\ reqQueue' = Append(reqQueue, requests')
            /\ IF phase1done THEN SignalToSendAccepts(adu, reqQueueLength + 1, crnd)
               ELSE /\ reqQueueLength' = reqQueueLength + 1
                    /\ UNCHANGED <<next, sendAccepts>>
       ELSE UNCHANGED <<requests, reqQueue, reqQueueLength, next, sendAccepts>>
    /\ UNCHANGED <<isLeader, crnd, phase1done, phase1promises, adu, aduInProcessor,
                   processor, advanceChan, accepts, decided>>

(* demuxerHandleAdvance                                                    *)
HandleAdvance(m) ==
    /\ m \in advanceChan
    /\ advanceChan' = advanceChan \ {m}
    /\ aduInProcessor' = [aduInProcessor EXCEPT ![m.proc] = m.adu]
    /\ IF \A p \in Proc : aduInProcessor[p] >= aduInProcessor[m.proc]
       THEN /\ adu' = m.adu
            /\ IF isLeader /\ phase1done
               THEN SignalToSendAccepts(m.adu, reqQueueLength, crnd)
               ELSE UNCHANGED <<next, reqQueueLength, sendAccepts>>
       ELSE UNCHANGED <<adu, next, reqQueueLength, sendAccepts>>
    /\ UNCHANGED <<isLeader, crnd, phase1done, phase1promises, reqQueue, requests,
                   processor, accepts, decided>>

-----------------------------------------------------------------------------
(* The processors.                                                         *)

(* The learner decides the next slot: demuxerDemuxDecided hands it to its  *)
(* processor, which is not executing a command; HandleDecided.             *)
HandleDecided(s) ==
    /\ s = decided + 1
    /\ ~isLeader \/ \E a \in accepts : a.slot = s
    /\ decided' = s
    /\ LET p == ProcOf(s)
       IN  /\ command[p] = NoCommand
           /\ IF s = p \/ s = padu[p] + NumProcessors
              THEN /\ padu' = [padu EXCEPT ![p] = s]
                   /\ advanceChan' = advanceChan \cup {[proc |-> p, adu |-> s]}
              ELSE UNCHANGED <<padu, advanceChan>>
    /\ isDecided' = [isDecided EXCEPT ![s] = TRUE]
    /\ UNCHANGED <<demuxer, reqQueue, requests, sendAccepts, command, pnext,
                   proposal, accepts>>

(* A processor takes a command.                                            *)
TakeCommand(m) ==
    /\ m \in sendAccepts
    /\ command[m.proc] = NoCommand
    /\ sendAccepts' = sendAccepts \ {m}
    /\ command' = [command EXCEPT ![m.proc] =
          IF pnext[m.proc] <= m.upTo THEN [upTo |-> m.upTo, crnd |-> m.crnd]
          ELSE NoCommand]
    /\ UNCHANGED <<demuxer, reqQueue, requests, pnext, padu, proposal, isDecided,
                   advanceChan, accepts, decided>>

(* SendAccepts, one slot of its loop.                                      *)
SendAccept(p) ==
    /\ command[p] # NoCommand
    /\ reqQueue # <<>>
    /\ accepts' = accepts \cup
          {[slot |-> pnext[p], rnd |-> command[p].crnd, val |-> Head(reqQueue)]}
    /\ reqQueue' = Tail(reqQueue)
    /\ pnext' = [pnext EXCEPT ![p] = @ + NumProcessors]
    /\ command' = [command EXCEPT ![p] = IF pnext'[p] <= @.upTo THEN @ ELSE NoCommand]
    /\ UNCHANGED <<demuxer, requests, sendAccepts, padu, proposal, isDecided,
                   advanceChan, decided>>

Next ==
    \/ \E me \in BOOLEAN : HandleTrust(me)
    \/ HandlePhaseTick
    \/ \E a \in Acceptor, r \in Report : HandlePromise(a, r)
    \/ HandleNewRequest
    \/ \E m \in advanceChan : HandleAdvance(m)
    \/ \E s \in Slot : HandleDecided(s)
    \/ \E m \in sendAccepts : TakeCommand(m)
    \/ \E p \in Proc : SendAccept(p)

Spec == Init /\ [][Next]_vars

-----------------------------------------------------------------------------
(* Correctness.                                                            *)

(* A processor that is to send an accept finds a request in the queue: the *)
(* demuxer's count of requests, the commands in any order and the queue    *)
(* the processors share agree.                                             *)
QueueSuffices == \A p \in Proc : command[p] # NoCommand => reqQueue # <<>>

(* No accept is for a slot more than alpha beyond what is decided, however *)
(* late the demuxer hears of decisions.                                    *)
AlphaRespected == \A a \in accepts : a.slot <= decided + Alpha

(* When no message of a processor is on its way, adu is the slot up to     *)
(* which all is decided. The code violates it: each AduMsg is sent by a    *)
(* goroutine of its own, and the last to arrive counts.                    *)
AduAllDecided == advanceChan = {} => adu = decided

(* The value of a vote that was reported; it is no request of this run.    *)
Voted(r) == -r

(* In a slot for which a vote was copied from the promises, an accept of   *)
(* the round has the value of that vote. The code violates it: SendAccepts *)
(* takes a new request for every slot.                                     *)
ReportedProposed ==
    \A a \in accepts :
        a.rnd = crnd /\ phase1done /\ proposal[a.slot] > 0
            => a.val = Voted(proposal[a.slot])
=============================================================================
