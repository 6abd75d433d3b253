# A TLA+ verification of goxos

goxos is a framework for replicated state machines in Go. A service links it in,
implements an `app.Handler`, and every replica executes the same client commands in
the same order. The order comes from one of several protocols (MultiPaxos by default;
BatchPaxos, ParallelPaxos and two broadcast protocols as alternatives), a replica that
fails can be replaced (Live Replacement, reconfiguration, asynchronous
reconfiguration), and clients talk to the replicas over TCP.

This directory holds TLA+ modules that model the code, TLC configurations that check
them on small instances, and TLAPS proofs that hold for every instance. `PROJECT.json`
maps each definition to the source lines it translates.

* [Inventory](#inventory): the system's parts
* [The model](#the-model): modules, and how they correspond to the code
* [The runs](#the-runs): what TLC checks, within which bounds, under which fairness
* [Disagreements](#disagreements): where the code does not do what it says
* [The proofs](#the-proofs): what holds for every instance, and why
* [Not modelled](#not-modelled)
* [The plan](#the-plan)

## Inventory

A replica is one process. Its modules are goroutines that own their state and exchange
values over bounded Go channels; the demuxer hands every message that arrives from the
network to the channel registered for its type.

```
 clients --> client handler --> server --propChan--> proposer --+
                 ^                 ^  \--propDcdChan--^         |  outBroadcast /
                 |   responses     |                            |  outUnicast
                 +-----------------+<--decidedChan-- learner    v
   failure detector --> leader detector --trust--> proposer,  sender ==> network
        ^                                          learner, server          |
        +---- heartbeats <-- demuxer <======================================+
```

| Component | State | Operations | What is hard | What makes it correct |
|---|---|---|---|---|
| `multipaxos` proposer | current round, adu, next slot, retained proposals and their resend counts, request queue, promises | new decided slot, client value, trust, promise, Phase 1 timeout, Phase 2 timeout | two leaders at once; late promises; proposals kept across rounds; a restart of Phase 1 in the middle of a resend | one value per slot; only current Accepts are resent; the alpha window is kept |
| `multipaxos` acceptor | promised round, a vote per slot, highest slot seen | Prepare, Accept | Prepare and Accept of different rounds interleave; duplicates | a promise accounts for every lower vote |
| `multipaxos` learner | Learns per slot, learned and decided slots, next, catch-up flag | Learn, catch-up request and response | gaps, Learns of several rounds, answers that arrive late | agreement; no slot is decided twice or out of order; `learnVal` never panics |
| `paxos` | rounds, slot maps, message types | `Compare`, `Next`, `GetSlot` | ties between proposers | rounds are totally ordered and owned |
| `server` | localAru, the paxos leader, batches | execute decided value, batch requests, reconfigure, state transfer | localAru counts requests, slots are counted elsewhere; errors while modules are held | every slot is executed once, in order; a change of group ends |
| `liveness` | alive and suspected sets, timeout; leader | heartbeat, tick, suspect and restore events, hold | wrong suspicions; blocking publications; adaptive timeout | eventually all live replicas trust the same live one |
| `grp` | node map, quorum, subscribers to holds | request hold, release, new node map | the request returns before anybody is held; the second hold; error returns that leave a hold open | no module runs while the group changes; holds end, unless a channel is left open |
| `net` | connections and their queues, registered channels | send, broadcast, receive | full queues drop, full channels block | modules tolerate loss |
| `client` (at the client) | connection, its lock, flags shared by all clients, outstanding requests | send, receive, handshake, reconnect | goroutines per request and per connection; broken connections | a flag that is set and a lock that is taken have an owner; every request ends |
| `client` (at the replica) | connected clients, last replies | request, response, redirect | a request sent again after it was batched, decided or executed | executed no more often than sent, first executions in order |
| `lr` | epochs, epoch promises, held modules | prepare epoch, epoch promise, activation | the replacer's acceptor state is assembled from others; two replacements at once | the replacer's round covers what the replaced one helped to choose; quorums are valid |
| `arec` | configurations, CPromises, activations | reconfiguration message, CPromise, activation | concurrent proposals of configurations | at most one configuration runs, as long as no more than two replacements are made at once; the one before has stopped |
| `reconfig` | queue, flag, lock | message, propose, completed | flag, lock and two unbuffered channels between two goroutines, which may wait for each other | no message is lost or handled twice |
| `batchpaxos` | log per client, batches, batchpoints, commits | request, learn, commit, update | a batchpoint drops clients; requests missing at a replica | same requests in the same order, none left out |
| `parallelpaxos` | as MultiPaxos, spread over goroutines | as MultiPaxos | read locks, a token, commands and answers out of order | promises are kept, processors deliver in turn, no accept without a request |
| `reliablebc`, `authenticatedbc` | per round: publish, prepares, commits, forwards; the publisher's window | publish, prepare, commit, forward; tick | a publisher that sends different values; rounds forced by the ticker | correct replicas learn the same; the publisher waits for learners but never for ever |
| `ringreplacer`, `nodeinit` | the node watched; standby nodes | suspicion; set-up of a node | waits on the detector that feeds it | see [Not modelled](#not-modelled) |
| `kvs`, `bftpubsub`, `app`, `launch`, `config`, `elog`, `exp` | applications, start-up, settings, logging, measurement | | | outside the replication logic |

The hazards this code is exposed to, each at the line where it bites, are listed in
`PROJECT.json` with the properties that are about them.

## The model

| Module | Models |
|---|---|
| `Paxos` | package `paxos` (rounds, slots, messages), the quorum of `grp`, the network as MultiPaxos sees it |
| `MultiAcceptor`, `MultiProposer`, `MultiLearner` | `multipaxos/acceptor.go`, `proposer.go`, `learner.go` with the server's execution of decided values |
| `MultiPaxos` | the composition of the three for a static group, and its correctness properties |
| `ReplicatedLog` | the abstract specification of what a group promises |
| `MultiPaxosInv` | the inductive invariant |
| `LeaderDetector` | package `liveness` on one replica: failure detector, leader detector, the channels between them and to the subscribers |
| `Broadcast` | what the broadcast protocols share: replicas, faults, thresholds |
| `ReliableBroadcast`, `AuthenticatedBroadcast` | a round of `reliablebc`, of `authenticatedbc` |
| `PublishWindow` | the publisher's window over rounds and the delivery by learners (the same code in both) |
| `Reconfiguration` | `server/handle_reconfig.go` and `run.go`: slots, windows and configurations |
| `ReconfigHandler` | `reconfig/reconfig.go` and the server it talks to |
| `GroupHold` | `grp/grpmgr_imp.go`, its subscribers, and the three modules that ask for holds |
| `LiveReplacement` | package `lr`, and the `...Lr` handlers of `multipaxos` |
| `AsyncReconfiguration` | package `arec` |
| `BatchPaxos` | package `batchpaxos` |
| `ParallelAcceptor`, `ParallelLearner`, `ParallelProposer` | package `parallelpaxos` |
| `ClientConnection` | the client's `replicaconn.go` and `serviceconnection.go` |
| `RequestPath` | a request's way from client to client handler, batch, log, execution and back |
| `BroadcastParts`, `ReconfigurationParts`, `VariantParts`, `ClientParts` | modules of one package, of one part of the system, or (`VariantParts`) of the two variants of Paxos, side by side: each with its own variables, and the properties of all, so that they are checked by one run and proved about in one module |
| `MC...` | instances for TLC |
| `...Proofs` | theorems and proofs |

A composition exists where components share state: `MultiPaxos` composes acceptors,
proposers and learners; `RequestPath` composes client, client handler and server over an
abstract log; `LiveReplacement` composes the replacement handlers with the Paxos handlers
that count epochs; `ReconfigHandler` and `GroupHold` compose a module with those it waits
for.

**Steps.** Each goroutine's select case is one action. Where a handler touches only its
own state and the channels it sends on, taking it as atomic loses no interleaving, and
the whole handler is in the action. Where it does not, it is split at the places where
others can come in between: at a lock (`ClientConnection`), at a blocking send
(`LeaderDetector`, `ReconfigHandler`, `GroupHold`), at each read and write of shared
memory (`ParallelAcceptor`), where a goroutine is started that does the rest
(`LiveReplacement`, `ParallelProposer`). Inputs that a handler ignores without any change
of state are not steps, unless a property is about that.

### MultiPaxos

| Code | Model |
|---|---|
| `MultiProposer.Start`: newDcdChan, propChan, trust, promiseChan, phaseOneTimer, phaseTwoTimer | `HandleNewDcd`, `HandleProposal`, `HandleTrust`, `HandlePromise`, `PhaseOneTimeout`, `ResendAccepts` or `ResendLimitReached` |
| `startPhaseOne(true)`, `startPhaseOne(false)` | `StartPhaseOneClear`, `StartPhaseOne` within `ResendLimitReached` |
| `setStateFromPromises`, `sendAccept`, `genAccept`, `inAlphaRange` | `SetStateFromPromises`, `SendAccept`, `AcceptVal`, `InAlphaRange` |
| `handlePrep`, `handleAcc` | `HandlePrepare`, `HandleAccept` (`VoteFor` or `IgnoreAccept`) |
| `handleLrn`, `learnVal`, `adv`, `genCatchUpReq` | `HandleLearn` with `AddLearn`, `Advance`, `StartCatchUp` |
| `handleCUReq`, `handleCUResp` | `HandleCatchUpRequest`, `HandleCatchUpResponse` |
| `Server.handleDecidedVal` | `HandleDecidedVal` |

The configuration is the default one: no failure handling (all epochs are 0, so a node is
its PaxosID, and no module is ever held) and one request per value, so that localAru
counts slots. `alpha` and the resend limit are constants. The loop of `sendAccept` is not
unrolled: `Sendable` is the set of slots it reaches, `AcceptVal` the value each gets.

*Network.* A sent message stays in the set of its type, and delivering it is reading it.
It may be delivered late, never, in any order and more than once. The code's TCP
connections deliver in order and at most once while they last, and drop when a queue is
full: every behaviour of theirs is one of the model, so the safety results carry over.
One detail of the code is covered by this too: a resent Accept is a pointer, which the
demuxer's type switch does not recognise, so the proposer's own acceptor never gets the
second copy. Timers may fire at any time.

*Channels between modules of a node.* `decidedChan` holds the slots in
`aru + 1 .. next - 1`, and `propDcdChan` one signal for each slot in
`adu + 1 .. aru`: both follow from the learner deciding and the server executing in
slot order. Their capacities are not modelled.

*Leader.* Which node a proposer, or a learner choosing where to ask for catch-up,
trusts is any proposer at any time: the detectors' errors and delays are all included, so
safety needs nothing of `LeaderDetector`, which models where the trust messages come from.

*Roles and crashes.* `config.GetNodeMap` gives every node all three roles. `MultiPaxos`
takes the sets of proposers, acceptors and learners separately; an instance in which a
node lacks a role is one in which that part of it never takes a step. Nothing is on disk:
a stopped replica does not come back as itself, and is a replica that takes no step.

*Zero values.* `None`, `ZeroRound` and `ZeroSlot` are Go's zero values. An acceptor asked
about slots beyond the highest it has seen reports zero-valued slots in front of its
votes; the model keeps them (`AccSlots`). A proposal copied from a vote has slot 0
(`SetStateFromPromises`), since only its round and value are set.

### Detectors

| Code | Model |
|---|---|
| `HbEm.Start`; `Fd.Start`: heartbeatChan, ticker | `Emit`; `Hear`, `Timeout` with `Increased`, `AliveNow` |
| `publishFdMsg`, `publishPaxosTrust` | `PublishFdMsg`, `PublishPaxosTrust`: one send each, which waits while the channel is full |
| `handleFdMsg`, `checkPaxosLeader`, `maxRank` | `HandleFdMsg`, `MaxRank` |

`timeoutProcedure` and `checkPaxosLeader` publish in the middle of a handler and block
while a channel is full, so what is left to publish is state (`fdOut`, `trustOut`), and
the goroutine returns to its select when it is empty. The timeout is counted in
increases, not in milliseconds. The detectors of two replicas share nothing but messages,
so one replica is modelled among others that emit heartbeats and may stop.

### Broadcast

`ReliableBroadcast` and `AuthenticatedBroadcast` have one round; rounds meet only in
`PublishWindow`. A faulty replica sends any value to anybody; a message with a wrong MAC
is dropped by every handler, so nobody sends in the name of a correct replica. A value
stands for its hash. `HandlePublish`, `HandlePrepare`, `HandleCommit` are the acceptor's
handlers with what `sendPrepare` and `sendCommit` hand back to the replica itself,
`LearnCommit` and `StoreVal` the learner's, `SendVal` the acceptor's answer to it. In
`AuthenticatedBroadcast` connections deliver in order, for a learner keeps the first
Forward of each replica. In `PublishWindow` the number of reports needed is a difference
of unsigned numbers (`Needed`, with `Width` bits), as every tick without progress counts
one replica more as failed.

### Reconfiguration

`Reconfiguration`: a slot is chosen in one step, by a proposer whose window it is in, in
the configuration its replica has; consensus within a configuration is `MultiPaxos`.
`StartReconfig` is `handleReconfigCmd` up to its wait, `ExecuteInFill` a turn of the wait's
loop (`handlePreReconfig`), `Fill` the leader's no-ops, `FailReconfig` and `AbortReconfig`
the error returns before the hold (`server/handle_reconfig.go:32`); those after it (line 72
on) are in `GroupHold` only, as `ReturnWithoutClose`. `ReconfigHandler` has a program counter
for the handler's goroutine and one for the server's, the lock, the flag and the queue. The
two may wait for each other for ever: the server hands over a queued message while it keeps
the lock, and a handler that has just received another one waits for that lock
(`reconfig/reconfig.go:133`). That is a state of the model, and no property is about it.

`GroupHold`: the manager (`StartHold`, `SendPrepare`, `GroupReady` or `GroupReadyTimeout`,
`AllowAccess`, `HoldRelease`), a subscriber (`HandleGrpHold`, `Released`) and the module that
asks (`RequestHold`, `Reconnect`, `Close`). The constant `Requester` says which module that
is, as they differ: `arec` waits until the manager allows access before it changes the
epoch, `lr` and the server change the node map at once, and the server may return without
closing its channel (`ReturnWithoutClose`); then the manager waits for ever, and whoever is
held stays so (`LeftOpen`, `Stuck`). Subscribers wait on the release channel they got
when they subscribed, which the first release closes for good: so `HeldDuringChange` is a
property of `arec`'s first hold only, and in later ones nobody waits.

### Live Replacement and asynchronous reconfiguration

`LiveReplacement`: an ID is a PaxosID with an epoch, a replica has a vector of epochs, and
`Conflict` says when two vectors exclude each other; `ValidQuorums` is what the code finds by
iterating over combinations (`vq.go`, `comb_iterator.go`). `HandlePrepareEpoch` sends the
EpochPromise, `Replace` changes the node map later; between the two the replica is held
(`Running`). Vectors are slices that messages share with the node map, so a message on
its way may carry a later vector (`Carried`). One slot above the slot marker is enough for the
question which votes survive.

`AsyncReconfiguration`: an epoch is a number made from a PaxosID and a counter, a
configuration the replicas of an epoch. `HandleReconfMsg` is one of `IgnoreReconfMsg`,
`Postpone` and `StopPaxos`; `HandleCPromise` activates an epoch when a quorum of the one
before has promised. What an acceptor voted is left out; that it is paused is
`valid = FALSE`.

### BatchPaxos and ParallelPaxos

`BatchPaxos`: `HandleRequest`, `HandleBatchTimeout`, `HandleLearnMsg` (at the leader),
`HandleCommitMsg`, `HandleUpdateRequest` and `HandleUpdateReply` with `TryToAdvance`; the
batchpoint algorithms (`Intersect`, `Greater`, `MakeRangeMap`, `GetIncompleteRanges`) are
operators of the same names. An entry in a replica's log for a client it has only been
asked about counts as one (`entries`), as `GetRange` makes it.

`ParallelAcceptor` has one step per read or write of the slot under the read lock.
`ParallelLearner` has the channels and the token of the processors; the token is made at the
processor that the first learn goes to, whatever slot it is for (`starter`). `ParallelProposer` has the
demuxer (`HandleTrust`, `HandlePhaseTick`, `HandlePromise`, `HandleNewRequest`,
`HandleAdvance`) and the processors (`HandleDecided`, `TakeCommand`, `SendAccept`); commands
and answers are in sets, since each is sent by a goroutine of its own. Slot numbers
are modulo `UintSize`.

### Clients

`ClientConnection` has the goroutines of a client as threads with a program counter:
the dialer, a sender per request, a receiver per handshake. Any of them may run
`handshake` (`CheckHandShaking`, `MarkHandShaking`, `Lock`, `Connect`, `ReadHello`, `Release`)
and `reconnect`. `RequestPath` has the client with one request out at a time, the client
handler (`HandleRequest`: redirect, answer from `replies`, or batch), the batch and its timer,
and the execution with its response. Requests are numbered from 0 (`genReq`), and a redirect
is read as the answer to request 0 (`Receive`): which ends it, in `redirected`, if it is the
one that is out. Of Paxos there is only that proposals are put in one order or lost.

## The runs

Instances that share no state are put together in one run where they ask about the same
part of the system: the variable `instance` (or `protocol`) is chosen in the initial state
and never changes, the other instances' variables stay as they are, and a property is
about the instance it names. The states of such a run are the sum of those of its
instances, not their product.

| Run | Instances | Checks |
|---|---|---|
| `rounds` | MultiPaxos: 2 proposers, 3 rounds between them, 3 acceptors, 1 slot | `ChosenUnique`, `PromiseComplete`, `ResendsOwnAccepts` |
| `learn` | MultiPaxos: 2 proposers with one round each, 2 acceptors, 2 learners (the higher proposer and a node that is none), 2 slots | `Agreement`, `AlphaRespected`, `FullInv` (the inductive invariant of the proofs), the refinement `ImplementsLog` |
| `broadcast` | 4 replicas with a faulty publisher and 2 values, in both protocols; a publisher, 2 learners and 6 rounds with alpha 3 | `Agreement`, `AuthbcAgrees`, `WaitsForAll` |
| `reconfig` | 3 servers and 8 slots with alpha 3, reconfigurations also during another one; 2 servers that may fail to reach the new node; the handler with 4 messages; 3 holds with 3 subscribers, asked for by `arec`; asynchronous reconfiguration by two of three replicas at once | `OneConfigPerSlot`, `SameConfig`, `AruCountsSlots`, `EachInOnePlace`, `HeldDuringChange`, `OldEpochStopped`, `OneEpochRuns` |
| `replacement` | 3 replicas, 2 of which are replaced, at once or one after the other, during a round; 1 of which is replaced while a learner counts | `ReplacerCoversChosen`, `PromisesValid`, `LearnedByQuorum` |
| `variants` | ParallelPaxos: an acceptor with 2 processors, 2 slots, 2 rounds; a learner with 2 processors, 3 slots, 2 rounds; a proposer with 2 processors, alpha 2, 2 rounds. BatchPaxos: 3 replicas, 2 batches; one request of each of two clients, or two of one | `PromiseKept`, `DeliversInTurn`, `QueueSuffices`, `SameOrder`, `NoRequestSkipped` |
| `clients` | a client with 3 requests, 2 replicas, batches of 2, 2 broken connections, 1 change of leader, 1 loss; the goroutines of a client with 2 requests and 2 connections | `ExecutedAsSent`, `FirstInOrder`, `FlagsHaveOwner` |
| `liveness` | nine small instances (head of `MCLiveness`), among them MultiPaxos: 1 proposer with 2 rounds, 2 acceptors, 2 learners, 2 slots; the detectors: replicas 0, 1, 2 seen from 1, 2 subscribers, channels of capacity 2 (suspicions) and 1 (trust), timeout increases up to 2 | safety: `SuspicionsReachLd`, `TrustReachesSubscribers`; under fairness: `AllExecuted`, `LeaderSettles`, `RelbcAllLearn`, `AllPublished`, `ReconfigEnds`, `HoldsEnd`, `ReplacerActivates`, `CommittedExecuted`, `AllEnd` |
| `lr_votes` | 1 of 3 replicas replaced | violation of `VotesTransferred` |
| `parprop_reported` | a ParallelPaxos proposer that is told of a vote | violation of `ReportedProposed` |
| `variants_order` | the learner of `variants` | violation of `InOrder` |
| `clients_used` | a client with 2 requests out on 1 connection | violation of `UsedByOne` |

Each property of a passing run has a mutant in `PROJECT.json`: an operator (its comment
begins "A bug") beside the one it replaces, under which the run fails.

**Bounds.** Those in guards are named by constants: rounds (`MaxRnd`, `MaxRound`), slots
(`MaxSlot`), configurations, holds, batches, requests, connections, faults. The instances
of `MultiPaxos` have `Alpha = 1`, a resend limit of 1 (10 in the code: it only says how many
resends precede the restart of Phase 1) and a queue bound of 1. A proposer starts in round 1
and first moves to round 2, so `MaxRnd = 3` is a leader that restarts Phase 1 once. Three
rounds are the fewest in which a retained proposal meets a vote of a higher round (a
proposer leads, loses to the other, leads again). Three acceptors give quorums that differ
in two members; two suffice for the questions about windows and learners. Two slots with
alpha 1 make the window move and let a learner have a gap. Reconfiguration has alpha 3, so
that two slots are filled, and slots enough for two reconfigurations. Four replicas are the
fewest with a faulty one. `Width` is 4 bits, and in `liveness` the rounds suffice for the
number of failed replicas to pass that of acceptors, so the difference wraps around. Channels of
capacities 2 and 1 (quorum and 4 in the code) fill up at once, so both detectors get blocked; Self
is in the middle, with a replica above it to lose and to regain, and one below it never to
follow. The second hold is the first in which subscribers find a closed channel; there are
three. In `variants` a parallel proposer has no more requests than alpha, so only the half of
`QueueSuffices` about the queue can fail there; the theorem has both for any number. Two
requests of a client are the fewest of which one may be sent while another's goroutine
reconnects. For the properties that are also proved the bounds are no weakness.

**Symmetry** is used where nothing orders the elements: acceptors, values of the
broadcasts, learners that differ in nothing, replicas of BatchPaxos and of `RequestPath`.
Proposers and PaxosIDs are ordered, and no run that checks liveness uses symmetry.

**Deadlock** is checked by no run. The instances stop when their rounds, slots or requests
are used up, and share runs with others that do; that nobody waits for ever is a liveness
property (`LeaderSettles`, `HoldsEnd`, `ReconfigEnds`, `AllEnd`). It does not hold of
`ReconfigHandler`, whose two goroutines may wait for each other (see [the model](#reconfiguration)).

**Fairness.** Always weak fairness of a goroutine that can go on or of a connection that has
something to deliver, which the Go scheduler and TCP between running replicas give.

`MCLiveness` puts the fairness of an instance into the property that needs it, beside the
instance.

* `DetectorFairness`: `Emit`, `Hear`, `Timeout`, the two publications, `HandleFdMsg`,
  `ReceiveTrust`. Partial synchrony is the guard of `Timeout`: once the timeout has grown by
  `Bound` increases, each running replica is heard from in every period. Nothing obliges a
  replica to stop. With a timeout that never grows the property fails (its mutant).
* `MpFairness`: the handlers, timers, and clients that send again. The leader is
  settled, and `MaxRnd` stands for the point from which on messages are faster than the
  phase timers. Messages are never lost for good there: a learner whose catch-up request
  and Learns are both lost does stay behind for ever (`catchUpInProgress` is reset only by a
  response).
* The others: handlers of running replicas in `relbc`; the ticker and arriving reports in
  `window`, while no replica has to learn anything; the leader's no-ops and the servers in
  `reconfig`, while clients send nothing; manager, subscribers and a server that
  finishes its change in `hold`, while no timeout has to come, and an error return that leaves the
  channel open may, in which case the manager is `Stuck`; the handlers of `lr`; some
  commit or update that waits in `batch`; in `path` everything but broken connections, losses
  and changes of leader, which are bounded.

## Disagreements

Where the code does not do what a comment or log message in it says. The first four have a
run. For each of the others the module has a definition, marked "The code violates it",
which TLC refutes on an instance like those of the runs (or the one named).

| Definition | What happens |
|---|---|
| `LiveReplacement.VotesTransferred` | `extractAcceptorState` assigns the slot with the highest vote to a local variable (`lr/ep_handle.go:81`): a replacer starts without votes under every strategy. |
| `ParallelProposer.ReportedProposed` | `SendAccepts` takes a new request for every slot (`parallelpaxos/proposer_processor.go:121`): votes reported in promises are stored and never proposed. |
| `ParallelLearner.InOrder` | The token is made where the first learn goes to (`parallelpaxos/learner.go:219`): if that is the processor of slot 2, slot 2 is delivered first, and the server, which numbers what it is handed (`server/run.go:116`), executes it as slot 1. Replicas may differ. |
| `ClientConnection.UsedByOne` | `read` and `write` "are not thread-safe" (`client/ioutils.go:11`). `Send` starts a goroutine per request and leaves it to the application to wait; `write` takes the lock for reading only (`client/replicaconn.go:103`), so two goroutines write on a connection at a time. |
| `MultiPaxos.ReportsAboveAdu` | "Should not happen, but lets check it anyway" (`multipaxos/proposer.go:250`): it happens whenever adu is voted for, as the Prepare asks from adu on. The check is needed. |
| `ReliableBroadcast.CommitsJustified` | `sendPrepare` discards the result of adding its own Prepare (`relbcacceptor.go:245`); the next one, of any hash, is taken for the decided one. Agreement survives. |
| `ReliableBroadcast.LearnsDecidedValue` | A round decided by Commits before its Publish is here is learned with a zero value (`relbcacceptor.go:388`), and never asked for again. |
| `PublishWindow.InOrder` | A round more than alpha ahead is delivered at once, and again after those before it (`relbclearner.go:190`, `authlearner.go:184`). Needs a forced round. |
| `Reconfiguration.FirstSlotIsNew` | "the first slot in a new configuration" (`reconfig/msg.go:14`) is the last of the old one: localAru does not count the command yet (`server/handle_reconfig.go:27`). |
| `ReconfigHandler.OneAtATime` | The deferred reset of `reconfInProgress` comes after the next message was handed over (`server/handle_reconfig.go:24`); two are then proposed at once. |
| `GroupHold.ReconnectOnHold` | "This has to be done, while the grpmgr is on Hold" (`arec/ac_handle.go:115`); `RequestHold` only starts a goroutine. |
| `LiveReplacement.FastPathValid` | The fast path compares each promise with the proposer's vector at the time it comes (`proposer.go:349`), which may change in between. |
| `LiveReplacement.EpochPromiseKept` | With five replicas: `Replace` fails at a replacer that does not know the one to be replaced, after the EpochPromise was sent (`lr/pe_handle.go:151`). |
| `AsyncReconfiguration.StepwiseEpochs` | CPromises are filed by their sender's epoch and never dropped (`arec/cp_handle.go:43`): one more from epoch 0 takes a replica from epoch 10 to 11, without what 10 decided. |
| `AsyncReconfiguration.OnlyReplacedSilent` | `OldIds` holds IDs with epochs (`arec/rm_handle.go:54`): a replica activated elsewhere meanwhile takes itself for replaced and stays stopped. |
| `AsyncReconfiguration.OneEpochRuns` | Fails with commands that add nodes, and with three replacements at once in three replicas: a CPromise is filed by the epoch of its sender, not by the one it is for (`arec/cp_handle.go:43`), and a quorum of epoch 0 counts promises for different epochs. Epochs 11, 12 and 13 are made; n2 promises for 12 and 11 to different nodes, n1 for 13; one node is activated in 13 by promises for 11 and 13, another in 13 by promises for 12 and 13, and two others in 12. |
| `AsyncReconfiguration.HigherConfsPromised` | "sending Cpromise to higher confs" (`arec/ac_handle.go:78`): nothing is sent. |
| `BatchPaxos.RangesBetween` | A client missing from a batchpoint is forgotten, its next range starts at 0, and requests are executed again (`batchpaxos/batchpoint.go:54`); with two clients, two requests each and three batches. |
| `ClientConnection.NoSelfDeadlock` | "WARNING: This is a recursive call; should be avoided" (`client/serviceconnection.go:99`): on a redirect `handshake` calls itself, and if another goroutine that found nobody handshaking has reset `handShaking` meanwhile, it waits for the lock it holds. |
| `ClientConnection.HelloForHandshake` | With two clients: `handShaking` is a variable of the process (`client/serviceconnection.go:46`), and a receiver reads the answer to another's hello. |
| `ClientConnection.RedirectNoAnswer` | A redirect is read as the answer to request 0 (`client/replicaconn.go:143`). |
| `RequestPath.AnswerRead` | One response is read for each request written; a second answer to one request is read in place of the next one's, which then ends in a timeout (`client/replicaconn.go:111`). |
| `ParallelAcceptor.VRndHighest`, `VValOfVRnd` | Two accepts for a slot are handled under a lock held for reading (`parallelpaxos/acceptor.go:216`). |
| `ParallelProposer.AduAllDecided` | AduMsgs overtake each other (`proposer_processor.go:88`), and adu goes back. |

Two more have no line that says otherwise. With alpha 1 the wait of a reconfiguration
never ends, as it tests `decided == alpha - 1` only after a decision. And the handler of
reconfigurations and the server may wait for each other for ever
(`reconfig/reconfig.go:133`).

## The proofs

| Theorem | States |
|---|---|
| `TypeCorrect` | `Spec => []TypeOK` |
| `NoLearnPanic` | `Spec => []PassedSlotsLearned` |
| `ResendsCorrect` | `Spec => []ResendsOwnAccepts` |
| `OneChosen` | `Spec => []ChosenUnique` |
| `PromisesComplete` | `Spec => []PromiseComplete` |
| `LearnedChosen` | `Spec => []LearnedIsChosen` |
| `ReplicasAgree` | `Spec => []Agreement` |
| `AlphaWindowHolds` | `Spec => []AlphaRespected` |
| `FullInvHolds` | `Spec => []FullInv` |
| `GroupImplementsLog` | `Spec => ImplementsLog` |
| `DetectorTypeCorrect` | `Spec => []TypeOK` of `LeaderDetector` |
| `SuspicionsArrive` | `Spec => []SuspicionsReachLd` |
| `TrustArrives` | `Spec => []TrustReachesSubscribers` |
| `FollowsNobodyBelow` | `Spec => []NeverBelowSelf` |
| `TypesHold` | `Spec => []TypeOK` of `ReliableBroadcast` |
| `BroadcastAgrees` | `Spec => []Agreement` of `ReliableBroadcast` |
| `LearnersDecideSame` | `Spec => []LearnersAgree` of `ReliableBroadcast` |
| `AuthbcAgreesTheorem` | `PartsSpec => []AuthbcAgrees` (`AuthenticatedBroadcast`) |
| `WaitsForAllTheorem` | `PartsSpec => []WaitsForAll` (`PublishWindow`) |
| `OneConfigPerSlotTheorem` | `Spec => []OneConfigPerSlot` (`Reconfiguration`) |
| `SameConfigTheorem` | `Spec => []SameConfig` (`Reconfiguration`) |
| `AruCountsSlotsTheorem` | `Spec => []AruCountsSlots` (`Reconfiguration` with failures) |
| `EachInOnePlaceTheorem` | `Spec => []EachInOnePlace` (`ReconfigHandler`) |
| `HeldDuringChangeTheorem` | `Spec => []HeldDuringChange` (`GroupHold`, asked by `arec`) |
| `OldEpochStoppedTheorem` | `Spec => []OldEpochStopped` (`AsyncReconfiguration`) |
| `OneEpochRunsTheorem` | `ASSUME TwoReplacements PROVE Spec => []OneEpochRuns` (`AsyncReconfiguration`) |
| `LrTypeTheorem` | `Spec => []TypeOK` of `LiveReplacement` |
| `EpochsGrow` | `Spec => [][EvGrows]_vars` of `LiveReplacement` |
| `PromisesValidTheorem` | `Spec => []PromisesValid` of `LiveReplacement` |
| `LearnedByQuorumTheorem` | `Spec => []LearnedByQuorum` of `LiveReplacement` |
| `ReplacerCoversChosenTheorem` | `ASSUME ThreeReplicas PROVE Spec => []ReplacerCoversChosen` (`LiveReplacement`) |
| `EpochPromiseKeptTheorem` | `ASSUME ThreeReplicas PROVE Spec => []EpochPromiseKept` (`LiveReplacement`) |
| `RoundCovers` | `Spec => []RoundCoversPromise` of `ParallelAcceptor` |
| `KeepsPromise` | `Spec => PromiseKept` of `ParallelAcceptor` |
| `DeliversInTurnTheorem` | `Learner!Spec => []DeliversInTurn` (`ParallelLearner`) |
| `QueueSufficesTheorem` | `Proposer!Spec => []QueueSuffices` (`ParallelProposer`) |
| `SameOrderTheorem` | `Batch!Spec => []SameOrder` (`BatchPaxos`) |
| `NoRequestSkippedTheorem` | `Batch!Spec => []NoRequestSkipped` (`BatchPaxos`) |
| `ExecutedAsSentTheorem` | `Spec => []ExecutedAsSent` of `RequestPath` |
| `FirstInOrderTheorem` | `Spec => []FirstInOrder` of `RequestPath` |
| `FlagsHaveOwnerTheorem` | `Connection!Spec => []FlagsHaveOwner` (`ClientConnection`) |

**Assumptions.** TLC evaluates all of them in the runs.

* `MultiPaxos`: any finite sets of proposers and acceptors, any set of learners and values,
  and any `Alpha`, resend limit, `MaxSlot` and `MaxRnd`. `NodeAssumption` (ids are naturals;
  a finite, nonempty set of proposers), `ValueAssumption` (`None` is no command),
  `BoundAssumption` and `AlphaAssumption` (the bounds are positive).
* `LeaderDetector`: any finite group, any subscribers and any positive capacities
  (`DetectorAssumption`).
* Broadcast: any finite group with at most as many faulty replicas as its thresholds are
  made for (`ReplicaAssumption`, `FaultAssumption`, `BroadcastValueAssumption`,
  `LearnerAssumption`); learners of `authenticatedbc` and of the window run at correct
  replicas (`AuthLearnerAssumption`) and are fewer than the counter can hold
  (`WindowAssumption`; the code counts acceptors in a `uint`).
* Reconfiguration: any servers, slots, messages, subscribers, holds and nodes. `Alpha > 1`
  (`FillAssumption`), as with 1 the wait of a reconfiguration never ends. `EpochAssumption`
  is what `arec`'s numbering of epochs takes for granted: PaxosIDs below 10, different ones
  for the replicas commands are sent to, and no node set up by two commands.
  `OneEpochRunsTheorem` has a hypothesis of its own, `TwoReplacements`: at most two
  commands, none of which adds a PaxosID. It fails without either part (see the
  disagreements).
* `LiveReplacement`: any finite set of PaxosIDs, any replacers and rounds (`LrAssumption`).
  `ReplacerCoversChosenTheorem` and `EpochPromiseKeptTheorem` are for groups of three
  (`ThreeReplicas`), with any number of replacements in any order: there an activated replacer
  has an EpochPromise of each other PaxosID and knows it. With five both fail: `Replace` fails
  at a replacer that does not know the replica to be replaced, after its EpochPromise was
  sent.
* `ParallelPaxos`: any finite sets of processors and acceptors (`AcceptorAssumption`,
  `ProcessorsAssumption`), and requests that can be counted in a uint (`RequestsAssumption`).
  Of the first learn nothing is assumed: slots are delivered in order only where it goes to the
  processor of slot 1, as `DeliversInTurn` says.
* `BatchPaxos`: any finite set of replicas, any sequence of clients, any numbers of requests
  and batches, and a batch size of at least 1 (`BatchAssumption`).
* Clients: any replicas, batch size, numbers of requests and of faults (`PathAssumption`). Of
  the connection: any clients, numbers of requests out at a time, and of connections
  (`ConnectionAssumption`).

For `MultiPaxos` the argument is in four layers, every layer an inductive invariant that
contains the one below (`MultiPaxosInv`); `MultiPaxosTypeProofs` has the first,
`MultiPaxosSafetyProofs` the others.

1. `TypeInv`. Types alone are not inductive: a resent Accept is well formed only because
   the slots of the window hold proposals of the current round (`WindowRetained`), and
   the learner's next slot stays in range only because passed slots are learned.
2. `SafetyInv`. The heart is `SafeAt(s, r, v)`: for every round below r, some quorum has
   voted for v in it or will not vote in it. `AcceptInv` says every Accept was safe when
   sent and still is; `ProposalInv` says the same of what the proposer is about to send.
   That a completed Phase 1 establishes it (`SetStateSafe`) takes `PromiseComplete`,
   and one fact particular to this code: the retained proposals. If a retained proposal of
   round k is of a higher round than all reported votes, its own Accept was safe at k, and
   between k and the current round no member of the promising quorum voted. Quorums
   intersect (`QuorumsIntersect`, by counting), so two chosen values
   are equal.
3. `FullInv` adds the learners: the Learns a slot counts are votes of one round, what a
   catch-up response carries is chosen, and adu <= aru < next ties the proposer's window
   to what is decided.
4. The refinement. `logBar` holds the chosen value of each slot and `executedBar` the
   values the server took. A vote that completes a quorum is a `Choose` step (at most one
   slot changes, its value was `None`, and the slots Alpha below it are chosen by
   `AlphaRespected`), `HandleDecidedVal` is an `Execute` step, all others stutter.

For `LeaderDetector` the invariant is `DetectorInv`. That the leader is a replica at all
needs Self to be unsuspected by the Ld, hence by the Fd and by every event on its way
(`SelfTrusted`), and a finite set of ids to have a highest (`HighestExists`, by
well-foundedness of the subsets of a finite set). `SuspicionsReachLd` needs that a tick has
at most one event per replica (`OneEventEach`): then publishing moves the last event about
a replica to the end of the channel, and handling it leaves the sets equal.

For `ReliableBroadcast` the invariant is that a correct replica commits one hash at most
(`OneCommit`) and that what a learner has counted was sent (`CountsSent`). A quorum has more
than 2 * nFaulty members, so two quorums share a correct replica (`QuorumsMeet`), whose one
Commit is in both. What a Commit is justified by plays no part, which is why agreement
survives that the code's Commits may not be (`CommitsJustified`).

For `AuthenticatedBroadcast` it is `AuthInv`: what a learner counts from a replica is the
first value that replica forwarded to it (`KeepsFirst`), and a correct replica forwards in
the same order to all. For `PublishWindow` it is `WindowInv`: while no replica counts as
failed, a round counts at most one report of each learner, who has delivered it
(`Waiting`), so a round that is decided was delivered by all.

For `Reconfiguration` there are two. `SlotsInv` says there is one history, which gives for
each number of executed slots a view (configuration, mode, adu, decided slots), and every
server's view is that of the number of slots it has executed (`IsHistory`). What is chosen
lies in the window of its configuration, and the windows of successive configurations are
apart (`WindowsApart`), so two share no slot. That the history exists is an existential in
the invariant, with a witness that grows when the first server executes a slot. `AruInv` is for servers that may fail: nobody proposes a command while another
waits, so the commands are apart (`CommandsApart`), and the slots that one does not count
during its wait are those it adds at the end (`Filling`, `AllTold`).

For `ReconfigHandler` it is that six places partition the messages (`Partition`), each
action moving one from one to the next. For `GroupHold` it is, asked by `arec`, that before
the first release whoever the manager counts as ready is held (`HoldInv`). For
`AsyncReconfiguration` it is `ArecInv`: who sent a CPromise of an epoch has left it, which
needs that no two commands make the same epoch (`Owned`), and for that the numbering.
That two configurations do not run at once needs `EpochsInv` besides: what a CPromise names
grows (`Chain`), who stores one has seen what it names and has no epoch to be activated
before (`StoredPromises`), and who runs counted none that names a higher epoch
(`NoneHigher`). The first epoch has stopped before another runs. If two others ran, each with
a node the other does not have (`MembersElsewhere`), these nodes counted quorums of CPromises
of epoch 0 that name one epoch and not the other (`OnlyForIt`). The quorums share a replica,
and of its two CPromises the later names all the earlier one does: a contradiction.

For `LiveReplacement` it is `LrInv`: a vector only changes to a higher epoch (`EvInv`), so
the vector a proposer had when it sent the Prepares, and that a promise had when it was
sent, bound what is compared later (`PhaseInv`); and a proposer sends its Accept to one
replica with each PaxosID, so the Learns of a round are of different PaxosIDs (`SlotInv`).

What a replacer starts with takes `CoverInv` besides: of two EpochPromises of one replica the
later has the epoch the other promised (`OneAfterAnother`), and so has a vote after an
EpochPromise (`VoteOrPromise`). The weight of the epochs a replacer is activated with grows
along EpochPromises, so a counterexample can be taken at the least weight. First, of two
replacers activated for different PaxosIDs one knew of the other: if not, the replica that
promised to both was two replicas, and one of them is a replacer in a counterexample of less
weight (`Clash`, `NoClash`). Then, in the same way, two Learns of one round that do not
conflict, one from a replica that was replaced, are covered by a promise its replacer was
activated with: if not, the sender of the other was replaced too, and its replacer came too
late as well (`Late`, `NeverLate`). A quorum of three is two, so this is what is chosen
(`CoversChosen`).

For `ParallelAcceptor` it is that a processor past the comparison of rounds handles an accept
not below the promise (`CheckedCovers`): the promise cannot rise before it returns, as
`HandlePrepare` needs the lock that it holds. For `ParallelLearner` it is that the one
token, in a channel or in hand, is at the processor whose turn it is, counted from the one it
was made at (`TokenInTurn`), and that the next slot of each processor is the one after what it
delivered in the last round of the token, or its first (`NextInTurn`). For
`ParallelProposer` it is `ProposerInv`: the commands on their way to the processors cover
only slots that a request has come for and that the window has (`CommandsCovered`), so with
each processor in its own slots (`SlotsInTurn`), the requests in the queue and the Accepts
sent together are the requests received (`QueueHolds`).

For `BatchPaxos` it is `BatchInv`. What a replica has executed is its first `batchAru`
batches put together (`ExecutesBatches`), each in the order of the clients, so two replicas
differ only in how far they are. The leader's ranges join: each starts at 0 or where an
earlier batch stopped for that client (`RangesJoin`), also when a batch point has left out a
client and a later one brings it back; and a batch is only executed when the replica has all
of its ranges. So each batch leaves no gap after those before it (`ClosedAfter`), nor do all of
them together (`DoneClosed`). What `FlattenSeq` puts together has no closed form; its facts
(`JoinedElems`, `JoinedClosed`) are proved of all lengths by taking a
least counterexample (`AllNaturals`), as the library's induction theorems cannot be used.

For `RequestPath` there are two. `OrderInv`: what is answered is in the log
(`AnswersOrdered`), so the client goes on only from a request that is, that it gave up, or
that a redirect ended, which is request 0 or none; and nobody holds a request later than the
client's (`GoesOnInOrder`). `SentEach`: the copies of a request, in
queues, buffers and batches, can be numbered up to `sent` (`Numbered`). A step that moves
copies maps the places after it to places before it, one to one (`CopyGoesOn`,
`BatchGoesOn`), so the numbers are kept without counting sets. For `ClientConnection` it is
`ConnectionInv`: who has marked a flag or taken the lock is in its handshake (`Owned`), also
while it waits for the lock; and the receiver of a connection that is being greeted has not
begun (`ReceiversNew`), so a handshake that starts one does not disturb a goroutine that owns
something.

**Only model-checked.** Every invariant that a passing run checks is stated by a theorem, two of
them under a hypothesis on the constants (`TwoReplacements`, `ThreeReplicas`). What stays with TLC is
liveness: fairness and `ENABLED` are out of this prover's reach, so `LeaderSettles`,
`AllExecuted` and the other temporal properties of the `liveness` run are shown on small instances only.

## Not modelled

* `ringreplacer`: one handler. It learns of suspicions from the failure detector, and asks it
  (`IsSuspected`, `ringreplacer.go:108`) from the goroutine that drains the detector's events: a
  detector that is blocked publishing to that goroutine does not answer, and both wait for
  ever. What it sends are the inputs of `LiveReplacement` and `ReconfigHandler`.
* `nodeinit`, and the connections and queues of `net`: I/O. A new node is there or not, a
  message comes or does not. That the demuxer blocks on a full module channel, while that
  module may block on its own outgoing one, is out of the models, for a cycle of it runs
  through all modules of a replica.
* In `client` the connections that send to all replicas (`batchconnection.go`,
  `fastconnection.go`), in `lr` the strategies 1 and 3, in `liveness` the ranking by epoch.
* Batches of more than one request together with reconfiguration: localAru then counts
  requests and is used as a slot number (`server/run.go:103`).
* Formatting, logging and event logging, process start-up, the experiment tools and the
  example applications: no part of the replication logic. Libraries under `Godeps` are
  third-party code.
* Encoding of messages (gob, protobuf): generated or library code.

## The plan

Of the components with replication logic all but the ring replacer have a module. What is
left, in order of importance:

1. The ring replacer with the failure detector it waits on, as a deadlock question in
   `LeaderDetector`.
2. Bounded channels between the modules of a replica.
3. A leader change in `BatchPaxos`, and `LiveReplacement` with more than one slot.
