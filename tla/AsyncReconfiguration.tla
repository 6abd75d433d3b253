------------------------ MODULE AsyncReconfiguration ------------------------
(***************************************************************************)
(* Asynchronous reconfiguration (package arec): a configuration is changed *)
(* without consensus.  The replica that wants the change makes a new epoch *)
(* and sets the new nodes up; replicas of the old epoch stop Paxos when    *)
(* they hear of it and send CPromises with their state; who has a quorum   *)
(* of these activates the new epoch.                                       *)
(*                                                                         *)
(* What an acceptor promised or voted is left out; that it is paused is    *)
(* valid = FALSE.  Connections are made and messages between running nodes *)
(* may be late.  Activations are not sent: no code writes to the channel   *)
(* that checkOutsideActivation reads from.                                 *)
(***************************************************************************)
EXTENDS Integers, FiniteSets

CONSTANTS
    Node,     \* all nodes, those that are set up by a command included
    Pid,      \* the PaxosID of each node
    Original, \* the nodes of epoch 0
    Commands  \* ReconfCmds: [by, new]; nodes of new replace those with the
              \* same PaxosID, or are added

VARIABLES
    epoch,        \* epoch in the ID of each node; -1 before it is set up
    stateful, valid,
    started,      \* its Paxos modules are started
    confs,        \* epochs of the configurations it has heard of
    maxEpochSeen,
    cPromises,    \* CPromises it has stored
    inProgress,   \* reconfInProgress
    conf,         \* the nodes of each epoch, by PaxosID
    prepared,     \* ReconfMsgs not yet broadcast
    rms, cps,     \* ReconfMsgs and CPromises on their way
    from,         \* the epoch whose CPromises last activated a node, or -1
    stuck         \* nodes whose handler waits for an acceptor not started

handlerVars == <<epoch, stateful, valid, started, confs, maxEpochSeen,
                 cPromises, from, stuck>>
vars == <<handlerVars, inProgress, conf, prepared, rms, cps>>

PidsOf(e) == DOMAIN conf[e]
MembersOf(e) == {conf[e][p] : p \in PidsOf(e)}
Quorum(e) == Cardinality(PidsOf(e)) \div 2 + 1

(* getNewEpoch.                                                            *)
NewEpoch(n) == Pid[n] + (epoch[n] \div 10 + 1) * 10

Init ==
    /\ epoch = [n \in Node |-> IF n \in Original THEN 0 ELSE -1]
    /\ stateful = [n \in Node |-> n \in Original]
    /\ valid = [n \in Node |-> TRUE]
    /\ started = Original
    /\ confs = [n \in Node |-> {}]
    /\ maxEpochSeen = [n \in Node |-> 0]
    /\ cPromises = [n \in Node |-> {}]
    /\ inProgress = {}
    /\ conf = [e \in {0} |-> [p \in {Pid[n] : n \in Original} |->
                                CHOOSE n \in Original : Pid[n] = p]]
    /\ prepared = {}
    /\ rms = {}
    /\ cps = {}
    /\ from = [n \in Node |-> -1]
    /\ stuck = {}

-----------------------------------------------------------------------------
(* The replica that reconfigures.                                          *)

(* reconfSetupLocal: the new configuration, and who of the old one is not  *)
(* replaced.                                                               *)
NewConf(old, new) ==
    [p \in DOMAIN old \cup {Pid[n] : n \in new} |->
        IF \E n \in new : Pid[n] = p THEN CHOOSE n \in new : Pid[n] = p
        ELSE old[p]]

OldIds(e, new) == {p \in PidsOf(e) : \A n \in new : Pid[n] # p}

(* handleReconfCmd.                                                        *)
HandleReconfCmd(c) ==
    LET n == c.by IN
    /\ valid[n] /\ stateful[n]
    /\ n \notin inProgress \cup stuck
    /\ \A k \in c.new : epoch[k] = -1
    /\ inProgress' = inProgress \cup {n}
    /\ prepared' = prepared \cup
          {[by |-> n, cmd |-> c, epoch |-> epoch[n], new |-> NewEpoch(n),
            conf |-> NewConf(conf[epoch[n]], c.new),
            old |-> OldIds(epoch[n], c.new)]}
    /\ UNCHANGED <<handlerVars, conf, rms, cps>>

(* doRemoteSetupAndSend: the new nodes run, and the ReconfMsg is broadcast *)
(* to the nodes of the configuration the replica is then in.               *)
DoRemoteSetupAndSend(m) ==
    /\ m \in prepared
    /\ prepared' = prepared \ {m}
    /\ conf' = [e \in DOMAIN conf \cup {m.new} |->
                    IF e = m.new THEN m.conf ELSE conf[e]]
    /\ epoch' = [n \in Node |-> IF n \in m.cmd.new THEN m.new ELSE epoch[n]]
    /\ maxEpochSeen' = [n \in Node |->
                    IF n \in m.cmd.new THEN m.new ELSE maxEpochSeen[n]]
    /\ rms' = rms \cup {[to |-> k, epoch |-> m.epoch, new |-> m.new,
                         old |-> m.old] : k \in MembersOf(epoch[m.by])}
    /\ UNCHANGED <<stateful, valid, started, confs, cPromises, inProgress, cps,
                   from, stuck>>

(* One of the new nodes could not be set up: the command will be retried.  *)
RemoteSetupFails(m) ==
    /\ m \in prepared
    /\ prepared' = prepared \ {m}
    /\ inProgress' = inProgress \ {m.by}
    /\ UNCHANGED <<handlerVars, conf, rms, cps>>

-----------------------------------------------------------------------------
(* All replicas.                                                           *)

(* updateConfs.                                                            *)
UpdateConfs(n, es) ==
    /\ confs' = [confs EXCEPT ![n] = @ \cup es]
    /\ maxEpochSeen' = [maxEpochSeen EXCEPT ![n] =
            CHOOSE e \in es \cup {@} : \A d \in es \cup {@} : d <= e]

(* sendCP: to those of the old configuration that stay, and to new nodes.  *)
SendCP(n, m) ==
    cps' = cps \cup
        {[to |-> k, node |-> n, epoch |-> epoch[n], new |-> m.new,
          confs |-> confs[n] \cup {m.new}] :
            k \in {conf[epoch[n]][p] : p \in m.old}
                  \cup {conf[m.new][p] : p \in PidsOf(m.new) \ m.old}}

(* handleReconfMsg, when it changes nothing.                               *)
IgnoreReconfMsg(n, m) ==
    /\ \/ ~stateful[n]
       \/ m.new <= epoch[n]
    /\ UNCHANGED <<handlerVars, cps>>

(* There is a configuration to be activated first.                         *)
Postpone(n, m) ==
    /\ stateful[n] /\ ~valid[n] /\ m.new > epoch[n]
    /\ \E e \in confs[n] : epoch[n] < e /\ e < m.new
    /\ UpdateConfs(n, {m.new})
    /\ UNCHANGED <<epoch, stateful, valid, started, cPromises, from, stuck, cps>>

(* A bug: Paxos goes on while the new epoch is prepared.                   *)
GoOn(n, m) ==
    /\ stateful[n] /\ m.new > epoch[n]
    /\ UpdateConfs(n, {m.new})
    /\ IF Pid[n] \in m.old /\ epoch[n] = m.epoch THEN SendCP(n, m)
       ELSE UNCHANGED cps
    /\ UNCHANGED <<epoch, stateful, valid, started, cPromises, from, stuck>>

(* Whose ID is not among those that stay says nothing.                     *)
StopPaxos(n, m) ==
    /\ stateful[n] /\ m.new > epoch[n]
    /\ valid[n] \/ ~\E e \in confs[n] : epoch[n] < e /\ e < m.new
    /\ valid' = [valid EXCEPT ![n] = FALSE]
    /\ UpdateConfs(n, {m.new})
    /\ IF Pid[n] \in m.old /\ epoch[n] = m.epoch THEN SendCP(n, m)
       ELSE UNCHANGED cps
    /\ UNCHANGED <<epoch, stateful, started, cPromises, from, stuck>>

HandleReconfMsg(n, m) ==
    /\ m \in rms /\ m.to = n /\ n \notin stuck
    /\ IgnoreReconfMsg(n, m) \/ Postpone(n, m) \/ StopPaxos(n, m)
    /\ rms' = rms \ {m}
    /\ UNCHANGED <<inProgress, conf, prepared>>

(* handleActivation of epoch e by CPromises of epoch of, with the epochs   *)
(* heard of: Paxos goes on if none of them is higher.                      *)
HandleActivation(n, e, of, heard) ==
    /\ epoch' = [epoch EXCEPT ![n] = e]
    /\ from' = [from EXCEPT ![n] = of]
    /\ IF maxEpochSeen'[n] <= e
       THEN /\ valid' = [valid EXCEPT ![n] = TRUE]
            /\ confs' = [confs EXCEPT ![n] = {}]
            /\ started' = IF stateful[n] THEN started ELSE started \cup {n}
            /\ stuck' = IF stateful[n] /\ n \notin started
                        THEN stuck \cup {n} ELSE stuck
       ELSE /\ valid' = [valid EXCEPT ![n] = FALSE]
            /\ confs' = [confs EXCEPT ![n] = {d \in heard : d > e}]
            /\ UNCHANGED <<started, stuck>>
    /\ stateful' = [stateful EXCEPT ![n] = TRUE]

(* The epochs a CPromise names: those when it was made, or, as it shares   *)
(* the sender's map, those when it was encoded.                            *)
CarriedConfs(m) ==
    {m.confs} \cup (IF epoch[m.node] = m.epoch THEN {confs[m.node]} ELSE {})

(* A bug: a replica's CPromises are all counted.                           *)
CheckAny(msgs, e) ==
    Cardinality({m \in msgs : m.epoch = e}) >= Quorum(e)

(* check: a quorum of replicas of an epoch.                                *)
Check(msgs, e) ==
    Cardinality({Pid[m.node] : m \in {c \in msgs : c.epoch = e}}) >= Quorum(e)

(* handleCPromise: one of the present epoch or an older one is ignored, as *)
(* is one that names an epoch to be activated first; the first of an epoch *)
(* never activates.                                                        *)
HandleCPromise(n, m) ==
    /\ m \in cps /\ m.to = n /\ n \notin stuck
    /\ cps' = cps \ {m}
    /\ \/ /\ m.new < epoch[n] \/ (m.new = epoch[n] /\ stateful[n])
          /\ UNCHANGED handlerVars
       \/ /\ ~(m.new < epoch[n] \/ (m.new = epoch[n] /\ stateful[n]))
          /\ \E cc \in CarriedConfs(m) :
             LET higher == {e \in cc : e >= m.new}
                 first == \E e \in cc : m.epoch < e /\ e < m.new
                 isNew == ~\E c \in cPromises[n] : c.epoch = m.epoch
                 msgs == cPromises[n] \cup {m} IN
             /\ cPromises' = IF first THEN cPromises
                             ELSE [cPromises EXCEPT ![n] = msgs]
             /\ maxEpochSeen' = [maxEpochSeen EXCEPT ![n] =
                  CHOOSE e \in higher \cup {@} : \A d \in higher \cup {@} : d <= e]
             /\ IF ~first /\ ~isNew /\ Check(msgs, m.epoch)
                THEN HandleActivation(n, m.new, m.epoch, confs[n] \cup higher)
                ELSE /\ confs' = [confs EXCEPT ![n] = @ \cup higher]
                     /\ UNCHANGED <<epoch, stateful, valid, started, from, stuck>>
    /\ UNCHANGED <<inProgress, conf, prepared, rms>>

-----------------------------------------------------------------------------
Next ==
    \/ \E c \in Commands : HandleReconfCmd(c)
    \/ \E m \in prepared : DoRemoteSetupAndSend(m) \/ RemoteSetupFails(m)
    \/ \E m \in rms : HandleReconfMsg(m.to, m)
    \/ \E m \in cps : HandleCPromise(m.to, m)

Spec == Init /\ [][Next]_vars

-----------------------------------------------------------------------------
(* Correctness.                                                            *)

(* Nodes whose acceptors answer in an epoch.                               *)
Running(e) == {n \in MembersOf(e) : epoch[n] = e /\ valid[n] /\ stateful[n]}

(* Who activates an epoch from the CPromises of another does so after the  *)
(* other has come to an end: a quorum of its acceptors has stopped, and    *)
(* none of them starts again in it, however many reconfigurations there    *)
(* are at once.                                                            *)
OldEpochStopped ==
    \A n \in Node : from[n] # -1 =>
        Cardinality(Running(from[n])) < Quorum(from[n])

(* No two configurations have a quorum of running acceptors at once, with  *)
(* two commands that only replace nodes.  It does not hold when they add   *)
(* nodes, or with three replacements at once: the CPromises of an epoch    *)
(* are counted whatever epoch they are for.  Of two commands each can have *)
(* a quorum with the nodes it added, of three replacements two can have    *)
(* one with promises that were made for the third.                         *)
OneEpochRuns ==
    \A d, e \in DOMAIN conf :
        /\ Cardinality(Running(d)) >= Quorum(d)
        /\ Cardinality(Running(e)) >= Quorum(e)
        => d = e

(* A replica goes from one epoch to the next by the CPromises of the epoch *)
(* it is in, as the comment says that it has to be activated in one epoch  *)
(* first, to go to the next. The code violates it: CPromises are filed by  *)
(* the epoch of their sender and kept after an activation.                 *)
StepwiseEpochs ==
    [][\A n \in Node :
        epoch[n] \notin {-1, epoch'[n]} /\ stateful[n] => from'[n] = epoch[n]]_vars

(* A stateful replica that says nothing about a new configuration is not   *)
(* one of its nodes: it is being replaced, as the comment says. The code   *)
(* violates it: OldIds holds IDs with epochs, and a replica activated in   *)
(* another epoch meanwhile is not found in it.                             *)
OnlyReplacedSilent ==
    [][\A m \in rms \ rms' :
        m.to \in MembersOf(m.new) /\ valid[m.to] /\ ~valid'[m.to]
            => cps' # cps]_vars

(* A replica activated in an epoch when it knows of a higher one sends a   *)
(* CPromise to that, as the log says. The code violates it: the loop that  *)
(* looks for the next epoch sends nothing.                                 *)
HigherConfsPromised ==
    [][\A n \in Node :
        stateful'[n] /\ epoch'[n] # epoch[n] /\ ~valid'[n] =>
            \E m \in cps' : m.node = n /\ m.epoch = epoch'[n]]_vars
=============================================================================
