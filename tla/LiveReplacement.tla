--------------------------- MODULE LiveReplacement ---------------------------
(***************************************************************************)
(* Live Replacement (packages lr and multipaxos): a replica is replaced by *)
(* a new one with the same PaxosID and a higher epoch, while Paxos runs.   *)
(* Replicas promise the new epoch to the replacer and send it the state of *)
(* their acceptors; messages carry the epoch vector of their sender, and   *)
(* quorums are counted among messages whose vectors do not conflict.       *)
(*                                                                         *)
(* One slot above the slot marker is modelled, with the default strategy   *)
(* (LRStrategy 2).  Epochs() returns the slice that Replace and Add write  *)
(* to: a message that waits to be encoded may carry a later vector, and    *)
(* one a replica sends to itself always carries its present one.           *)
(***************************************************************************)
EXTENDS Integers, FiniteSets

CONSTANTS
    Pid,       \* PaxosIDs
    Replacer,  \* IDs <<pid, epoch>> of the replacers; others have epoch 0
    MaxRound,  \* bound on rounds
    Proposer,  \* the ID that proposes in each round
    Learner    \* the ID whose learner is modelled, or None

Original == Pid \X {0}
ID == Original \cup Replacer
Round == 1..MaxRound
Pxid(i) == i[1]
Epoch(i) == i[2]
None == <<0, 0>>

ASSUME LrAssumption ==
    /\ IsFiniteSet(Pid) /\ Pid \subseteq Nat \ {0}
    /\ Replacer \subseteq Pid \X (Nat \ {0})
    /\ MaxRound \in Nat
    /\ Proposer \in [Round -> ID]
    /\ \A r, s \in Round : Proposer[r] = Proposer[s] => r = s
    /\ Learner \in ID \cup {None}

VARIABLES
    rnd, vote,  \* acceptors: round, and round of the last vote, 0 if none
    ev,         \* epoch vector of every replica's node map
    up,         \* running replicas: the replacers among them are activated
    pes,        \* for each replacer, to whom its PrepareEpoch was sent
    installing, \* the replacer a handler is installing, its acceptor paused
    stuck,      \* replacers whose handler waits for an acceptor not started
    eps,        \* EpochPromises sent
    epochPromises, \* EpochPromises received by each replacer
    prepares,   \* for each round, to whom Prepares and Accepts were sent
    startEv,    \* the proposer's epoch vector when it sent the Prepares
    promises,   \* Promises sent
    phaseOne,   \* the promises its proposer has, and phaseOneVQCheck
    used,       \* the promises it went on with
    accepts, value,
    learns,     \* Learns sent
    slot        \* the learner's slot

lrVars == <<ev, up, pes, installing, stuck, eps, epochPromises>>
propVars == <<prepares, startEv, phaseOne, used, accepts, value>>
vars == <<rnd, vote, lrVars, propVars, promises, learns, slot>>

Quorum == Cardinality(Pid) \div 2 + 1

(* lrnConflict, promiseConflict, epConflict.                               *)
Conflict(a, b) ==
    \/ Pxid(a.id) = Pxid(b.id)
    \/ Epoch(a.id) < b.ev[Pxid(a.id)]
    \/ Epoch(b.id) < a.ev[Pxid(b.id)]

(* checkCombination.                                                       *)
Valid(S) == \A a, b \in S : a = b \/ ~Conflict(a, b)

(* What the combination iterator finds: one of these, if there is one.     *)
ValidQuorums(msgs) == {S \in SUBSET msgs : Cardinality(S) = Quorum /\ Valid(S)}

(* The vectors a message may carry when i receives it.                     *)
Carried(m, i) == IF m.id = i THEN {ev[i]} ELSE {m.ev, ev[m.id]}

(* What i receives of m; its own message shares i's present vector.        *)
As(m, e) == [m EXCEPT !.ev = e]
Shared(msgs, i) == {IF m.id = i THEN As(m, ev[i]) ELSE m : m \in msgs}

(* NodeMap: the PaxosIDs in it, and the IDs a broadcast goes to.           *)
Known(i) ==
    IF i \in Original THEN Pid
    ELSE {Pxid(i)} \cup {Pxid(m.id) : m \in epochPromises[i]}
IDs(i) == {<<p, ev[i][p]>> : p \in Known(i)}

(* A replacer starts with a node map that holds itself alone.              *)
Init ==
    /\ rnd = [i \in ID |-> 0]
    /\ vote = [i \in ID |-> 0]
    /\ ev = [i \in ID |-> [p \in Pid |-> IF p = Pxid(i) THEN Epoch(i) ELSE 0]]
    /\ up = Original
    /\ pes = [x \in Replacer |-> {}]
    /\ installing = [i \in ID |-> None]
    /\ stuck = {}
    /\ eps = {}
    /\ epochPromises = [x \in Replacer |-> {}]
    /\ prepares = [r \in Round |-> {}]
    /\ startEv = [r \in Round |-> [p \in Pid |-> 0]]
    /\ promises = {}
    /\ phaseOne = [r \in Round |-> [got |-> {}, check |-> FALSE]]
    /\ used = [r \in Round |-> {}]
    /\ accepts = [r \in Round |-> {}]
    /\ value = [r \in Round |-> 0]
    /\ learns = {}
    /\ slot = [rnd |-> 0, got |-> {}, check |-> FALSE, learned |-> 0]

-----------------------------------------------------------------------------
(* The replacement handler.                                                *)

(* handleRecMsg: the replica that noticed the failure broadcasts.          *)
HandleRecMsg(i, x) ==
    /\ i \in up
    /\ installing[i] = None
    /\ pes[x] = {}
    /\ Epoch(x) > ev[i][Pxid(x)]
    /\ pes' = [pes EXCEPT ![x] = IDs(i)]
    /\ UNCHANGED <<rnd, vote, ev, up, installing, stuck, eps, epochPromises,
                   propVars, promises, learns, slot>>

(* i is to handle the PrepareEpoch of x, and is not the one it replaces.   *)
HasPrepareEpoch(i, x) ==
    /\ i \in pes[x]
    /\ installing[i] = None
    /\ i \notin stuck
    /\ Epoch(x) > ev[i][Pxid(x)]
    /\ Pxid(x) # Pxid(i)

(* handlePrepareEpoch up to the EpochPromise: GetState pauses the acceptor.*)
(* A PrepareEpoch whose marker is above the adu waits in the channel.      *)
HandlePrepareEpoch(i, x) ==
    /\ HasPrepareEpoch(i, x)
    /\ i \in up
    /\ installing' = [installing EXCEPT ![i] = x]
    /\ eps' = eps \cup {[id |-> i, to |-> x, rnd |-> rnd[i],
                         vote |-> vote[i], ev |-> ev[i]]}
    /\ UNCHANGED <<rnd, vote, ev, up, pes, stuck, epochPromises, propVars,
                   promises, learns, slot>>

(* The acceptor of a replacer is started after its activation: GetState    *)
(* waits for it, and with it the handler that would activate it.           *)
HandlePrepareEpochTooEarly(i, x) ==
    /\ HasPrepareEpoch(i, x)
    /\ i \notin up
    /\ stuck' = stuck \cup {i}
    /\ UNCHANGED <<rnd, vote, ev, up, pes, installing, eps, epochPromises,
                   propVars, promises, learns, slot>>

(* NodeMap.Replace, and the release of the acceptor.  Nothing is replaced  *)
(* if the node map has no node with this PaxosID.                          *)
Replace(i) ==
    /\ installing[i] # None
    /\ LET x == installing[i] IN
        ev' = IF Pxid(x) \in Known(i)
              THEN [ev EXCEPT ![i][Pxid(x)] = Epoch(x)] ELSE ev
    /\ installing' = [installing EXCEPT ![i] = None]
    /\ UNCHANGED <<rnd, vote, up, pes, stuck, eps, epochPromises, propVars,
                   promises, learns, slot>>

(* extractAcceptorState: the highest round.  The votes are assigned to a   *)
(* local variable and lost.                                                *)
ExtractRnd(Q) == CHOOSE r \in {m.rnd : m \in Q} : \A m \in Q : m.rnd <= r

(* A bug: more than a quorum of EpochPromises is waited for.               *)
HandleEpochPromiseMore(x, m) ==
    /\ x \notin stuck /\ installing[x] = None
    /\ m \in eps /\ m.to = x
    /\ m.id \notin {n.id : n \in epochPromises[x]}
    /\ LET got == epochPromises[x] \cup {m} IN
        /\ epochPromises' = [epochPromises EXCEPT ![x] = got]
        /\ ev' = IF Pxid(m.id) \in Known(x) THEN ev
                 ELSE [ev EXCEPT ![x][Pxid(m.id)] = Epoch(m.id)]
        /\ IF x \notin up /\ Cardinality(got) > Quorum
           THEN /\ rnd' = [rnd EXCEPT ![x] = ExtractRnd(got)]
                /\ up' = up \cup {x}
           ELSE UNCHANGED <<rnd, up>>
    /\ UNCHANGED <<vote, pes, installing, stuck, eps, propVars, promises,
                   learns, slot>>

(* handleEpochPromise: the sender is added to the node map, unless one     *)
(* with its PaxosID is there; a valid quorum activates the replacer.       *)
HandleEpochPromise(x, m) ==
    /\ x \notin stuck /\ installing[x] = None
    /\ m \in eps /\ m.to = x
    /\ m.id \notin {n.id : n \in epochPromises[x]}
    /\ \/ /\ x \in up
          /\ epochPromises' = [epochPromises EXCEPT ![x] = @ \cup {m}]
          /\ UNCHANGED <<rnd, up>>
       \/ /\ x \notin up
          /\ \E e \in Carried(m, x) :
                LET got == epochPromises[x] \cup {As(m, e)} IN
                /\ epochPromises' = [epochPromises EXCEPT ![x] = got]
                /\ \/ /\ \E Q \in ValidQuorums(got) :
                            rnd' = [rnd EXCEPT ![x] = ExtractRnd(Q)]
                      /\ up' = up \cup {x}
                   \/ /\ ValidQuorums(got) = {}
                      /\ UNCHANGED <<rnd, up>>
    /\ ev' = IF Pxid(m.id) \in Known(x) THEN ev
             ELSE [ev EXCEPT ![x][Pxid(m.id)] = Epoch(m.id)]
    /\ UNCHANGED <<vote, pes, installing, stuck, eps, propVars, promises,
                   learns, slot>>

-----------------------------------------------------------------------------
(* Paxos with Live Replacement.                                            *)

(* startPhaseOne.                                                          *)
StartPhaseOne(r) ==
    /\ Proposer[r] \in up
    /\ prepares[r] = {}
    /\ prepares' = [prepares EXCEPT ![r] = IDs(Proposer[r])]
    /\ startEv' = [startEv EXCEPT ![r] = ev[Proposer[r]]]
    /\ UNCHANGED <<rnd, vote, lrVars, promises, phaseOne, used, accepts, value,
                   learns, slot>>

(* A bug: acceptors are not paused while a replacer is installed.          *)
RunningAlways(i) == i \in up

(* A replica's acceptor runs, and is not paused.                           *)
Running(i) == i \in up /\ installing[i] = None

HandlePrepLr(i, r) ==
    /\ Running(i)
    /\ i \in prepares[r]
    /\ rnd[i] < r
    /\ rnd' = [rnd EXCEPT ![i] = r]
    /\ promises' = promises \cup {[id |-> i, rnd |-> r, vote |-> vote[i],
                                   ev |-> ev[i]]}
    /\ UNCHANGED <<vote, lrVars, propVars, learns, slot>>

(* A bug: a different epoch vector does not turn the check on.             *)
HandlePromLrNoCheck(r, m) ==
    /\ m \in promises /\ m.rnd = r
    /\ m.id \notin {n.id : n \in phaseOne[r].got}
    /\ used[r] = {}
    /\ LET got == phaseOne[r].got \cup {m} IN
        /\ phaseOne' = [phaseOne EXCEPT ![r].got = got]
        /\ used' = IF Cardinality(got) >= Quorum
                   THEN [used EXCEPT ![r] = got] ELSE used
    /\ UNCHANGED <<rnd, vote, lrVars, prepares, startEv, promises, accepts,
                   value, learns, slot>>

(* handlePromLr: promises are counted, and checked for a valid quorum once *)
(* one has come whose epoch vector is not the proposer's.                  *)
HandlePromLr(r, m) ==
    LET i == Proposer[r] IN
    /\ m \in promises /\ m.rnd = r
    /\ m.id \notin {n.id : n \in phaseOne[r].got}
    /\ used[r] = {}
    /\ \E e \in Carried(m, i) :
        LET got == Shared(phaseOne[r].got, i) \cup {As(m, e)}
            check == phaseOne[r].check \/ e # ev[i]
            done == IF check THEN ValidQuorums(got)
                    ELSE {S \in {got} : Cardinality(S) >= Quorum} IN
        \/ /\ \E S \in done : used' = [used EXCEPT ![r] = S]
           /\ phaseOne' = [phaseOne EXCEPT ![r] = [got |-> {}, check |-> FALSE]]
        \/ /\ done = {}
           /\ phaseOne' = [phaseOne EXCEPT ![r] = [got |-> got, check |-> check]]
           /\ UNCHANGED used
    /\ UNCHANGED <<rnd, vote, lrVars, prepares, startEv, promises, accepts,
                   value, learns, slot>>

(* setStateFromPromises and sendAccept: the value of the highest vote, or  *)
(* a new one, which is called after its round.                             *)
SendAccept(r) ==
    /\ used[r] # {}
    /\ accepts[r] = {}
    /\ accepts' = [accepts EXCEPT ![r] = IDs(Proposer[r])]
    /\ LET v == CHOOSE v \in {m.vote : m \in used[r]} :
                    \A m \in used[r] : m.vote <= v IN
        value' = [value EXCEPT ![r] = IF v = 0 THEN r ELSE value[v]]
    /\ UNCHANGED <<rnd, vote, lrVars, prepares, startEv, promises, phaseOne,
                   used, learns, slot>>

HandleAccLr(i, r) ==
    /\ Running(i)
    /\ i \in accepts[r]
    /\ rnd[i] <= r
    /\ vote[i] # r
    /\ rnd' = [rnd EXCEPT ![i] = r]
    /\ vote' = [vote EXCEPT ![i] = r]
    /\ learns' = learns \cup {[id |-> i, rnd |-> r, ev |-> ev[i]]}
    /\ UNCHANGED <<lrVars, propVars, promises, slot>>

(* A bug: a slot is learned with one vote less.                            *)
HandleLrnLrEarly(m) ==
    /\ Learner # None
    /\ m \in learns
    /\ slot.learned = 0
    /\ m \notin slot.got
    /\ LET got == slot.got \cup {m} IN
        slot' = [rnd |-> m.rnd, got |-> got, check |-> FALSE,
                 learned |-> IF Cardinality(got) >= Quorum - 1 THEN m.rnd ELSE 0]
    /\ UNCHANGED <<rnd, vote, lrVars, propVars, promises, learns>>

(* handleLrnLr: learns of the highest round are counted, in the same way.  *)
HandleLrnLr(m) ==
    /\ Learner # None
    /\ m \in learns
    /\ slot.learned = 0
    /\ slot.rnd <= m.rnd
    /\ ~\E n \in slot.got : n.id = m.id /\ n.rnd = m.rnd
    /\ \E e \in Carried(m, Learner) :
        LET old == IF slot.rnd < m.rnd THEN {} ELSE Shared(slot.got, Learner)
            got == old \cup {As(m, e)}
            check == slot.check \/ e # ev[Learner]
            done == IF check THEN ValidQuorums(got) # {}
                    ELSE Cardinality(got) >= Quorum IN
        slot' = [rnd |-> m.rnd, got |-> got, check |-> check,
                 learned |-> IF done THEN m.rnd ELSE 0]
    /\ UNCHANGED <<rnd, vote, lrVars, propVars, promises, learns>>

-----------------------------------------------------------------------------
Replacing(x) ==
    \/ \E i \in ID :
        \/ HandleRecMsg(i, x)
        \/ HandlePrepareEpoch(i, x)
        \/ HandlePrepareEpochTooEarly(i, x)
    \/ \E m \in eps : HandleEpochPromise(x, m)

Paxos(r) ==
    \/ StartPhaseOne(r)
    \/ \E i \in ID : HandlePrepLr(i, r) \/ HandleAccLr(i, r)
    \/ \E m \in promises : HandlePromLr(r, m)
    \/ SendAccept(r)

Next ==
    \/ \E x \in Replacer : Replacing(x)
    \/ \E i \in ID : Replace(i)
    \/ \E r \in Round : Paxos(r)
    \/ \E m \in learns : HandleLrnLr(m)

Spec == Init /\ [][Next]_vars

-----------------------------------------------------------------------------
(* Correctness.                                                            *)

(* Types; an acceptor's vote is in no later round than its own, and only a *)
(* replacer that is not activated waits for its own acceptor.              *)
TypeOK ==
    /\ rnd \in [ID -> 0..MaxRound] /\ vote \in [ID -> 0..MaxRound]
    /\ \A i \in ID : vote[i] <= rnd[i]
    /\ ev \in [ID -> [Pid -> Nat]]
    /\ up \subseteq ID /\ stuck \subseteq Replacer \ up
    /\ installing \in [ID -> Replacer \cup {None}]

(* The round a replacer starts with is at least that of every value that   *)
(* the replaced replica helped to choose: if a valid quorum of Learns in   *)
(* some round has one of a replica with the replacer's PaxosID and a lower *)
(* epoch, the replacer, once activated, is in that round or a later one.   *)
(* The others voted before they changed their epoch vectors, hence before  *)
(* their EpochPromises, and those who replace one of them took it over.    *)
(* This is so for three replicas, where an activated replacer knows all    *)
(* others.  With five it does not hold: see EpochPromiseKept.              *)
ReplacerCoversChosen ==
    \A x \in Replacer \cap up, r \in Round :
        rnd[x] < r =>
            \A Q \in ValidQuorums({m \in learns : m.rnd = r}) :
                ~\E m \in Q : Pxid(m.id) = Pxid(x) /\ Epoch(m.id) < Epoch(x)

(* A replica that has sent an EpochPromise and is done with it has the     *)
(* epoch it promised in its vector: all it says later conflicts with what  *)
(* the replaced replica says. The code violates it with five replicas:     *)
(* Replace fails at a replacer that does not know the replica to be        *)
(* replaced, after the EpochPromise was sent.                              *)
EpochPromiseKept ==
    \A m \in eps : installing[m.id] # m.to =>
        ev[m.id][Pxid(m.to)] >= Epoch(m.to)

(* The promises a proposer goes on with are a valid quorum, checked or     *)
(* not, if its own epoch vector is what it was when it sent the Prepares.  *)
PromisesValid ==
    \A r \in Round : used[r] # {} =>
        \/ ev[Proposer[r]] # startEv[r]
        \/ Cardinality(used[r]) >= Quorum /\ Valid(used[r])

(* As the comment says, of the fast path too. The code violates it when    *)
(* its own vector changes between two promises.                            *)
FastPathValid ==
    \A r \in Round : used[r] # {} => Valid(used[r])

(* What the learner learned has the votes of replicas with a quorum of     *)
(* PaxosIDs, all in the round it is learned in: a replica and its replacer *)
(* are never counted twice, nor votes of two rounds together.              *)
LearnedByQuorum ==
    slot.learned # 0 =>
        Cardinality({Pxid(m.id) : m \in {n \in learns : n.rnd = slot.learned}})
            >= Quorum

(* An activated replacer has the latest vote of a valid quorum of the      *)
(* EpochPromises: the state they carry can contain many instances. The     *)
(* code violates it: the vote found is assigned to a local variable, and   *)
(* no vote is set.                                                         *)
VotesTransferred ==
    [][\A x \in Replacer : x \notin up /\ x \in up' =>
        \E Q \in ValidQuorums(epochPromises'[x]) :
            \A m \in Q : m.vote <= vote'[x]]_vars

(* A replacer that a quorum of running replicas is asked to install is     *)
(* activated, if no other is installed at the same time.                   *)
ReplacerActivates ==
    \A x \in Replacer : pes[x] # {} ~> x \in up
=============================================================================
