------------------------ MODULE ReconfigurationParts ------------------------
(***************************************************************************)
(* The parts of reconfiguration side by side.  They share no state, so a   *)
(* behaviour is one of a single part: the initial state says of which, and *)
(* the variables of the others stay as they are.                           *)
(*                                                                         *)
(* "slots": reconfiguration through the log, every server reaches the new  *)
(*     nodes.                                                              *)
(* "failures": the same, but servers may not reach them, and no            *)
(*     reconfiguration is proposed during another.                         *)
(* "handler": the leader's handler and its server.                         *)
(* "arec": the holds that arec asks for.                                   *)
(* "epochs": asynchronous reconfiguration.                                 *)
(***************************************************************************)
EXTENDS Integers, FiniteSets

CONSTANTS
    Alpha, MaxConfig,
    Replica, Leader, MaxSlot, Overlap,        \* of "slots"
    FailReplica, FailLeader, FailMaxSlot, MayFail, \* of "failures"
    Msg, None,                                \* of "handler"
    Subscriber, MaxHold,                      \* of "arec"
    Node, Pid, Original, Commands             \* of "epochs"

ASSUME AlphaAssumption == Alpha \in Nat \ {0}
(* With alpha = 1 handlePreReconfig waits for alpha - 1 = 0 decided values *)
(* by counting up from 1, and never ends.                                  *)
ASSUME FillAssumption == Alpha > 1
ASSUME HandlerAssumption == None \notin Msg
ASSUME HoldAssumption == MaxHold \in Nat
(* getNewEpoch leaves one decimal digit of an epoch to the PaxosID, so two *)
(* replicas make different epochs only when their PaxosIDs differ and are  *)
(* below 10: so are those of the replicas commands are sent to.  No node   *)
(* is set up by two commands.                                              *)
ASSUME EpochAssumption ==
    /\ Pid \in [Node -> 0..9]
    /\ Original \subseteq Node
    /\ \A m, n \in Original : Pid[m] = Pid[n] => m = n
    /\ \A x \in Commands : x.by \in Node /\ x.new \subseteq Node
    /\ \A x, y \in Commands :
         /\ Pid[x.by] = Pid[y.by] => x.by = y.by
         /\ x # y => x.new \cap y.new = {}

VARIABLES
    instance,
    chosen, executed, localAru, adu, config, mode, decided, filled, first,
    pending, inProgress, queue, handler, server, proposed, finished,
    user, requests, closed, mgr, toPrepare, prepare, ready, held, releases,
    timedOut,
    epoch, stateful, valid, started, confs, maxEpochSeen, cPromises,
    arecInProgress, conf, prepared, rms, cps, from, stuck

Slots == INSTANCE Reconfiguration WITH MayFail <- FALSE
Failures == INSTANCE Reconfiguration WITH
    Replica <- FailReplica, Leader <- FailLeader, MaxSlot <- FailMaxSlot,
    Overlap <- FALSE
Handler == INSTANCE ReconfigHandler
ArecGroup == INSTANCE GroupHold WITH Requester <- "arec"
Arec == INSTANCE AsyncReconfiguration WITH inProgress <- arecInProgress

serverVars == <<chosen, executed, localAru, adu, config, mode, decided, filled,
                first>>
handlerVars == <<pending, inProgress, queue, handler, server, proposed,
                 finished>>
groupVars == <<user, requests, closed, mgr, toPrepare, prepare, ready, held,
               releases, timedOut>>
arecVars == <<epoch, stateful, valid, started, confs, maxEpochSeen, cPromises,
              arecInProgress, conf, prepared, rms, cps, from, stuck>>

Is(i) == instance = i

Init ==
    /\ instance \in {"slots", "failures", "handler", "arec", "epochs"}
    /\ IF Is("failures") THEN Failures!Init ELSE Slots!Init
    /\ Handler!Init
    /\ ArecGroup!Init
    /\ Arec!Init

Next ==
    /\ UNCHANGED instance
    /\ \/ /\ \/ Is("slots") /\ Slots!Next
             \/ Is("failures") /\ Failures!Next
          /\ UNCHANGED <<handlerVars, groupVars, arecVars>>
       \/ /\ Is("handler") /\ Handler!Next
          /\ UNCHANGED <<serverVars, groupVars, arecVars>>
       \/ /\ Is("arec") /\ ArecGroup!Next
          /\ UNCHANGED <<serverVars, handlerVars, arecVars>>
       \/ /\ Is("epochs") /\ Arec!Next
          /\ UNCHANGED <<serverVars, handlerVars, groupVars>>

Spec ==
    Init /\ [][Next]_<<instance, serverVars, handlerVars, groupVars, arecVars>>

-----------------------------------------------------------------------------
(* The properties of the parts, each in the instance it is about.          *)

(* No slot is chosen in two configurations (Reconfiguration): the windows  *)
(* of handleReconfigCmd keep them apart.                                   *)
OneConfigPerSlot ==
    Is("slots") => Slots!OneConfigPerSlot

(* Servers that have executed as much have the same configuration          *)
(* (Reconfiguration), however handlePreReconfig was gone through.          *)
SameConfig == Is("slots") => Slots!SameConfig

(* localAru counts the executed slots (Reconfiguration), failed            *)
(* reconfigurations included.                                              *)
AruCountsSlots ==
    Is("failures") => Failures!AruCountsSlots

(* No reconfiguration message is lost or handled twice (ReconfigHandler),  *)
(* in the queue and the channels of reconfig.go.                           *)
EachInOnePlace == Is("handler") => Handler!EachInOnePlace

(* arec changes the node map with every subscriber held (GroupHold).       *)
HeldDuringChange == Is("arec") => ArecGroup!HeldDuringChange

(* An epoch is activated by handleCPromise only when the epoch it comes    *)
(* from has stopped for good (AsyncReconfiguration).                       *)
OldEpochStopped == Is("epochs") => Arec!OldEpochStopped

(* No two configurations have a quorum of running acceptors                *)
(* (AsyncReconfiguration), whatever handleReconfMsg stops when, as long as *)
(* there are at most two commands, which replace nodes and add none.       *)
OneEpochRuns == Is("epochs") => Arec!OneEpochRuns
=============================================================================
