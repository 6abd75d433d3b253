--------------------------- MODULE Reconfiguration ---------------------------
(***************************************************************************)
(* Reconfiguration through the log (server/run.go and                      *)
(* server/handle_reconfig.go): the command that replaces a node is decided *)
(* in a slot like any other.  A server that executes it goes on executing  *)
(* in the old configuration for alpha - 1 slots, without telling its       *)
(* proposer, and then changes to the new one.                              *)
(*                                                                         *)
(* Consensus on a slot within one configuration is MultiPaxos; here a slot *)
(* is chosen in one step, by a proposer whose window it is in, in the      *)
(* configuration that its replica has.  Nothing but the windows keeps two  *)
(* configurations from choosing the same slot.                             *)
(***************************************************************************)
EXTENDS Integers, FiniteSets

CONSTANTS
    Replica,    \* the replicas that stay in the group
    Leader,     \* the replica all of them trust
    Alpha,
    MaxSlot,    \* bound on slots
    MaxConfig,  \* bound on configurations
    Overlap,    \* whether a reconfiguration is proposed during another
    MayFail     \* whether the connection to the new node may fail

VARIABLES
    chosen,    \* what was chosen: slot, configuration and kind of value
    executed,  \* slots each server has executed
    localAru,  \* Server.localAru
    adu,       \* slots the server signalled to the proposer as decided
    config,    \* the configuration of grpmgr.NodeMap
    mode,      \* "run", or "fill" inside handlePreReconfig
    decided,   \* slots decided while filling
    filled,    \* no-ops and client requests proposed to fill
    first      \* the first slots sent to new nodes

serverVars == <<executed, localAru, adu, config, mode, decided, filled>>
vars == <<chosen, serverVars, first>>

Slot == 1..MaxSlot
Kind == {"App", "Noop", "Reconfig"}
Chosen == [slot : Slot, config : 0..MaxConfig, kind : Kind]
cmdsToFill == Alpha - 1

Init ==
    /\ chosen = {}
    /\ executed = [r \in Replica |-> 0]
    /\ localAru = [r \in Replica |-> 0]
    /\ adu = [r \in Replica |-> 0]
    /\ config = [r \in Replica |-> 0]
    /\ mode = [r \in Replica |-> "run"]
    /\ decided = [r \in Replica |-> 0]
    /\ filled = [r \in Replica |-> 0]
    /\ first = {}

-----------------------------------------------------------------------------
(* The proposer of p gets a value chosen in a slot of its window: no slot  *)
(* its configuration has already chosen.                                   *)
Choose(p, s, k) ==
    /\ adu[p] < s
    /\ s <= adu[p] + Alpha
    /\ \A c \in chosen : ~(c.slot = s /\ c.config = config[p])
    /\ chosen' = chosen \cup {[slot |-> s, config |-> config[p], kind |-> k]}

(* The first slot of its window the proposer finds free.                   *)
NextFree(p, s) ==
    \A t \in Slot : adu[p] < t /\ t < s =>
        \E c \in chosen : c.slot = t /\ c.config = config[p]

(* A client request, or a reconfiguration command, is proposed and chosen. *)
(* reconfInProgress keeps one leader from proposing a reconfiguration      *)
(* during another, but not a new leader, and not always (ReconfigHandler). *)
ChooseAny(p, s, k) ==
    /\ k = "Reconfig" =>
           /\ config[p] < MaxConfig
           /\ \/ Overlap
              \/ \A c \in chosen : c.kind = "Reconfig" => c.config < config[p]
    /\ k # "Noop"
    /\ Choose(p, s, k)
    /\ UNCHANGED <<serverVars, first>>

(* A bug: one slot too few is filled.                                      *)
FillFewer(p, s) ==
    /\ p = Leader
    /\ mode[p] = "fill"
    /\ filled[p] + 1 < cmdsToFill
    /\ filled' = [filled EXCEPT ![p] = @ + 1]
    /\ NextFree(p, s)
    /\ Choose(p, s, "Noop")
    /\ UNCHANGED <<executed, localAru, adu, config, mode, decided, first>>

(* handlePreReconfigAsLeader: a no-op is proposed when no client request   *)
(* is there, up to alpha - 1 of them.                                      *)
Fill(p, s) ==
    /\ p = Leader
    /\ mode[p] = "fill"
    /\ filled[p] < cmdsToFill
    /\ filled' = [filled EXCEPT ![p] = @ + 1]
    /\ NextFree(p, s)
    /\ Choose(p, s, "Noop")
    /\ UNCHANGED <<executed, localAru, adu, config, mode, decided, first>>

-----------------------------------------------------------------------------
(* handleDecidedVal, case App or Noop: informs the proposer.               *)
Execute(r, c) ==
    /\ c \in chosen
    /\ mode[r] = "run"
    /\ c.slot = executed[r] + 1
    /\ c.kind # "Reconfig"
    /\ executed' = [executed EXCEPT ![r] = @ + 1]
    /\ localAru' = [localAru EXCEPT ![r] = @ + 1]
    /\ adu' = [adu EXCEPT ![r] = @ + 1]
    /\ UNCHANGED <<chosen, config, mode, decided, filled, first>>

(* handleDecidedVal, case Reconfig: the new node is told its first slot,   *)
(* and the server starts to wait.  localAru is incremented only when       *)
(* handleReconfigCmd returns, and the proposer is not informed.            *)
StartReconfig(r, c) ==
    /\ c \in chosen
    /\ mode[r] = "run"
    /\ c.slot = executed[r] + 1
    /\ c.kind = "Reconfig"
    /\ executed' = [executed EXCEPT ![r] = @ + 1]
    /\ mode' = [mode EXCEPT ![r] = "fill"]
    /\ decided' = [decided EXCEPT ![r] = 0]
    /\ filled' = [filled EXCEPT ![r] = 0]
    /\ first' = first \cup {[config |-> config[r] + 1,
                             slot |-> localAru[r] + Alpha]}
    /\ UNCHANGED <<chosen, localAru, adu, config>>

(* handleReconfigCmd returns early: this server does not reach the new     *)
(* node.  It stays in its configuration, and its proposer never hears of   *)
(* the slot.                                                               *)
FailReconfig(r, c) ==
    /\ MayFail
    /\ c \in chosen
    /\ mode[r] = "run"
    /\ c.slot = executed[r] + 1
    /\ c.kind = "Reconfig"
    /\ executed' = [executed EXCEPT ![r] = @ + 1]
    /\ localAru' = [localAru EXCEPT ![r] = @ + 1]
    /\ UNCHANGED <<chosen, adu, config, mode, decided, filled, first>>

(* The last slot of the filling is decided.  A bug: the leader counts what *)
(* it proposed.                                                            *)
LastProposed(r) ==
    IF r = Leader THEN filled[r] = cmdsToFill ELSE decided[r] + 1 = cmdsToFill
LastFilled(r) == decided[r] + 1 = cmdsToFill

(* What the proposer is told when a slot of the filling is executed: all   *)
(* alpha slots at the end.  A bug: each slot as usual.                     *)
SignalEach(r) == [adu EXCEPT ![r] = @ + (IF LastFilled(r) THEN 2 ELSE 1)]
SignalAtEnd(r) == [adu EXCEPT ![r] = @ + (IF LastFilled(r) THEN Alpha ELSE 0)]

(* localAru after a slot of the filling; after the last one, of the        *)
(* reconfiguration itself too.  A bug: not of the reconfiguration.         *)
CountFilled(r) == [localAru EXCEPT ![r] = @ + 1]
CountSlots(r) == [localAru EXCEPT ![r] = @ + (IF LastFilled(r) THEN 2 ELSE 1)]

(* handlePreReconfigAsLeader and handlePreReconfigAsNonLeader, a decided   *)
(* value that is no reconfiguration: when alpha - 1 of them were decided,  *)
(* handleReconfigCmd takes the new node map, signals alpha decided slots   *)
(* to the proposer, and returns.                                           *)
ExecuteInFill(r, c) ==
    /\ c \in chosen
    /\ mode[r] = "fill"
    /\ c.slot = executed[r] + 1
    /\ c.kind # "Reconfig"
    /\ executed' = [executed EXCEPT ![r] = @ + 1]
    /\ decided' = [decided EXCEPT ![r] = @ + 1]
    /\ localAru' = CountSlots(r)
    /\ adu' = SignalAtEnd(r)
    /\ mode' = [mode EXCEPT ![r] = IF LastFilled(r) THEN "run" ELSE "fill"]
    /\ config' = [config EXCEPT ![r] = @ + (IF LastFilled(r) THEN 1 ELSE 0)]
    /\ UNCHANGED <<chosen, filled, first>>

(* ErrRecvReconfCmdDuringReconf: both commands are dropped; the slots of   *)
(* the filling are never signalled, and the second command's slot is not   *)
(* counted by localAru either.                                             *)
AbortReconfig(r, c) ==
    /\ c \in chosen
    /\ mode[r] = "fill"
    /\ c.slot = executed[r] + 1
    /\ c.kind = "Reconfig"
    /\ executed' = [executed EXCEPT ![r] = @ + 1]
    /\ localAru' = [localAru EXCEPT ![r] = @ + 1]
    /\ mode' = [mode EXCEPT ![r] = "run"]
    /\ UNCHANGED <<chosen, adu, config, decided, filled, first>>

Next ==
    \/ \E p \in Replica, s \in Slot :
           Fill(p, s) \/ \E k \in Kind : ChooseAny(p, s, k)
    \/ \E r \in Replica, c \in chosen :
           \/ Execute(r, c)
           \/ StartReconfig(r, c)
           \/ FailReconfig(r, c)
           \/ ExecuteInFill(r, c)
           \/ AbortReconfig(r, c)

Spec == Init /\ [][Next]_vars

-----------------------------------------------------------------------------
(* Correctness.                                                            *)

(* No slot is chosen in two configurations: a proposer's window ends with  *)
(* the last slot of the old configuration until its own server has         *)
(* executed that slot, however far ahead other replicas are and whether or *)
(* not reconfigurations were aborted before.  It takes that every server   *)
(* reaches the new node: one that does not keeps the old configuration.    *)
OneConfigPerSlot ==
    \A c, d \in chosen : c.slot = d.slot => c = d

(* Replicas take the same configuration for the same slot: whoever has     *)
(* executed as much as another, and is not filling, has its configuration. *)
SameConfig ==
    \A r, q \in Replica :
        executed[r] = executed[q] => config[r] = config[q] /\ mode[r] = mode[q]

(* What a new node is told is the first slot in its configuration, as the  *)
(* comment on FirstSlot has it: the old configuration chooses nothing from *)
(* there on. The code violates it: localAru does not count the command     *)
(* itself yet, so the slot told is the last of the old configuration.      *)
FirstSlotIsNew ==
    \A f \in first : \A c \in chosen :
        c.slot >= f.slot => c.config >= f.config

(* localAru is the number of slots executed, as everything that uses it as *)
(* a slot takes it to be (the slot marker of a state transfer, the next    *)
(* expected slot, the first slot), except while a reconfiguration is       *)
(* filled.  It holds while no reconfiguration is proposed during another,  *)
(* failed ones included.                                                   *)
AruCountsSlots ==
    \A r \in Replica : mode[r] = "run" => localAru[r] = executed[r]

(* A reconfiguration ends: under a stable leader every server that started *)
(* to fill, client requests or none, runs again.  It takes Alpha > 1, and  *)
(* no reconfiguration proposed during another: each abort costs the window *)
(* the slots that are never signalled, and two may close it for good.      *)
ReconfigEnds ==
    \A r \in Replica :
        mode[r] = "fill" /\ executed[r] + cmdsToFill <= MaxSlot
            ~> mode[r] = "run"
=============================================================================
