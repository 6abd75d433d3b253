--------------------------- MODULE ReplicatedLog ---------------------------
(***************************************************************************)
(* What a goxos group promises: one log of commands, written once per slot *)
(* and at most Alpha slots ahead of its first hole, and replicas that      *)
(* execute the log from its start, slot by slot, without gaps or repeats.  *)
(***************************************************************************)
EXTENDS Integers, Sequences

CONSTANTS Replica, Value, None, MaxSlot, Alpha

VARIABLES
    log,       \* log[s] is the command of slot s, or None
    executed   \* executed[r] is the sequence of commands r has executed

Init ==
    /\ log = [s \in 1..MaxSlot |-> None]
    /\ executed = [r \in Replica |-> << >>]

(* A command is fixed for a slot whose slots Alpha and more below are      *)
(* fixed.                                                                  *)
Choose(s, v) ==
    /\ log[s] = None
    /\ \A t \in 1..MaxSlot : t + Alpha <= s => log[t] # None
    /\ log' = [log EXCEPT ![s] = v]
    /\ UNCHANGED executed

(* A replica executes the slot that follows the last one it executed.      *)
Execute(r) ==
    LET s == Len(executed[r]) + 1
    IN  /\ s <= MaxSlot
        /\ log[s] # None
        /\ executed' = [executed EXCEPT ![r] = Append(@, log[s])]
        /\ UNCHANGED log

Next ==
    \/ \E s \in 1..MaxSlot, v \in Value : Choose(s, v)
    \/ \E r \in Replica : Execute(r)

Spec == Init /\ [][Next]_<<log, executed>>
=============================================================================
