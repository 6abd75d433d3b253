--------------------------- MODULE ReconfigHandler ---------------------------
(***************************************************************************)
(* The reconfiguration handler of the leader (reconfig/reconfig.go) and    *)
(* the server it talks to: two goroutines that share a lock, a flag and    *)
(* two unbuffered channels.  A message asks for a reconfiguration; one is  *)
(* proposed at a time, and others are queued until it completes.           *)
(***************************************************************************)
EXTENDS Sequences, FiniteSets, SequencesExt

CONSTANTS
    Msg,   \* reconfiguration messages
    None

VARIABLES
    pending,     \* messages of ring replacers, on their way to the handler
    inProgress,  \* ReconfigHandler.reconfInProgress
    queue,       \* ReconfigHandler.reconfMsgQueue
    handler,     \* what the handler's goroutine does, and with which message
    server,      \* what the server's goroutine does, and with which message
    proposed,    \* commands proposed and not yet executed
    finished     \* messages whose reconfiguration is over

vars == <<pending, inProgress, queue, handler, server, proposed, finished>>

Idle == [at |-> "select", msg |-> None]

Init ==
    /\ pending = Msg
    /\ inProgress = FALSE
    /\ queue = << >>
    /\ handler = Idle
    /\ server = Idle
    /\ proposed = {}
    /\ finished = {}

(* The mutex: SignalReconfCompleted keeps it while it sends.               *)
LockFree == server.at # "sending"

-----------------------------------------------------------------------------
(* The handler.                                                            *)

(* <-reconfMsgChan, up to the lock in handleRecMsg.                        *)
Receive(m) ==
    /\ handler.at = "select"
    /\ m \in pending
    /\ pending' = pending \ {m}
    /\ handler' = [at |-> "lock", msg |-> m]
    /\ UNCHANGED <<inProgress, queue, server, proposed, finished>>

(* handleRecMsg under the lock: queue the message, or go on to propose it. *)
HandleRecMsg ==
    /\ handler.at = "lock"
    /\ LockFree
    /\ IF inProgress
       THEN /\ queue' = Append(queue, handler.msg)
            /\ handler' = Idle
            /\ UNCHANGED inProgress
       ELSE /\ inProgress' = TRUE
            /\ handler' = [handler EXCEPT !.at = "propose"]
            /\ UNCHANGED queue
    /\ UNCHANGED <<pending, server, proposed, finished>>

(* reconfigCmdChan <- cmd: waits for the server's select.                  *)
Propose ==
    /\ handler.at = "propose"
    /\ server.at = "select"
    /\ proposed' = proposed \cup {handler.msg}
    /\ handler' = Idle
    /\ UNCHANGED <<pending, inProgress, queue, server, finished>>

-----------------------------------------------------------------------------
(* The server.                                                             *)

(* A reconfiguration command is decided, and handleReconfigCmd called.     *)
Execute(m) ==
    /\ server.at = "select"
    /\ m \in proposed
    /\ proposed' = proposed \ {m}
    /\ server' = [at |-> "execute", msg |-> m]
    /\ UNCHANGED <<pending, inProgress, queue, handler, finished>>

(* It fails: the early returns, with only the deferred call left.          *)
Fail ==
    /\ server.at = "execute"
    /\ finished' = finished \cup {server.msg}
    /\ server' = [server EXCEPT !.at = "defer"]
    /\ UNCHANGED <<pending, inProgress, queue, handler, proposed>>

(* It succeeds: SignalReconfCompleted under the lock.                      *)
SignalReconfCompleted ==
    /\ server.at = "execute"
    /\ finished' = finished \cup {server.msg}
    /\ inProgress' = FALSE
    /\ server' = [server EXCEPT !.at = IF queue = << >> THEN "defer"
                                                        ELSE "sending"]
    /\ UNCHANGED <<pending, queue, handler, proposed>>

(* A bug: the head of the queue stays in it.                               *)
SendQueuedKeep ==
    /\ server.at = "sending"
    /\ handler.at = "select"
    /\ handler' = [at |-> "lock", msg |-> Head(queue)]
    /\ server' = [server EXCEPT !.at = "defer"]
    /\ UNCHANGED <<pending, inProgress, queue, proposed, finished>>

(* reconfMsgChan <- reconfMsgQueue[0], with the lock: waits for the        *)
(* handler's select.                                                       *)
SendQueued ==
    /\ server.at = "sending"
    /\ handler.at = "select"
    /\ handler' = [at |-> "lock", msg |-> Head(queue)]
    /\ queue' = Tail(queue)
    /\ server' = [server EXCEPT !.at = "defer"]
    /\ UNCHANGED <<pending, inProgress, proposed, finished>>

(* The deferred SetReconfigInProgress(false).                              *)
SetReconfigInProgress ==
    /\ server.at = "defer"
    /\ inProgress' = FALSE
    /\ server' = Idle
    /\ UNCHANGED <<pending, queue, handler, proposed, finished>>

Next ==
    \/ \E m \in Msg : Receive(m) \/ Execute(m)
    \/ HandleRecMsg
    \/ Propose
    \/ Fail
    \/ SignalReconfCompleted
    \/ SendQueued
    \/ SetReconfigInProgress

Spec == Init /\ [][Next]_vars

-----------------------------------------------------------------------------
(* Correctness.                                                            *)

AtHandler == {handler.msg} \cap Msg
Executing == IF server.at = "execute" THEN {server.msg} ELSE {}

(* No message is lost and none is handled twice: each is on its way, in    *)
(* the queue, with the handler, proposed, being executed or finished, and  *)
(* in one of these places only.                                            *)
EachInOnePlace ==
    LET places == <<pending, ToSet(queue), AtHandler, proposed, Executing,
                    finished>>
    IN  /\ IsInjective(queue)
        /\ UNION ToSet(places) = Msg
        /\ \A i, j \in 1..Len(places) :
               i # j => places[i] \cap places[j] = {}

(* Messages are only handled if no reconfiguration is in progress, as the  *)
(* comment in handleRecMsg has it: at most one is being proposed, proposed *)
(* or executed. The code violates it: SetReconfigInProgress(false),        *)
(* deferred, comes after the next message was handed over.                 *)
OneAtATime ==
    Cardinality((IF handler.at = "propose" THEN AtHandler ELSE {})
                \cup proposed \cup Executing) <= 1
=============================================================================
