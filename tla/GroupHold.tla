------------------------------ MODULE GroupHold ------------------------------
(***************************************************************************)
(* The hold protocol of the group manager (grp/grpmgr_imp.go): a module    *)
(* that changes the node map asks the manager to hold the others, which    *)
(* read it; the manager asks each subscriber, waits for them for a while,  *)
(* and releases them when the module has closed its channel.               *)
(*                                                                         *)
(* Channels are unbuffered unless noted.  All subscribers subscribe before *)
(* the first hold, so the channel they wait on for their release is the    *)
(* first globalReleaseChan; the manager makes a new one for every hold.    *)
(***************************************************************************)
EXTENDS Integers

CONSTANTS
    Subscriber,
    Requester,  \* who asks: "arec", "lr" or "server"
    MaxHold     \* bound on holds

VARIABLES
    user,      \* where the requesting module is, in which hold
    requests,  \* holds waiting to be sent on execHoldReqChan
    closed,    \* holds whose releaseChan is closed
    mgr,       \* where the manager is, in which hold
    toPrepare, \* subscribers it has yet to send a prepare to
    prepare,   \* prepareChan of each subscriber, capacity 1; 0 if empty
    ready,     \* the WaitGroup of each hold: who is done
    held,      \* subscribers waiting for their release
    releases,  \* how often the manager has closed its globalReleaseChan
    timedOut   \* holds the manager went on with before all were ready

mgrVars == <<mgr, toPrepare, releases, timedOut>>
vars == <<user, requests, closed, mgrVars, prepare, ready, held>>

Hold == 1..MaxHold

Init ==
    /\ user = [at |-> "idle", hold |-> 0]
    /\ requests = {}
    /\ closed = {}
    /\ mgr = [at |-> "select", hold |-> 0]
    /\ toPrepare = {}
    /\ prepare = [s \in Subscriber |-> 0]
    /\ ready = [h \in Hold |-> {}]
    /\ held = {}
    /\ releases = 0
    /\ timedOut = {}

-----------------------------------------------------------------------------
(* The module that asks for the hold.                                      *)

(* A bug: the module that changes the epoch does not wait for the manager. *)
RequestHoldAndGo ==
    /\ user.at = "idle"
    /\ user.hold < MaxHold
    /\ user' = [at |-> "change", hold |-> user.hold + 1]
    /\ requests' = requests \cup {user.hold + 1}
    /\ UNCHANGED <<closed, mgrVars, prepare, ready, held>>

(* RequestHold: the request is sent by a goroutine of its own.  lr and     *)
(* server go on to change the node map, arec to connect.                   *)
RequestHold ==
    /\ user.at = "idle"
    /\ user.hold < MaxHold
    /\ user' = [at |-> IF Requester = "arec" THEN "reconnect" ELSE "change",
                hold |-> user.hold + 1]
    /\ requests' = requests \cup {user.hold + 1}
    /\ UNCHANGED <<closed, mgrVars, prepare, ready, held>>

(* reconnect, in changeEpoch of arec.                                      *)
Reconnect ==
    /\ user.at = "reconnect"
    /\ user' = [user EXCEPT !.at = "send"]
    /\ UNCHANGED <<requests, closed, mgrVars, prepare, ready, held>>

(* The change is done, and the releaseChan closed.                         *)
Close ==
    /\ user.at = "change"
    /\ closed' = closed \cup {user.hold}
    /\ user' = [user EXCEPT !.at = "idle"]
    /\ UNCHANGED <<requests, mgrVars, prepare, ready, held>>

(* handleReconfigCmd returns on an error and leaves the channel open.      *)
ReturnWithoutClose ==
    /\ Requester = "server"
    /\ user.at = "change"
    /\ user' = [user EXCEPT !.at = "idle"]
    /\ UNCHANGED <<requests, closed, mgrVars, prepare, ready, held>>

-----------------------------------------------------------------------------
(* The manager.                                                            *)

(* <-execHoldReqChan: of the goroutines that wait, any may be next.        *)
StartHold(h) ==
    /\ mgr.at = "select"
    /\ h \in requests
    /\ requests' = requests \ {h}
    /\ mgr' = [at |-> "prepare", hold |-> h]
    /\ toPrepare' = Subscriber
    /\ UNCHANGED <<user, closed, prepare, ready, held, releases, timedOut>>

(* prepareChan <- wg.                                                      *)
SendPrepare(s) ==
    /\ mgr.at = "prepare"
    /\ s \in toPrepare
    /\ prepare[s] = 0
    /\ prepare' = [prepare EXCEPT ![s] = mgr.hold]
    /\ toPrepare' = toPrepare \ {s}
    /\ UNCHANGED <<user, requests, closed, mgr, ready, held, releases, timedOut>>

(* groupReady, or groupReadyTimeout.                                       *)
GroupReady ==
    /\ mgr.at = "prepare"
    /\ toPrepare = {}
    /\ ready[mgr.hold] = Subscriber
    /\ mgr' = [mgr EXCEPT !.at = "allow"]
    /\ UNCHANGED <<user, requests, closed, toPrepare, prepare, ready, held,
                   releases, timedOut>>

GroupReadyTimeout ==
    /\ mgr.at = "prepare"
    /\ toPrepare = {}
    /\ ready[mgr.hold] # Subscriber
    /\ mgr' = [mgr EXCEPT !.at = "allow"]
    /\ timedOut' = timedOut \cup {mgr.hold}
    /\ UNCHANGED <<user, requests, closed, toPrepare, prepare, ready, held,
                   releases>>

(* The first <-releaseChan: a value sent, or a closed channel.             *)
AllowAccess ==
    /\ mgr.at = "allow"
    /\ \/ /\ user = [at |-> "send", hold |-> mgr.hold]
          /\ user' = [user EXCEPT !.at = "change"]
       \/ mgr.hold \in closed /\ UNCHANGED user
    /\ mgr' = [mgr EXCEPT !.at = "release"]
    /\ UNCHANGED <<requests, closed, toPrepare, prepare, ready, held, releases,
                   timedOut>>

(* A bug: a new globalReleaseChan is made, the old one not closed.         *)
HoldReleaseOpen ==
    /\ mgr.at = "release"
    /\ mgr.hold \in closed
    /\ mgr' = [mgr EXCEPT !.at = "select"]
    /\ UNCHANGED <<user, requests, closed, toPrepare, prepare, ready, held,
                   releases, timedOut>>

(* The second <-releaseChan, and the release of the subscribers.           *)
HoldRelease ==
    /\ mgr.at = "release"
    /\ mgr.hold \in closed
    /\ mgr' = [mgr EXCEPT !.at = "select"]
    /\ releases' = releases + 1
    /\ UNCHANGED <<user, requests, closed, toPrepare, prepare, ready, held,
                   timedOut>>

-----------------------------------------------------------------------------
(* A subscriber: handleGrpHold.                                            *)

(* gp.Done(), and the wait.                                                *)
HandleGrpHold(s) ==
    /\ s \notin held
    /\ prepare[s] # 0
    /\ prepare' = [prepare EXCEPT ![s] = 0]
    /\ ready' = [ready EXCEPT ![prepare[s]] = @ \cup {s}]
    /\ held' = held \cup {s}
    /\ UNCHANGED <<user, requests, closed, mgrVars>>

(* <-grpSubscriber.ReleaseChan(): the channel of the time of subscription, *)
(* which the first release closed for good.                                *)
Released(s) ==
    /\ s \in held
    /\ releases > 0
    /\ held' = held \ {s}
    /\ UNCHANGED <<user, requests, closed, mgrVars, prepare, ready>>

-----------------------------------------------------------------------------
Mgr ==
    \/ \E h \in Hold : StartHold(h)
    \/ \E s \in Subscriber : SendPrepare(s)
    \/ GroupReady
    \/ AllowAccess
    \/ HoldRelease

Next ==
    \/ RequestHold
    \/ Reconnect
    \/ Close
    \/ ReturnWithoutClose
    \/ Mgr
    \/ GroupReadyTimeout
    \/ \E s \in Subscriber : HandleGrpHold(s) \/ Released(s)

Spec == Init /\ [][Next]_vars

-----------------------------------------------------------------------------
(* Correctness.                                                            *)

(* In the first hold arec changes its epoch and the node map only while    *)
(* every subscriber is held, unless the manager gave up waiting for one:   *)
(* the value it sends first is taken only when all are ready.  From the    *)
(* second hold on this is lost, as nobody waits on a closed channel; lr    *)
(* and server, which send no value, never have it.                         *)
HeldDuringChange ==
    user.at = "change" /\ user.hold = 1 /\ 1 \notin timedOut
        => held = Subscriber

(* reconnect is done while the manager is on hold, as the comment on it    *)
(* demands. The code violates it: RequestHold only starts a goroutine that *)
(* sends the request.                                                      *)
ReconnectOnHold ==
    user.at = "reconnect" => mgr.at = "allow" /\ mgr.hold = user.hold

(* Holds whose requester has returned and left the channel open.           *)
LeftOpen ==
    {h \in 1..user.hold : h \notin closed /\ (h = user.hold => user.at = "idle")}

(* The manager waits for such a channel to be closed.                      *)
Stuck == mgr.at \in {"allow", "release"} /\ mgr.hold \in LeftOpen

(* Nobody stays held, and every hold asked for comes to its end, although  *)
(* requests may overtake each other and subscribers may be slow; only an   *)
(* error return of handleReconfigCmd that leaves its channel open stops    *)
(* the manager, and then whoever is held stays held for good, and no later *)
(* hold is served: there is no other way for the hold protocol to stop.    *)
HoldsEnd ==
    /\ \A s \in Subscriber : s \in held ~> s \notin held \/ Stuck
    /\ \A h \in Hold : user.hold = h ~> releases >= h \/ Stuck
=============================================================================
