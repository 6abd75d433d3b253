----------------------------- MODULE RequestPath ----------------------------
(***************************************************************************)
(* The way of a request: from a client to the client handler of the leader *)
(* (client/srv_clienthandler_tcp.go), into a batch of the server           *)
(* (server/run.go), through Paxos, and back as the answer to its           *)
(* execution.  The client (client/replicaconn.go) has one request out at a *)
(* time, sends it again on a new connection, and reads one response for    *)
(* each time it sent one.                                                  *)
(*                                                                         *)
(* Of Paxos there is that proposals are put in an order that every replica *)
(* executes, or lost (a proposer clears its queue).  A request is its      *)
(* sequence number; the sequence numbers start with 0.                     *)
(***************************************************************************)
EXTENDS Integers, Sequences, FiniteSets, SequencesExt

CONSTANTS
    Replica, Nobody,
    BatchMaxSize,
    MaxSeq,                        \* bound: how many requests
    MaxBreaks, MaxLost, MaxTrusts  \* bounds on faults

ASSUME PathAssumption ==
    /\ Replica # {} /\ Nobody \notin Replica
    /\ BatchMaxSize \in Nat \ {0}
    /\ {MaxSeq, MaxBreaks, MaxLost, MaxTrusts} \subseteq Nat

Request == 0..(MaxSeq - 1)
NoReply == -1
Redirect == -1   \* a response without a number

(* The number tryReceive reads from a response: 0 where there is none.     *)
GetSeq(resp) == IF resp = Redirect THEN 0 ELSE resp

VARIABLES
    seq,         \* the request the client has out, MaxSeq at the end
    pc,          \* of trySend: about to write, or waiting for the answer
    reqSent,     \* tokens for tryReceive, one for each write
    failed,      \* requests that were given up
    redirected,  \* requests that a redirect ended: answered with nothing
    server,      \* the replica the client is connected to
    sent,        \* how often the client has sent each request
    leader,      \* of the client handlers
    reqChan,     \* requests on their way to each client handler
    connected,   \* replicas that have a ClientConn which is connected
    replies,     \* the last reply of each, or NoReply
    buffer,      \* batchBuffer up to batchNextIndex
    batchTimer,  \* replicas whose timer runs
    log,         \* the batches as Paxos ordered them
    aru,         \* how many of them each replica has executed
    back,        \* responses on their way to the client
    breaks, lost, trusts

client == <<seq, pc, reqSent, failed, redirected>>
path == <<client, server, sent, reqChan, connected, replies, buffer, batchTimer,
          log, aru, back>>
faults == <<breaks, lost, trusts>>
vars == <<path, leader, faults>>

Init ==
    /\ seq = 0 /\ pc = "write" /\ reqSent = 0 /\ failed = {} /\ redirected = {}
    /\ server = Nobody
    /\ sent = [s \in Request |-> 0]
    /\ leader \in Replica
    /\ reqChan = [r \in Replica |-> <<>>]
    /\ connected = {}
    /\ replies = [r \in Replica |-> NoReply]
    /\ buffer = [r \in Replica |-> <<>>]
    /\ batchTimer = {}
    /\ log = <<>>
    /\ aru = [r \in Replica |-> 0]
    /\ back = <<>>
    /\ breaks = 0 /\ lost = 0 /\ trusts = 0

-----------------------------------------------------------------------------
(* The client.                                                             *)

(* A copy of the request is on its way, or its answer is.                  *)
OnItsWay ==
    \/ server # Nobody /\ Contains(reqChan[server], seq)
    \/ \E r \in Replica : Contains(buffer[r], seq)
    \/ \E i \in 1..Len(log) : Contains(log[i], seq) /\ server # Nobody /\ i > aru[server]
    \/ Contains(back, seq)

(* The handshake with the leader (greetClient; others redirect to it).     *)
Connect(r) ==
    /\ server = Nobody
    /\ r = leader
    /\ server' = r
    /\ connected' = connected \cup {r}
    /\ UNCHANGED <<client, sent, reqChan, replies, buffer, batchTimer, log, aru,
                   back, leader, faults>>

(* trySend writes the request.                                             *)
SendRequest ==
    /\ pc = "write" /\ server # Nobody /\ seq \in Request
    /\ pc' = "await"
    /\ reqSent' = reqSent + 1
    /\ reqChan' = [reqChan EXCEPT ![server] = Append(@, seq)]
    /\ sent' = [sent EXCEPT ![seq] = @ + 1]
    /\ UNCHANGED <<seq, failed, redirected, server, connected, replies, buffer,
                   batchTimer, log, aru, back, leader, faults>>

(* The next request follows.                                               *)
NextRequest == seq' = seq + 1 /\ pc' = "write"

(* A bug: a response is taken for the answer to the request that is out.   *)
ReceiveAny ==
    /\ reqSent > 0 /\ back # <<>>
    /\ reqSent' = reqSent - 1
    /\ back' = Tail(back)
    /\ IF pc = "await" THEN NextRequest ELSE UNCHANGED <<seq, pc>>
    /\ UNCHANGED <<failed, redirected, server, sent, reqChan, connected, replies, buffer,
                   batchTimer, log, aru, leader, faults>>

(* tryReceive: a response with another number is ignored.  Request 0 is    *)
(* answered by a redirect as well.                                         *)
Receive ==
    /\ reqSent > 0 /\ back # <<>>
    /\ reqSent' = reqSent - 1
    /\ back' = Tail(back)
    /\ IF pc = "await" /\ GetSeq(Head(back)) = seq
       THEN /\ NextRequest
            /\ redirected' = IF Head(back) = Redirect THEN redirected \cup {seq}
                             ELSE redirected
       ELSE UNCHANGED <<seq, pc, redirected>>
    /\ UNCHANGED <<failed, server, sent, reqChan, connected, replies, buffer,
                   batchTimer, log, aru, leader, faults>>

(* The connection is given up.  A read that fails triggers the resending   *)
(* of the request that is out; so does the next write.                     *)
Disconnect ==
    /\ server # Nobody
    /\ server' = Nobody
    /\ back' = <<>>
    /\ IF reqSent > 0 THEN reqSent' = reqSent - 1 /\ pc' = "write"
       ELSE UNCHANGED <<reqSent, pc>>
    /\ UNCHANGED <<seq, failed, redirected, sent, reqChan, connected, replies,
                   buffer, batchTimer, log, aru, leader, lost, trusts>>

(* tryReceive has waited for readTimeout, and nothing is to come.          *)
ReadTimeout == reqSent > 0 /\ back = <<>> /\ ~OnItsWay /\ Disconnect /\ UNCHANGED breaks

(* The connection breaks, or readTimeout is too short.  The server's side  *)
(* still hands on what it has read.                                        *)
Break == breaks < MaxBreaks /\ breaks' = breaks + 1 /\ Disconnect

(* awaitResponseTimeout, three times readTimeout: nobody reads any more.   *)
GiveUp ==
    /\ pc = "await" /\ reqSent = 0 /\ server # Nobody
    /\ failed' = failed \cup {seq}
    /\ NextRequest
    /\ UNCHANGED <<reqSent, redirected, server, sent, reqChan, connected, replies,
                   buffer, batchTimer, log, aru, back, leader, faults>>

(* A response that is not written in time is lost, the connection stays    *)
(* (handleRespChan).                                                       *)
LoseResponse ==
    /\ back # <<>> /\ lost < MaxLost
    /\ lost' = lost + 1
    /\ back' = Tail(back)
    /\ UNCHANGED <<client, server, sent, reqChan, connected, replies, buffer,
                   batchTimer, log, aru, leader, breaks, trusts>>

Notice(r) ==
    /\ r \in connected /\ server # r
    /\ connected' = connected \ {r}
    /\ reqChan' \in {reqChan, [reqChan EXCEPT ![r] = <<>>]}
    /\ UNCHANGED <<client, server, sent, replies, buffer, batchTimer, log, aru, back,
                   leader, faults>>

-----------------------------------------------------------------------------
(* The server.                                                             *)

(* The proposer orders a batch or loses it.                                *)
Propose(b) ==
    \/ log' = Append(log, b) /\ UNCHANGED lost
    \/ lost < MaxLost /\ lost' = lost + 1 /\ UNCHANGED log

(* A bug: the index into the buffer is not reset.                          *)
SendBatchKept(r, b) ==
    /\ Propose(b)
    /\ buffer' = [buffer EXCEPT ![r] = SubSeq(b, 1, BatchMaxSize - 1)]
    /\ batchTimer' = batchTimer \ {r}

(* sendBatch                                                               *)
SendBatch(r, b) ==
    /\ Propose(b)
    /\ buffer' = [buffer EXCEPT ![r] = <<>>]
    /\ batchTimer' = batchTimer \ {r}

(* A bug: the timer is not started for the first request of a batch.       *)
AppendToBatchUntimed(r, s) ==
    LET b == Append(buffer[r], s)
    IN  IF Len(b) = BatchMaxSize THEN SendBatch(r, b)
        ELSE /\ buffer' = [buffer EXCEPT ![r] = b]
             /\ UNCHANGED <<batchTimer, log, lost>>

(* appendToBatch, and the batch is sent when it is full.                   *)
AppendToBatch(r, s) ==
    LET b == Append(buffer[r], s)
    IN  IF Len(b) = BatchMaxSize THEN SendBatch(r, b)
        ELSE /\ buffer' = [buffer EXCEPT ![r] = b]
             /\ batchTimer' = IF buffer[r] = <<>> THEN batchTimer \cup {r} ELSE batchTimer
             /\ UNCHANGED <<log, lost>>

(* handleRequest: a redirect, the stored reply, or on to the server.       *)
HandleRequest(r) ==
    /\ reqChan[r] # <<>>
    /\ reqChan' = [reqChan EXCEPT ![r] = Tail(@)]
    /\ LET s == Head(reqChan[r])
       IN  \/ /\ r # leader
              /\ back' = IF server = r THEN Append(back, Redirect) ELSE back
              /\ UNCHANGED <<buffer, batchTimer, log, lost>>
           \/ /\ r = leader /\ s = replies[r]
              /\ back' = IF server = r THEN Append(back, s) ELSE back
              /\ UNCHANGED <<buffer, batchTimer, log, lost>>
           \/ /\ r = leader /\ s # replies[r]
              /\ AppendToBatch(r, s)
              /\ UNCHANGED back
    /\ UNCHANGED <<client, server, sent, connected, replies, aru, leader, breaks, trusts>>

(* <-batchTimer.C                                                          *)
BatchTimeout(r) ==
    /\ r \in batchTimer
    /\ SendBatch(r, buffer[r])
    /\ UNCHANGED <<client, server, sent, reqChan, connected, replies, aru, back, leader,
                   breaks, trusts>>

(* handleDecidedVal, and handleResponse for each response: it is stored    *)
(* and written if there is a connection.                                   *)
Execute(r) ==
    /\ aru[r] < Len(log)
    /\ aru' = [aru EXCEPT ![r] = @ + 1]
    /\ LET b == log[aru'[r]]
       IN  /\ replies' = IF r \in connected THEN [replies EXCEPT ![r] = Last(b)]
                         ELSE replies
           /\ back' = IF r \in connected /\ server = r THEN back \o b ELSE back
    /\ UNCHANGED <<client, server, sent, reqChan, connected, buffer, batchTimer, log,
                   leader, faults>>

(* <-trust                                                                 *)
Trust(r) ==
    /\ r # leader /\ trusts < MaxTrusts
    /\ trusts' = trusts + 1
    /\ leader' = r
    /\ UNCHANGED <<path, breaks, lost>>

Next ==
    \/ SendRequest \/ Receive \/ ReadTimeout \/ Break \/ GiveUp \/ LoseResponse
    \/ \E r \in Replica :
        \/ Connect(r) \/ Notice(r)
        \/ HandleRequest(r) \/ BatchTimeout(r) \/ Execute(r) \/ Trust(r)

Spec == Init /\ [][Next]_vars

-----------------------------------------------------------------------------
(* Correctness.                                                            *)

(* How often request s is in the batches of the log.                       *)
Occurs(s) ==
    Cardinality({p \in (1..Len(log)) \X (1..BatchMaxSize) :
                    p[2] <= Len(log[p[1]]) /\ log[p[1]][p[2]] = s})

(* A request is executed no more often than the client sent it: batches    *)
(* share no requests, whether they are full or timed out.                  *)
ExecutedAsSent == \A s \in Request : Occurs(s) <= sent[s]

(* Requests are first executed in the order of their numbers: the client   *)
(* goes on when the request was executed.  Left out are those it gave up,  *)
(* and request 0 when a redirect ended it; no other is ended by one.       *)
FirstInOrder ==
    /\ redirected \subseteq {0}
    /\ \A i \in 1..Len(log) : \A s \in Range(log[i]) :
          \A t \in (0..(s - 1)) \ (failed \cup redirected) :
              \E k \in 1..i : Contains(log[k], t)

(* Every request ends, answered or given up, although connections break,   *)
(* proposals get lost, leaders change and replies are kept for connected   *)
(* clients only.                                                           *)
AllEnd == <>(seq = MaxSeq)

(* The receiver that waits for a response will read the one that has come  *)
(* to the request that is out, also if there were several to the last one. *)
(* The code violates it: the second answer to a request is read in place   *)
(* of the answer to the next.                                              *)
AnswerRead == pc = "await" /\ Contains(back, seq) => reqSent > 0
=============================================================================
