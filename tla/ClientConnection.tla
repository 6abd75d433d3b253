-------------------------- MODULE ClientConnection --------------------------
(***************************************************************************)
(* The client's connection (package client, replicaconn.go and             *)
(* serviceconnection.go): a goroutine per request (trySend), one more      *)
(* receiver (tryReceive) per handshake, any of which may find the          *)
(* connection broken and do the handshake with another replica.  They      *)
(* share the connection, its handshakeLock, and two flags that all clients *)
(* of the process share.                                                   *)
(*                                                                         *)
(* A broken or late read is ReadFails; so is what two receivers make of a  *)
(* frame they read together.  Of the replica (ClientHandlerTCP) there is    *)
(* what it answers, from agreement or from its last replies.               *)
(***************************************************************************)
EXTENDS Integers, Sequences, FiniteSets

CONSTANTS
    Client,
    MaxReq,   \* bound on the requests of each client, numbered from 0
    MaxConn,  \* bound on the connections of each client
    MaxFrames \* bound on frames in a connection, and on tokens

(* Frames: answers and requests by number, the hello and its answers.      *)
Hello == -1
Redirect == -2
ExecRedirect == -3   \* the answer to a request by who is not the leader
None == <<"none">>
Seqs(c) == 0..(MaxReq[c] - 1)

(* The goroutines of a client.                                             *)
Dialer(c) == <<c, "dial", 0>>
Sender(c, s) == <<c, "send", s>>
Receiver(c, k) == <<c, "recv", k>>
Threads(c) ==
    {Dialer(c)} \cup {Sender(c, s) : s \in Seqs(c)}
                \cup {Receiver(c, k) : k \in 1..MaxConn[c]}
Thread == UNION {Threads(c) : c \in Client}

VARIABLES
    handShaking, reconnecting,  \* the globals
    writer,      \* who holds a client's handshakeLock
    conns,       \* a client's connections; the last one is c.conn
    pc,          \* where a goroutine is
    at,          \* the connection it reads from or writes to
    own,         \* whether it took the lock in handshake
    recon,       \* whether its handshake is in reconnect
    reqSent,     \* tokens for the receivers
    resend,      \* requests to be sent again
    respMap,     \* requests that await a response
    result,      \* what the application got
    helloLost    \* a receiver has taken the answer to a hello

globals == <<handShaking, reconnecting>>
vars == <<globals, writer, conns, pc, at, own, recon, reqSent, resend,
          respMap, result, helloLost>>

Init ==
    /\ handShaking = FALSE /\ reconnecting = FALSE
    /\ writer = [c \in Client |-> None]
    /\ conns = [c \in Client |-> <<>>]
    /\ pc = [t \in Thread |-> IF t[2] = "dial" THEN "flag" ELSE "new"]
    /\ at = [t \in Thread |-> 0]
    /\ own = [t \in Thread |-> FALSE]
    /\ recon = [t \in Thread |-> FALSE]
    /\ reqSent = [c \in Client |-> 0]
    /\ resend = [c \in Client |-> {}]
    /\ respMap = [c \in Client |-> {}]
    /\ result = [c \in Client |-> [s \in Seqs(c) |-> "none"]]
    /\ helloLost = FALSE

Conn(c) == Len(conns[c])
Goto(t, l) == pc' = [pc EXCEPT ![t] = l]
Readers(c) == {t \in Threads(c) : pc[t] \in {"writing", "reading"}}

(* RLock waits for a writer, and for one that waits (sync.RWMutex).        *)
MayRLock(c) ==
    writer[c] = None /\ \A t \in Threads(c) : pc[t] # "lock"

-----------------------------------------------------------------------------
(* handshake.                                                              *)

(* The lock is taken by whoever finds that no one is handshaking.  The     *)
(* flags are not synchronised: they may change between test and set.       *)
CheckHandShaking(t) ==
    /\ pc[t] = "flag"
    /\ Goto(t, IF handShaking THEN "connect" ELSE "mark")
    /\ UNCHANGED <<globals, writer, conns, at, own, recon, reqSent, resend,
                   respMap, result, helloLost>>

MarkHandShaking(t) ==
    /\ pc[t] = "mark"
    /\ handShaking' = TRUE
    /\ own' = [own EXCEPT ![t] = TRUE]
    /\ Goto(t, "lock")
    /\ UNCHANGED <<reconnecting, writer, conns, at, recon, reqSent, resend,
                   respMap, result, helloLost>>

Lock(t) ==
    LET c == t[1] IN
    /\ pc[t] = "lock"
    /\ writer[c] = None /\ Readers(c) = {}
    /\ writer' = [writer EXCEPT ![c] = t]
    /\ Goto(t, "connect")
    /\ UNCHANGED <<globals, conns, at, own, recon, reqSent, resend, respMap,
                   result, helloLost>>

(* tcpConnect to the next replica, and the hello of exchangeID.            *)
Connect(t) ==
    LET c == t[1] IN
    /\ pc[t] = "connect"
    /\ Conn(c) < MaxConn[c]
    /\ conns' = [conns EXCEPT ![c] =
            Append(@, [ok |-> TRUE, out |-> <<Hello>>, in |-> <<>>])]
    /\ at' = [at EXCEPT ![t] = Conn(c) + 1]
    /\ Goto(t, "hello")
    /\ UNCHANGED <<globals, writer, own, recon, reqSent, resend, respMap,
                   result, helloLost>>

(* What handshake and reconnect do as they return.                         *)
Release(t) ==
    /\ handShaking' = (handShaking /\ ~own[t])
    /\ writer' = IF own[t] THEN [writer EXCEPT ![t[1]] = None] ELSE writer
    /\ own' = [own EXCEPT ![t] = FALSE]
    /\ reconnecting' = (reconnecting /\ ~recon[t])
    /\ recon' = [recon EXCEPT ![t] = FALSE]

(* Where a goroutine goes on with a connection: Dial ends, trySend writes  *)
(* again, tryReceive has the outstanding requests sent again.              *)
Continue(t, role) ==
    CASE role = "dial" -> "ended" [] role = "send" -> "rlock" [] role = "recv" -> "token"

Resends(t) ==
    resend' = IF t[2] = "recv"
              THEN [resend EXCEPT ![t[1]] = @ \cup respMap[t[1]]] ELSE resend

(* The answer to the hello: on a redirect handshake calls itself, with the *)
(* lock it may have; else there is one more receiver.                      *)
ReadHello(t) ==
    LET c == t[1]
        k == at[t]
        f == Head(conns[c][k].in) IN
    /\ pc[t] = "hello"
    /\ conns[c][k].in # <<>> /\ f \in {Hello, Redirect}
    /\ conns' = [conns EXCEPT ![c][k].in = Tail(@), ![c][k].ok = @ /\ f # Redirect]
    /\ IF f = Redirect
       THEN /\ Goto(t, "flag")
            /\ UNCHANGED <<globals, writer, own, recon, resend>>
       ELSE /\ pc' = [pc EXCEPT ![t] = Continue(t, t[2]),
                                ![Receiver(c, k)] = "token"]
            /\ Release(t)
            /\ Resends(t)
    /\ at' = [at EXCEPT ![t] = 0]
    /\ UNCHANGED <<reqSent, respMap, result, helloLost>>

(* The results of outstanding requests that got none yet.                  *)
Give(c, seqs, res) ==
    result' = [result EXCEPT ![c] =
        [s \in Seqs(c) |-> IF s \in seqs /\ @[s] = "none" THEN res ELSE @[s]]]

(* No replica can be reached, the connection is lost, or the response is   *)
(* not one to a hello.                                                     *)
NoHandshake(t) ==
    \/ pc[t] = "connect"
    \/ /\ pc[t] = "hello"
       /\ LET conn == conns[t[1]][at[t]] IN
          \/ ~conn.ok
          \/ conn.in # <<>> /\ Head(conn.in) \notin {Hello, Redirect}

(* A bug: reconnect returns the error and leaves its flag set.             *)
HandshakeFailsReconnecting(t) ==
    LET c == t[1] IN
    /\ NoHandshake(t)
    /\ handShaking' = (handShaking /\ ~own[t])
    /\ writer' = IF own[t] THEN [writer EXCEPT ![c] = None] ELSE writer
    /\ own' = [own EXCEPT ![t] = FALSE]
    /\ recon' = [recon EXCEPT ![t] = FALSE]
    /\ Goto(t, "failed")
    /\ Give(c, CASE t[2] = "dial" -> {} [] t[2] = "send" -> {t[3]}
                 [] t[2] = "recv" -> respMap[c], "failed")
    /\ at' = [at EXCEPT ![t] = 0]
    /\ UNCHANGED <<reconnecting, conns, reqSent, resend, respMap, helloLost>>

(* The handshake fails: trySend gives up, tryReceive for all requests.     *)
HandshakeFails(t) ==
    LET c == t[1] IN
    /\ NoHandshake(t)
    /\ Release(t)
    /\ Goto(t, "failed")
    /\ Give(c, CASE t[2] = "dial" -> {} [] t[2] = "send" -> {t[3]}
                 [] t[2] = "recv" -> respMap[c], "failed")
    /\ at' = [at EXCEPT ![t] = 0]
    /\ UNCHANGED <<conns, reqSent, resend, respMap, helloLost>>

(* reconnect: nothing if the process is reconnecting already.              *)
Reconnect(t) ==
    /\ Goto(t, IF reconnecting THEN Continue(t, t[2]) ELSE "set")
    /\ IF reconnecting THEN Resends(t) ELSE UNCHANGED resend

SetReconnecting(t) ==
    /\ pc[t] = "set"
    /\ reconnecting' = TRUE
    /\ recon' = [recon EXCEPT ![t] = TRUE]
    /\ Goto(t, "flag")
    /\ UNCHANGED <<handShaking, writer, conns, at, own, reqSent, resend,
                   respMap, result, helloLost>>

-----------------------------------------------------------------------------
(* trySend.                                                                *)

(* Send, by the application, once Dial has returned.                       *)
Send(c, s) ==
    /\ pc[Dialer(c)] = "ended"
    /\ pc[Sender(c, s)] = "new"
    /\ \A p \in 0..(s - 1) : pc[Sender(c, p)] # "new"
    /\ respMap' = [respMap EXCEPT ![c] = @ \cup {s}]
    /\ Goto(Sender(c, s), "rlock")
    /\ UNCHANGED <<globals, writer, conns, at, own, recon, reqSent, resend,
                   result, helloLost>>

RLock(t) ==
    LET c == t[1] IN
    /\ pc[t] = "rlock" /\ MayRLock(c)
    /\ at' = [at EXCEPT ![t] = Conn(c)]
    /\ Goto(t, IF t[2] = "send" THEN "writing" ELSE "reading")
    /\ UNCHANGED <<globals, writer, conns, own, recon, reqSent, resend,
                   respMap, result, helloLost>>

Write(t) ==
    LET c == t[1]
        conn == conns[c][at[t]] IN
    /\ pc[t] = "writing"
    /\ Len(conn.out) + Len(conn.in) < MaxFrames /\ reqSent[c] < MaxFrames
    /\ IF conn.ok
       THEN /\ conns' = [conns EXCEPT ![c][at[t]].out = Append(@, t[3])]
            /\ reqSent' = [reqSent EXCEPT ![c] = @ + 1]
            /\ Goto(t, "await")
            /\ UNCHANGED resend
       ELSE /\ Reconnect(t)
            /\ UNCHANGED <<conns, reqSent>>
    /\ at' = [at EXCEPT ![t] = 0]
    /\ UNCHANGED <<globals, recon, writer, own, respMap, result, helloLost>>

(* The select of trySend: a response, a resend, or the timeout.            *)
Await(t) ==
    LET c == t[1]
        s == t[3] IN
    /\ pc[t] = "await"
    /\ \/ /\ result[c][s] \in {"answered", "empty"}
          /\ respMap' = [respMap EXCEPT ![c] = @ \ {s}]
          /\ Goto(t, "ended")
          /\ UNCHANGED <<resend, result>>
       \/ /\ s \in resend[c]
          /\ resend' = [resend EXCEPT ![c] = @ \ {s}]
          /\ Goto(t, "rlock")
          /\ UNCHANGED <<respMap, result>>
       \/ /\ Give(c, {s}, "failed")
          /\ respMap' = [respMap EXCEPT ![c] = @ \ {s}]
          /\ Goto(t, "ended")
          /\ UNCHANGED resend
    /\ UNCHANGED <<globals, writer, conns, at, own, recon, reqSent, helloLost>>

-----------------------------------------------------------------------------
(* tryReceive.                                                             *)

TakeToken(t) ==
    LET c == t[1] IN
    /\ pc[t] = "token" /\ reqSent[c] > 0
    /\ reqSent' = [reqSent EXCEPT ![c] = @ - 1]
    /\ Goto(t, "rlock")
    /\ UNCHANGED <<globals, writer, conns, at, own, recon, resend, respMap,
                   result, helloLost>>

(* A response: a redirect has no number, nor has the answer to a hello;    *)
(* the number read from them is 0.                                         *)
Read(t) ==
    LET c == t[1]
        k == at[t]
        f == Head(conns[c][k].in) IN
    /\ pc[t] = "reading"
    /\ conns[c][k].in # <<>>
    /\ conns' = [conns EXCEPT ![c][k].in = Tail(@)]
    /\ helloLost' = (helloLost \/ f \in {Hello, Redirect})
    /\ IF f >= 0 THEN Give(c, respMap[c] \cap {f}, "answered")
                 ELSE Give(c, respMap[c] \cap {0}, "empty")
    /\ Goto(t, "token")
    /\ at' = [at EXCEPT ![t] = 0]
    /\ UNCHANGED <<globals, writer, own, recon, reqSent, resend, respMap>>

ReadFails(t) ==
    /\ pc[t] = "reading"
    /\ Reconnect(t)
    /\ at' = [at EXCEPT ![t] = 0]
    /\ UNCHANGED <<globals, recon, writer, conns, own, reqSent, respMap,
                   result, helloLost>>

-----------------------------------------------------------------------------
(* greetClient and handleRequest answer, with a redirect if the replica is *)
(* not the leader or is no longer.                                         *)
Serve(c, k) ==
    LET f == Head(conns[c][k].out) IN
    /\ conns[c][k].ok /\ conns[c][k].out # <<>>
    /\ \E g \in {f, IF f = Hello THEN Redirect ELSE ExecRedirect} :
        conns' = [conns EXCEPT ![c][k].out = Tail(@), ![c][k].in = Append(@, g)]
    /\ UNCHANGED <<globals, writer, pc, at, own, recon, reqSent, resend,
                   respMap, result, helloLost>>

(* The connection is lost.                                                 *)
Break(c, k) ==
    /\ conns[c][k].ok
    /\ conns' = [conns EXCEPT ![c][k] = [ok |-> FALSE, out |-> <<>>, in |-> <<>>]]
    /\ UNCHANGED <<globals, writer, pc, at, own, recon, reqSent, resend,
                   respMap, result, helloLost>>

-----------------------------------------------------------------------------
Step(t) ==
    \/ CheckHandShaking(t) \/ MarkHandShaking(t) \/ SetReconnecting(t)
    \/ Lock(t) \/ Connect(t)
    \/ ReadHello(t) \/ HandshakeFails(t) \/ RLock(t) \/ Write(t) \/ Await(t)
    \/ TakeToken(t) \/ Read(t) \/ ReadFails(t)

Next ==
    \/ \E t \in Thread : Step(t)
    \/ \E c \in Client : \E s \in Seqs(c) : Send(c, s)
    \/ \E c \in Client : \E k \in DOMAIN conns[c] : Serve(c, k) \/ Break(c, k)

Spec == Init /\ [][Next]_vars

-----------------------------------------------------------------------------
(* Correctness.                                                            *)

(* Where a goroutine is in handshake.                                      *)
HandshakePc == {"flag", "mark", "lock", "connect", "hello"}

(* Whatever is set or locked has an owner that is still in its handshake,  *)
(* the return of which undoes it: however goroutines race for the flags    *)
(* that all clients share, and whichever handshakes fail or are done       *)
(* within another, nobody leaves a flag set behind (then no goroutine      *)
(* would reconnect any more), or reads or writes with the lock.  That a    *)
(* handshake returns it does not say (see NoSelfDeadlock).                 *)
FlagsHaveOwner ==
    /\ handShaking => \E t \in Thread : own[t] /\ pc[t] \in HandshakePc
    /\ reconnecting => \E t \in Thread : recon[t] /\ pc[t] \in HandshakePc
    /\ \A c \in Client : writer[c] # None =>
          /\ writer[c] \in Threads(c)
          /\ own[writer[c]] /\ pc[writer[c]] \in HandshakePc

(* Nobody waits for the lock it has. The code violates it: handshake calls *)
(* itself on a redirect, and finds that no one is handshaking when another *)
(* goroutine, which found so too, has reset handShaking meanwhile.         *)
NoSelfDeadlock ==
    \A t \in Thread : pc[t] = "lock" => writer[t[1]] # t

(* tryReceive never reads the response that exchangeID waits for: this is  *)
(* what handshakeLock is for. The code violates it when two goroutines do  *)
(* a handshake, as those of two clients may: the one that finds handShaking*)
(* set does it without the lock.                                           *)
HelloForHandshake == ~helloLost

(* A redirect finds no request that waits for it, as tryReceive's comment  *)
(* says, and is not taken for the answer to one. The code violates it for  *)
(* request 0, the number read from a redirect.                             *)
RedirectNoAnswer ==
    \A c \in Client : \A s \in Seqs(c) : result[c][s] # "empty"

(* read and write are not thread-safe, and no two goroutines are in one of *)
(* them on the same connection. The code violates it with two requests at  *)
(* a time: write takes the lock for reading only.                          *)
UsedByOne ==
    \A t, u \in Thread :
        /\ t # u /\ t[1] = u[1] /\ at[t] = at[u] /\ at[t] > 0
        => ~(pc[t] = pc[u] /\ pc[t] \in {"writing", "reading"})
=============================================================================
