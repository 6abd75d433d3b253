---------------------------- MODULE ClientParts ----------------------------
(***************************************************************************)
(* The way of requests with the connections of the clients of a process.   *)
(* The two share no state here: each is a specification of its own over    *)
(* its own variables.                                                      *)
(***************************************************************************)
EXTENDS RequestPath

CONSTANTS
    Client,
    MaxRequests,      \* bound on the requests of each client
    MaxConnections,   \* bound on the connections of each client
    MaxFrames

ASSUME ConnectionAssumption == MaxConnections \in Nat

VARIABLES
    handShaking, reconnecting, writer, conns, threadPc, at, own, recon,
    tokens, resend, respMap, result, helloLost

Connection == INSTANCE ClientConnection WITH
    MaxReq <- [c \in Client |-> MaxRequests],
    MaxConn <- [c \in Client |-> MaxConnections],
    pc <- threadPc, reqSent <- tokens

connectionVars == <<handShaking, reconnecting, writer, conns, threadPc, at,
                    own, recon, tokens, resend, respMap, result, helloLost>>

(* The flags and locks of serviceconnection.go and replicaconn.go are not  *)
(* left behind by any handshake that returns, whatever goes wrong          *)
(* (ClientConnection).                                                     *)
FlagsHaveOwner == Connection!FlagsHaveOwner

(* No two goroutines of a client are in read, or in write, on the same     *)
(* connection (ClientConnection), as neither is safe for that.  The code   *)
(* violates it.                                                            *)
UsedByOne == Connection!UsedByOne
=============================================================================
