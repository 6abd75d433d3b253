------------------------------ MODULE MCClients ------------------------------
(***************************************************************************)
(* Client handling for TLC: the way of requests, and within the client its *)
(* connection.  The two share no state, so a behaviour is one of either:   *)
(* the initial state says of which, and the variables of the other stay as *)
(* they are.                                                               *)
(*                                                                         *)
(* "path": a client with three requests and two replicas.                  *)
(* "connection": two requests of a client at a time, over two connections. *)
(***************************************************************************)
EXTENDS ClientParts, TLC

VARIABLE instance

MCInit ==
    /\ instance \in {"path", "connection"}
    /\ Init
    /\ Connection!Init

MCNext ==
    /\ UNCHANGED instance
    /\ \/ instance = "path" /\ Next /\ UNCHANGED connectionVars
       \/ instance = "connection" /\ Connection!Next /\ UNCHANGED vars

MCSpec == MCInit /\ [][MCNext]_<<instance, vars, connectionVars>>

Symmetry == Permutations(Replica)
=============================================================================
