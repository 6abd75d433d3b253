--------------------------- MODULE BroadcastParts ---------------------------
(***************************************************************************)
(* The broadcast protocols side by side.  The three share no state, so a   *)
(* behaviour is one of a single protocol: the initial state says of which, *)
(* and the variables of the others stay as they are.                       *)
(*                                                                         *)
(* "relbc", "authbc": the rounds of the two packages.                      *)
(* "window": a publisher and its learners, over the rounds.                *)
(***************************************************************************)
EXTENDS ReliableBroadcast

CONSTANTS
    AuthLearner,  \* the learners of "authbc" and of "window"
    MaxForward, Alpha, Total, Width

ASSUME AuthLearnerAssumption == AuthLearner \subseteq Correct
(* The number of acceptors is a uint.                                      *)
ASSUME WindowAssumption ==
    /\ Alpha \in Nat /\ Total \in Nat /\ Width \in Nat
    /\ 2^Width \in Nat
    /\ Cardinality(AuthLearner) < 2^Width

VARIABLES
    protocol,
    aPub, aValue, aForwards, aHandled, aLforwards, aDecided, aResp, aLearned,
    wCurrent, wMaxdecided, wPrevmaxdecided, wCounts, wFailedReplicas,
    wLearned, wMaxlearned, wDelivered, wReports

Authbc == INSTANCE AuthenticatedBroadcast WITH
    Learner <- AuthLearner,
    pub <- aPub, value <- aValue, forwards <- aForwards, handled <- aHandled,
    lforwards <- aLforwards, decided <- aDecided, resp <- aResp,
    learned <- aLearned

Window == INSTANCE PublishWindow WITH
    Replica <- AuthLearner,
    current <- wCurrent, maxdecided <- wMaxdecided,
    prevmaxdecided <- wPrevmaxdecided, counts <- wCounts,
    failedReplicas <- wFailedReplicas, learned <- wLearned,
    maxlearned <- wMaxlearned, delivered <- wDelivered, reports <- wReports

authbcVars == <<aPub, aValue, aForwards, aHandled, aLforwards, aDecided, aResp,
                aLearned>>
windowVars == <<wCurrent, wMaxdecided, wPrevmaxdecided, wCounts,
                wFailedReplicas, wLearned, wMaxlearned, wDelivered, wReports>>

PartsInit ==
    /\ protocol \in {"relbc", "authbc", "window"}
    /\ Init /\ Authbc!Init /\ Window!Init

RelbcNext ==
    protocol = "relbc" /\ Next /\ UNCHANGED <<authbcVars, windowVars>>
AuthbcNext ==
    protocol = "authbc" /\ Authbc!Next /\ UNCHANGED <<vars, windowVars>>
WindowNext ==
    protocol = "window" /\ Window!Next /\ UNCHANGED <<vars, authbcVars>>

PartsNext == UNCHANGED protocol /\ (RelbcNext \/ AuthbcNext \/ WindowNext)

PartsSpec == PartsInit /\ [][PartsNext]_<<protocol, vars, authbcVars, windowVars>>

(* No two learners of authenticatedbc decide different values, though the  *)
(* publisher sends what it likes to whom (authlearner.go; see              *)
(* AuthenticatedBroadcast).                                                *)
AuthbcAgrees == Authbc!LearnersAgree

(* Until a round is forced, relbcpublisher.go's window keeps the publisher *)
(* within alpha rounds of every learner, and each delivers in order (see   *)
(* PublishWindow).                                                         *)
WaitsForAll == Window!WaitsForAll
=============================================================================
