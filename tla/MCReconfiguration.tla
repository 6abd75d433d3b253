-------------------------- MODULE MCReconfiguration --------------------------
(***************************************************************************)
(* ReconfigurationParts for TLC.  The replacements of asynchronous         *)
(* reconfiguration, by two of three replicas at the same time: d takes the *)
(* place of c, and e that of a.                                            *)
(***************************************************************************)
EXTENDS ReconfigurationParts, TLC

CONSTANTS a, b, c, d, e

MCPid == a :> 0 @@ b :> 1 @@ c :> 2 @@ d :> 2 @@ e :> 0

MCCommands == {[by |-> a, new |-> {d}], [by |-> b, new |-> {e}]}
=============================================================================
