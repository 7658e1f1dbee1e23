----------------------------- MODULE MCToolCall -----------------------------
(***************************************************************************)
(* An instance of ToolCall for TLC: a caller with a tool object of its own *)
(* that calls often enough to open its breaker and to probe it, beside a   *)
(* caller with a job that can be stopped, also while it calls again.       *)
(***************************************************************************)
EXTENDS ToolCall, TLC

CONSTANTS sync, agent, i1, i2

Objects == sync :> i1 @@ agent :> i2
HowOften == sync :> 4 @@ agent :> 2

\* The smallest limits there are, for histories of the quotas that stay short.
Least == "global" :> 0 @@ "vendor" :> 0
Limits == "global" :> 2 @@ "vendor" :> 2
=============================================================================
