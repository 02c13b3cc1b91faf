----------------------------- MODULE MCPlanDays -----------------------------
(* Instances of PlanDays for TLC. *)
EXTENDS PlanDays, TLC

CONSTANTS f1, f2, k1, k2, trip

\* Two runs of a job are the same job.
SameRuns == Permutations({f1, f2}) \cup Permutations({k1, k2})
=============================================================================
