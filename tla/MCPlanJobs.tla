----------------------------- MODULE MCPlanJobs -----------------------------
(* Instances of PlanJobs for TLC. *)
EXTENDS PlanJobs

CONSTANTS g1, g2, j1, j2, j3, j4, c1, c2, n1, n2, s1, a1

AllGenerate == [j \in Jobs |-> "generate"]
ReplanThird == [j \in Jobs |-> IF j = j3 THEN "replan" ELSE "generate"]
OnFirst == [j \in Jobs |-> g1]
OnEach == [j \in Jobs |-> IF j = j2 THEN g2 ELSE g1]

Free == {"FREE"}
FreeLimit == [t \in Free |-> [ACTIVE_GOAL |-> 1, PLAN_GENERATION |-> 2, GOAL_REPLAN |-> 1]]
=============================================================================
