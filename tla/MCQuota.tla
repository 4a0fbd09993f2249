------------------------------ MODULE MCQuota ------------------------------
(* Instances of Quota for TLC: a weekly capability and a total one that    *)
(* counts kibibytes, two tiers, and transactions that overlap.             *)
EXTENDS Quota

CONSTANTS a1, a2, u1, u2, c1, c2

MCCapabilities == {"SCORE_APPEAL", "UPLOAD_STORAGE_KIB"}
MCRenewing == {"SCORE_APPEAL"}
MCTiers == {"FREE", "PRO"}

MCResources == {a1, a2, u1, u2}
MCCapability == [r \in MCResources |->
  IF r \in {a1, a2} THEN "SCORE_APPEAL" ELSE "UPLOAD_STORAGE_KIB"]
MCQty == [r \in MCResources |-> IF r = u2 THEN 2 ELSE 1]
MCCallers == {c1, c2}

\* Any request may be sent twice, and any resource released by two callers at once.
MCRequests == [c \in MCCallers |-> MCResources]

MCLimit == [t \in MCTiers |->
  IF t = "FREE" THEN [c \in MCCapabilities |-> IF c = "SCORE_APPEAL" THEN 1 ELSE 2]
  ELSE [c \in MCCapabilities |-> IF c = "SCORE_APPEAL" THEN 2 ELSE 3]]
=============================================================================
