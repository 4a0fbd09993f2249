------------------------------ MODULE MCGoals ------------------------------
(* Two requests, one worker: the pairs of kinds that touch the same rows, with *)
(* and without the queue where it makes a difference.                         *)
EXTENDS Goals

CONSTANTS r1, r2

Pair(a, b) == [r \in Requests |-> IF r = r1 THEN a ELSE b]
MCSettlements ==
  {Pair("settle", k) : k \in {"settle", "get", "cancel", "admin", "backfill", "restart", "checkin"}}
    \X {TRUE, FALSE}
MCReports == {Pair("trend", "health")} \X {FALSE}
MCTrends == {Pair("later", "health"), Pair("trend", "later")} \X {FALSE}
MCMixes ==
  MCSettlements
  \cup {Pair("rescue", k) : k \in {"rescue", "health", "checkin"}} \X {TRUE, FALSE}
  \cup {<<Pair("rescue", "cancel"), TRUE>>}
  \cup {Pair("report", k) : k \in {"cancel", "admin"}} \X {FALSE}
  \cup {Pair("milestone", k) : k \in {"milestone", "backfill"}} \X {FALSE}
  \cup {<<Pair("health", "checkin"), FALSE>>}
  \cup MCReports \cup MCTrends \cup {<<Pair("trend", "backfill"), FALSE>>}
\* A trend needs the snapshots of two days.
MCMaxAsks == [m \in Mixes |-> IF m \in MCSettlements \cup MCReports THEN 3 ELSE 2]
MCTrendDays == [t \in {"WEEKLY_TREND", "MONTHLY_TREND"} |-> IF t = "WEEKLY_TREND" THEN 1 ELSE 2]
MCSignals == {{}, {"LOW_SCORE", "LOW_INVESTMENT"}}
============================================================================
