----------------------------- MODULE ScoreBook -----------------------------
(***************************************************************************)
(* What daily-tasks/daily-tasks.service.ts promises of scores: a check-in  *)
(* is scored once; after that only the verdict on an appeal changes its    *)
(* score (SPEC.md 5.6), and an appeal, against a score that is there, gets *)
(* one verdict.  How the score and the verdict come about is left open.    *)
(***************************************************************************)
CONSTANTS
  Checkins, Appeals,
  CheckinOf,   \* [Appeals -> Checkins]
  Scores,      \* the scores a check-in can have
  NoScore      \* there is no row in ai_scores; no member of Scores

VARIABLES
  score,    \* [Checkins -> Scores \cup {NoScore}]
  verdict   \* [Appeals -> {"NONE", "PENDING"} \cup Verdicts]

bookVars == <<score, verdict>>

Verdicts == {"RESCORED", "APPEAL_REJECTED"}

BookInit ==
  /\ score = [c \in Checkins |-> NoScore]
  /\ verdict = [a \in Appeals |-> "NONE"]

\* A check-in gets its first score.
Grade(c) ==
  /\ score[c] = NoScore
  /\ \E s \in Scores : score' = [score EXCEPT ![c] = s]
  /\ UNCHANGED verdict

\* An appeal is filed to be judged later.
File(a) ==
  /\ verdict[a] = "NONE"
  /\ score[CheckinOf[a]] # NoScore
  /\ verdict' = [verdict EXCEPT ![a] = "PENDING"]
  /\ UNCHANGED score

\* An appeal, filed before or by the same step, gets its verdict.
Accept(a) ==
  /\ verdict[a] \notin Verdicts
  /\ score[CheckinOf[a]] # NoScore
  /\ verdict' = [verdict EXCEPT ![a] = "RESCORED"]
  /\ \E s \in Scores : score' = [score EXCEPT ![CheckinOf[a]] = s]

Reject(a) ==
  /\ verdict[a] \notin Verdicts
  /\ score[CheckinOf[a]] # NoScore
  /\ verdict' = [verdict EXCEPT ![a] = "APPEAL_REJECTED"]
  /\ UNCHANGED score

BookNext ==
  \/ \E c \in Checkins : Grade(c)
  \/ \E a \in Appeals : File(a) \/ Accept(a) \/ Reject(a)

BookSpec == BookInit /\ [][BookNext]_bookVars
=============================================================================
