------------------------------ MODULE Checkins ------------------------------
(***************************************************************************)
(* Check-ins, their scores and the appeals against them                    *)
(* (daily-tasks/daily-tasks.service.ts) for the tasks of one user.         *)
(*                                                                         *)
(* A submission completes a task: it creates a check-in and the AI job     *)
(* that scores it, under the same name here.  An appeal creates a job too. *)
(* Synchronously the request asks the model provider before its quota      *)
(* transaction, which then writes the result; asynchronously it leaves a   *)
(* QUEUED job to the worker.  Nothing is locked in between.  The jobs may  *)
(* be cancelled, retried by an administrator and enqueued again by         *)
(* reconciliation like those of PlanJobs.                                  *)
(*                                                                         *)
(* Left out: what check-ins and appeals say beyond what makes the service  *)
(* refuse them, the dimensions of a score, growth events, the goal's       *)
(* status at submission, deletion of a goal (whose cascade alone makes a   *)
(* job's check-in go missing).  Of the quota ledger, module Quota, a job's *)
(* usage record is kept here, and any charge may be refused.               *)
(***************************************************************************)
EXTENDS Integers, FiniteSets

CONSTANTS
  Tasks,
  Submits,      \* submissions; each names its check-in and its scoring job
  TaskOf,       \* [Submits -> Tasks]
  Appeals,      \* appeals; each names its job
  CheckinOf,    \* [Appeals -> Submits]
  Cancels, Admins,
  Forms,        \* what a user may send with a submission; a number that may be left
                \* out is a set of at most one
  Letters,      \* the lengths of an appeal's reason and facts
  MaxScore,     \* a provider's score is in 0..MaxScore
  Ceiling,      \* the mock verdict's cap, below MaxScore
  Gains,        \* what the mock verdict adds
  Async,        \* the values of CHECKIN_SCORING_ASYNC and SCORE_APPEAL_ASYNC in
                \* the environments of the processes that serve requests
  MaxOpen,      \* bound: requests of the user open at the same time
  MaxFaults,    \* bound: processes that die, queue entries that are lost
  MaxRetries    \* bound: administrator's retries

Jobs == Submits \cup Appeals
Scores == 0..MaxScore
NoScore == -1

ASSUME CheckinsAssumption ==
  /\ Submits \cap Appeals = {}
  /\ TaskOf \in [Submits -> Tasks]
  /\ CheckinOf \in [Appeals -> Submits]
  /\ \A f \in Forms : f.minutes \cup f.asked \cup f.right \cup f.accuracy \subseteq Int
  /\ Letters \subseteq [reason : Nat, facts : Nat]
  /\ MaxScore \in Nat
  /\ Ceiling \in Scores
  /\ Gains \subseteq Nat
  /\ Async \subseteq BOOLEAN
  /\ MaxOpen \in Nat /\ MaxFaults \in Nat /\ MaxRetries \in Nat

VARIABLES
  task,     \* [Tasks -> {"TODO", "DONE"}]
  checkin,  \* [Submits -> CheckinStatus]; "NONE": no row
  score,    \* [Submits -> Scores \cup {NoScore}]
  verdict,  \* [Appeals -> AppealStatus]
  job,      \* [Jobs -> JobStatus]
  usage,    \* [Jobs -> {"none", "held", "released"}]: its usage record
  queue,    \* [Jobs -> QueueState]
  req,      \* [Jobs -> [at : RequestStep, seen : Scores \cup {NoScore}]]
  work,     \* [Jobs -> [at : WorkStep, seen : Scores \cup {NoScore}]]
  cancel,   \* [Cancels -> CancelType]
  admin,    \* [Admins -> AdminType]
  crashed,  \* a worker has died
  faults, retries  \* how much of the bounds is spent

rows == <<task, checkin, score, verdict>>
actors == <<cancel, admin, crashed, faults, retries>>
vars == <<rows, job, usage, queue, req, work, actors>>

Book == INSTANCE ScoreBook WITH Checkins <- Submits
-----------------------------------------------------------------------------
CheckinStatus == {"NONE", "SCORING", "SCORED", "SCORE_FAILED", "RESCORED", "APPEAL_REJECTED"}
Verdicts == {"RESCORED", "APPEAL_REJECTED"}
JobStatus == {"NONE", "QUEUED", "RUNNING", "SUCCEEDED", "FAILED", "CANCELLED"}
QueueState == {"absent", "waiting", "active", "done"}
RequestStep == {"idle", "read", "enqueue", "done"}
WorkStep == {"idle", "load", "close", "mark", "call", "saved", "lost"}
CancelType == [at : {"idle"}] \cup [at : {"checked"}, job : Jobs]
AdminType == [at : {"idle"}] \cup [at : {"queued"}, job : Jobs]
Idle == [at |-> "idle"]

TypeOK ==
  /\ task \in [Tasks -> {"TODO", "DONE"}]
  /\ checkin \in [Submits -> CheckinStatus]
  /\ score \in [Submits -> Scores \cup {NoScore}]
  /\ verdict \in [Appeals -> {"NONE", "PENDING"} \cup Verdicts]
  /\ job \in [Jobs -> JobStatus]
  /\ usage \in [Jobs -> {"none", "held", "released"}]
  /\ queue \in [Jobs -> QueueState]
  /\ req \in [Jobs -> [at : RequestStep, seen : Scores \cup {NoScore}]]
  /\ work \in [Jobs -> [at : WorkStep, seen : Scores \cup {NoScore}]]
  /\ cancel \in [Cancels -> CancelType]
  /\ admin \in [Admins -> AdminType]
  /\ crashed \in BOOLEAN
  /\ faults \in 0..MaxFaults
  /\ retries \in 0..MaxRetries

Init ==
  /\ task = [t \in Tasks |-> "TODO"]
  /\ checkin = [s \in Submits |-> "NONE"]
  /\ Book!BookInit
  /\ job = [j \in Jobs |-> "NONE"]
  /\ usage = [j \in Jobs |-> "none"]
  /\ queue = [j \in Jobs |-> "absent"]
  /\ req = [j \in Jobs |-> [at |-> "idle", seen |-> NoScore]]
  /\ work = [j \in Jobs |-> [at |-> "idle", seen |-> NoScore]]
  /\ cancel = [c \in Cancels |-> Idle]
  /\ admin = [a \in Admins |-> Idle]
  /\ crashed = FALSE
  /\ faults = 0
  /\ retries = 0

CanOpen ==
  Cardinality({j \in Jobs : req[j].at \notin {"idle", "done"}}
              \cup {c \in Cancels : cancel[c] # Idle}) < MaxOpen

Go(j, to) == req' = [req EXCEPT ![j] = [at |-> to, seen |-> @.seen]]
Work(j, to) == work' = [work EXCEPT ![j] = [at |-> to, seen |-> @.seen]]
-----------------------------------------------------------------------------
(* completeTask and appealCheckinScore.                                     *)

\* parseCompletePayload: the review is written and the numbers make sense.
Completable(f) ==
  /\ f.review
  /\ f.minutes \cup f.asked \cup f.right \subseteq Nat
  /\ \A right \in f.right, asked \in f.asked : right <= asked
  /\ f.accuracy \subseteq 0..100

\* assertEvidenceUploadsOwned, evidence being the states of the uploads it names.
EvidenceUsable(f) == f.evidence \subseteq {"own and ready"}

\* parseScoreAppealPayload.
Appealable(l) == l.reason >= 8 /\ l.facts >= 10

\* The form is in order, and the task is there and not DONE.
SubmitRead(s) ==
  /\ req[s].at = "idle" /\ CanOpen
  /\ \E f \in Forms : Completable(f) /\ EvidenceUsable(f)
  /\ task[TaskOf[s]] # "DONE"
  /\ Go(s, "read")
  /\ UNCHANGED <<rows, job, usage, queue, work, actors>>

\* The check-in and its score are there; the score is remembered.
AppealRead(a) ==
  /\ req[a].at = "idle" /\ CanOpen
  /\ \E l \in Letters : Appealable(l)
  /\ score[CheckinOf[a]] # NoScore
  /\ req' = [req EXCEPT ![a] = [at |-> "read", seen |-> score[CheckinOf[a]]]]
  /\ UNCHANGED <<rows, job, usage, queue, work, actors>>

\* The provider fails before a synchronous transaction, or the ledger has no
\* room for the charge: nothing was written.
RequestRefused(j) ==
  /\ req[j].at = "read"
  /\ Go(j, "done")
  /\ UNCHANGED <<rows, job, usage, queue, work, actors>>

\* The check-in and the job are left to the worker ...
SubmitQueued(s) ==
  /\ TRUE \in Async
  /\ checkin' = [checkin EXCEPT ![s] = "SCORING"]
  /\ job' = [job EXCEPT ![s] = "QUEUED"]
  /\ UNCHANGED score

\* ... or written with the score the provider was asked for before.
SubmitScored(s) ==
  /\ FALSE \in Async
  /\ checkin' = [checkin EXCEPT ![s] = "SCORED"]
  /\ job' = [job EXCEPT ![s] = "SUCCEEDED"]
  /\ \E n \in Scores : score' = [score EXCEPT ![s] = n]

\* The transaction of a submission: the charge and the task with them.
SubmitCommit(s) ==
  /\ req[s].at = "read"
  /\ usage' = [usage EXCEPT ![s] = "held"]
  /\ task' = [task EXCEPT ![TaskOf[s]] = "DONE"]
  /\ SubmitQueued(s) \/ SubmitScored(s)
  /\ Go(s, "enqueue")
  /\ UNCHANGED <<verdict, queue, work, actors>>

\* getAppealResult accepts: a provider's verdict does not lower the score it
\* was shown; the mock verdict, also used when the provider fails, adds to it
\* under a ceiling.
Rescored(seen) ==
  {n \in Scores : n >= seen} \cup
  {IF seen + gain <= Ceiling THEN seen + gain ELSE Ceiling : gain \in Gains}

\* The verdict on the appeal a, reached from the score seen, is written: the
\* appeal, the check-in and, if it is accepted, the score.
Judge(a, seen) ==
  \/ \E n \in Rescored(seen) :
       /\ score' = [score EXCEPT ![CheckinOf[a]] = n]
       /\ verdict' = [verdict EXCEPT ![a] = "RESCORED"]
       /\ checkin' = [checkin EXCEPT ![CheckinOf[a]] = "RESCORED"]
  \/ /\ verdict' = [verdict EXCEPT ![a] = "APPEAL_REJECTED"]
     /\ checkin' = [checkin EXCEPT ![CheckinOf[a]] = "APPEAL_REJECTED"]
     /\ UNCHANGED score

\* The appeal is left to the worker ...
AppealQueued(a) ==
  /\ TRUE \in Async
  /\ verdict' = [verdict EXCEPT ![a] = "PENDING"]
  /\ job' = [job EXCEPT ![a] = "QUEUED"]
  /\ Go(a, "enqueue")
  /\ UNCHANGED <<checkin, score>>

\* ... or written with its verdict.
AppealJudged(a) ==
  /\ FALSE \in Async
  /\ Judge(a, req[a].seen)
  /\ job' = [job EXCEPT ![a] = "SUCCEEDED"]
  /\ Go(a, "done")

\* The transaction of an appeal.
AppealCommit(a) ==
  /\ req[a].at = "read"
  /\ usage' = [usage EXCEPT ![a] = "held"]
  /\ AppealQueued(a) \/ AppealJudged(a)
  /\ UNCHANGED <<task, queue, work, actors>>

\* QueueService.enqueue, see PlanJobs.
Enqueued(j) ==
  [queue EXCEPT ![j] = IF @ \in {"absent", "done"} THEN "waiting" ELSE @]

\* attachQueueMetadata: an error of Redis is caught.
RequestEnqueue(j) ==
  /\ req[j].at = "enqueue"
  /\ queue' \in {queue, Enqueued(j)}
  /\ Go(j, "done")
  /\ UNCHANGED <<rows, job, usage, work, actors>>
-----------------------------------------------------------------------------
(* processQueuedCheckinScoringJob and processQueuedScoreAppealJob.          *)

Finish(j) ==
  /\ work' = [work EXCEPT ![j] = [at |-> "idle", seen |-> NoScore]]
  /\ queue' = [queue EXCEPT ![j] = "done"]

\* The job's row is read: only a QUEUED job is run.
WorkerTake(j) ==
  /\ queue[j] = "waiting" /\ work[j].at = "idle"
  /\ IF job[j] = "QUEUED"
     THEN queue' = [queue EXCEPT ![j] = "active"] /\ Work(j, "load")
     ELSE queue' = [queue EXCEPT ![j] = "done"] /\ UNCHANGED work
  /\ UNCHANGED <<rows, job, usage, req, actors>>

\* Mutant of Settled: a check-in that has a score is scored again.
SettledAppeal(j) == j \in Appeals /\ verdict[j] \in Verdicts

\* What the job is for was done before.
Settled(j) ==
  IF j \in Submits THEN score[j] # NoScore ELSE verdict[j] \in Verdicts

\* The check-in, its score and the appeal are read.
WorkerLoad(j) ==
  /\ work[j].at = "load"
  /\ work' = [work EXCEPT ![j] =
       [at |-> IF Settled(j) THEN "close" ELSE "mark",
        seen |-> IF j \in Appeals THEN score[CheckinOf[j]] ELSE NoScore]]
  /\ UNCHANGED <<rows, job, usage, queue, req, actors>>

WorkerClose(j) ==
  /\ work[j].at = "close"
  /\ job' = [job EXCEPT ![j] = "SUCCEEDED"]
  /\ Finish(j)
  /\ UNCHANGED <<rows, usage, req, actors>>

WorkerMark(j) ==
  /\ work[j].at = "mark"
  /\ job' = [job EXCEPT ![j] = "RUNNING"]
  /\ Work(j, "call")
  /\ UNCHANGED <<rows, usage, queue, req, actors>>

\* Mutant of WorkerSave: the status of the check-in without the score.
WorkerSaveStatus(j) ==
  /\ work[j].at = "call"
  /\ IF j \in Submits
     THEN checkin' = [checkin EXCEPT ![j] = "SCORED"] /\ UNCHANGED <<score, verdict>>
     ELSE Judge(j, work[j].seen)
  /\ job' = [job EXCEPT ![j] = "SUCCEEDED"]
  /\ Work(j, "saved")
  /\ UNCHANGED <<usage, task, queue, req, actors>>

\* The provider answers; the result and the job are written in a transaction.
WorkerSave(j) ==
  /\ work[j].at = "call"
  /\ IF j \in Submits
     THEN /\ \E n \in Scores : score' = [score EXCEPT ![j] = n]
          /\ checkin' = [checkin EXCEPT ![j] = "SCORED"]
          /\ UNCHANGED verdict
     ELSE Judge(j, work[j].seen)
  /\ job' = [job EXCEPT ![j] = "SUCCEEDED"]
  /\ Work(j, "saved")
  /\ UNCHANGED <<usage, task, queue, req, actors>>

\* The answer is serialised, and the worker is through.
WorkerReturns(j) ==
  /\ work[j].at = "saved"
  /\ Finish(j)
  /\ UNCHANGED <<rows, job, usage, req, actors>>

\* The provider or the transaction fails, or, the result being there, the read
\* of the entitlement that the try block ends with.
WorkerFails(j) ==
  /\ work[j].at \in {"call", "saved"}
  /\ Work(j, "lost")
  /\ UNCHANGED <<rows, job, usage, queue, req, actors>>

\* Mutant of WorkerClosesFailed: the check-in is forgotten.
WorkerFailsJobOnly(j) ==
  /\ work[j].at = "lost"
  /\ job' = [job EXCEPT ![j] = "FAILED"]
  /\ Finish(j)
  /\ UNCHANGED <<rows, usage, req, actors>>

\* The catch block: the job and, of a scoring, the check-in, in a transaction.
WorkerClosesFailed(j) ==
  /\ work[j].at = "lost"
  /\ job' = [job EXCEPT ![j] = "FAILED"]
  /\ checkin' = IF j \in Submits THEN [checkin EXCEPT ![j] = "SCORE_FAILED"] ELSE checkin
  /\ Finish(j)
  /\ UNCHANGED <<usage, task, score, verdict, req, actors>>

WorkerStep(j) ==
  \/ WorkerLoad(j) \/ WorkerClose(j) \/ WorkerMark(j) \/ WorkerSave(j)
  \/ WorkerReturns(j) \/ WorkerFails(j) \/ WorkerClosesFailed(j)
-----------------------------------------------------------------------------
(* cancelJob, retryAiJob, reconcile and faults, as in PlanJobs.             *)

CancelRead(c, j) ==
  /\ cancel[c] = Idle /\ CanOpen
  /\ job[j] = "QUEUED"
  /\ cancel' = [cancel EXCEPT ![c] = [at |-> "checked", job |-> j]]
  /\ UNCHANGED <<rows, job, usage, queue, req, work, admin, crashed, faults, retries>>

\* Mutant of CancelCommit: the transaction forgets the quota.
CancelCharged(c) ==
  /\ cancel[c].at = "checked"
  /\ job' = [job EXCEPT ![cancel[c].job] = "CANCELLED"]
  /\ cancel' = [cancel EXCEPT ![c] = Idle]
  /\ UNCHANGED <<rows, usage, queue, req, work, admin, crashed, faults, retries>>

\* The quota and the job; the check-in and the appeal stay as they are.
CancelCommit(c) ==
  /\ cancel[c].at = "checked"
  /\ usage' = [usage EXCEPT ![cancel[c].job] = "released"]
  /\ job' = [job EXCEPT ![cancel[c].job] = "CANCELLED"]
  /\ cancel' = [cancel EXCEPT ![c] = Idle]
  /\ UNCHANGED <<rows, queue, req, work, admin, crashed, faults, retries>>

AdminEnqueue(a, j) ==
  /\ admin[a] = Idle /\ retries < MaxRetries
  /\ job[j] = "FAILED"
  /\ retries' = retries + 1
  /\ queue' \in {queue, Enqueued(j)}
  /\ admin' = [admin EXCEPT ![a] = [at |-> "queued", job |-> j]]
  /\ UNCHANGED <<rows, job, usage, req, work, cancel, crashed, faults>>

AdminRequeue(a) ==
  /\ admin[a].at = "queued"
  /\ job' = [job EXCEPT ![admin[a].job] = "QUEUED"]
  /\ admin' = [admin EXCEPT ![a] = Idle]
  /\ UNCHANGED <<rows, usage, queue, req, work, cancel, crashed, faults, retries>>

Reconcile(j) ==
  /\ job[j] = "QUEUED" /\ Enqueued(j) # queue
  /\ queue' = Enqueued(j)
  /\ UNCHANGED <<rows, job, usage, req, work, actors>>

\* The server dies in a request, between its transactions.
ApiDies(j) ==
  /\ req[j].at \notin {"idle", "done"}
  /\ faults < MaxFaults
  /\ faults' = faults + 1
  /\ Go(j, "done")
  /\ UNCHANGED <<rows, job, usage, queue, work, cancel, admin, crashed, retries>>

\* The worker dies, or a statement outside of its try block fails; its entry
\* stalls, and waits again or is failed by BullMQ.
WorkerDies(j) ==
  /\ work[j].at # "idle"
  /\ faults < MaxFaults
  /\ faults' = faults + 1
  /\ crashed' = TRUE
  /\ work' = [work EXCEPT ![j] = [at |-> "idle", seen |-> NoScore]]
  /\ \E q \in {"waiting", "done"} : queue' = [queue EXCEPT ![j] = q]
  /\ UNCHANGED <<rows, job, usage, req, cancel, admin, retries>>

QueueLoses(j) ==
  /\ queue[j] = "waiting"
  /\ faults < MaxFaults
  /\ faults' = faults + 1
  /\ queue' = [queue EXCEPT ![j] = "absent"]
  /\ UNCHANGED <<rows, job, usage, req, work, cancel, admin, crashed, retries>>

Next ==
  \/ \E s \in Submits : SubmitRead(s) \/ SubmitCommit(s)
  \/ \E a \in Appeals : AppealRead(a) \/ AppealCommit(a)
  \/ \E j \in Jobs : \/ RequestRefused(j) \/ RequestEnqueue(j)
                     \/ WorkerTake(j) \/ WorkerStep(j) \/ Reconcile(j)
                     \/ ApiDies(j) \/ WorkerDies(j) \/ QueueLoses(j)
  \/ \E c \in Cancels : (\E j \in Jobs : CancelRead(c, j)) \/ CancelCommit(c)
  \/ \E a \in Admins : (\E j \in Jobs : AdminEnqueue(a, j)) \/ AdminRequeue(a)

Spec == Init /\ [][Next]_vars

\* Workers take what waits and run on, reconciliation comes round, and what an
\* administrator or a cancellation has begun is ended.
Fairness ==
  /\ \A j \in Jobs : WF_vars(WorkerTake(j)) /\ WF_vars(WorkerStep(j)) /\ WF_vars(Reconcile(j))
  /\ \A c \in Cancels : WF_vars(CancelCommit(c))
  /\ \A a \in Admins : WF_vars(AdminRequeue(a))

FairSpec == Spec /\ Fairness
-----------------------------------------------------------------------------
(***************************************************************************)
(* A check-in is shown as scored, rescored or rejected only over a score,  *)
(* whatever becomes of its job: cancelled, failed, retried or run late.    *)
(***************************************************************************)
ScoredHasScore ==
  \A s \in Submits : checkin[s] \in {"SCORED"} \cup Verdicts => score[s] # NoScore

(***************************************************************************)
(* The service keeps the score book: one first score per check-in, changes *)
(* only by the verdict on an appeal, one verdict per appeal, also when     *)
(* jobs are retried after their result was written.                        *)
(***************************************************************************)
ImplementsBook == Book!BookSpec

(***************************************************************************)
(* The charge of a cancelled scoring or appeal is given back (SPEC.md:670), *)
(* however the cancellation, the worker and the administrator overlap.      *)
(***************************************************************************)
CancelRefunds == \A j \in Jobs : job[j] = "CANCELLED" => usage[j] = "released"

(***************************************************************************)
(* With the queue on, a check-in does not stay SCORING unless its user     *)
(* cancels the job or a worker dies, though requests die before they       *)
(* enqueue and the queue loses entries (SPEC.md:65: scored within a minute *)
(* or shown as failed).                                                    *)
(***************************************************************************)
ScoringEnds ==
  \A s \in Submits :
    checkin[s] = "SCORING" ~> (checkin[s] # "SCORING" \/ job[s] = "CANCELLED" \/ crashed)

(***************************************************************************)
(* A pending appeal gets its verdict, or its job shows why not.            *)
(***************************************************************************)
AppealEnds ==
  \A a \in Appeals :
    verdict[a] = "PENDING" ~>
      (verdict[a] # "PENDING" \/ job[a] \in {"FAILED", "CANCELLED"} \/ crashed)

(***************************************************************************)
(* No check-in and no appeal is forgotten.                                 *)
(***************************************************************************)
VerdictsCome == ScoringEnds /\ AppealEnds
=============================================================================
