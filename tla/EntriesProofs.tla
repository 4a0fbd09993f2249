-------------------------- MODULE EntriesProofs --------------------------
(***************************************************************************)
(* Proofs about what the user enters: check-ins and appeals, whatever is   *)
(* cancelled, retried or fails, and the goal form, whatever is lost or late. *)
(***************************************************************************)
EXTENDS Checkins, Assistant, TLAPS

(* Check-ins.                                                              *)

Before == {"idle", "read"}

\* Until its transaction a request has left no row, no entry and no worker.
Fresh == \A j \in Jobs : req[j].at \in Before =>
  job[j] = "NONE" /\ queue[j] = "absent" /\ work[j].at = "idle"
FreshCheckin == \A s \in Submits : req[s].at \in Before => score[s] = NoScore
FreshAppeal == \A a \in Appeals : req[a].at \in Before => verdict[a] = "NONE"

\* Cancellations and retries stand for a row they read.
RowRead ==
  /\ \A c \in Cancels : cancel[c] # Idle => job[cancel[c].job] # "NONE"
  /\ \A a \in Admins : admin[a] # Idle => job[admin[a].job] # "NONE"

\* An appeal was filed against a score, and whoever is to judge it knows one.
Appealed == \A a \in Appeals :
  /\ req[a].at # "idle" => score[CheckinOf[a]] # NoScore
  /\ req[a].at = "read" => req[a].seen # NoScore
  /\ work[a].at \in {"mark", "call"} => work[a].seen # NoScore

\* What a worker is about to do has not been done.
Unsettled == \A j \in Jobs : work[j].at \in {"mark", "call"} => ~Settled(j)

BookInv ==
  /\ Fresh /\ FreshCheckin /\ FreshAppeal /\ RowRead /\ Appealed /\ Unsettled
  /\ ScoredHasScore

\* What the proofs use of the assumption on the constants.
LEMMA Constants ==
  /\ TaskOf \in [Submits -> Tasks]
  /\ CheckinOf \in [Appeals -> Submits]
  /\ Submits \cap Appeals = {}
  /\ NoScore \notin Scores
  /\ MaxFaults \in Nat /\ MaxRetries \in Nat
  /\ Ceiling \in Scores
BY CheckinsAssumption DEF Scores, NoScore

(***************************************************************************)
(* The forms in which the steps of a request and of a worker are cited:    *)
(* one runner moves, the others stay where they are.                       *)
(***************************************************************************)
Runs(f, steps) == f \in [Jobs -> [at : steps, seen : Scores \cup {NoScore}]]

LEMMA GoStep ==
  ASSUME Runs(req, RequestStep), NEW j \in Jobs, NEW to \in RequestStep, Go(j, to)
  PROVE  /\ Runs(req', RequestStep)
         /\ req'[j].at = to /\ req'[j].seen = req[j].seen
         /\ \A k \in Jobs : k # j => req'[k] = req[k]
<1> DEFINE n == req[j].seen
<1>1. n \in Scores \cup {NoScore}
  BY DEF Runs
<1>2. req' = [req EXCEPT ![j] = [at |-> to, seen |-> n]]
  BY DEF Go, Runs
<1> HIDE DEF n
<1>3. /\ Runs(req', RequestStep)
      /\ req'[j].at = to /\ req'[j].seen = n
      /\ \A k \in Jobs : k # j => req'[k] = req[k]
  BY <1>1, <1>2 DEF Runs
<1> QED
  BY <1>3 DEF n

\* The same of a worker.
LEMMA WorkMoves ==
  ASSUME Runs(work, WorkStep), NEW j \in Jobs, NEW to \in WorkStep, Work(j, to)
  PROVE  /\ Runs(work', WorkStep)
         /\ work'[j].at = to /\ work'[j].seen = work[j].seen
         /\ \A k \in Jobs : k # j => work'[k] = work[k]
<1> DEFINE n == work[j].seen
<1>1. n \in Scores \cup {NoScore}
  BY DEF Runs
<1>2. work' = [work EXCEPT ![j] = [at |-> to, seen |-> n]]
  BY DEF Work, Runs
<1> HIDE DEF n
<1>3. /\ Runs(work', WorkStep)
      /\ work'[j].at = to /\ work'[j].seen = n
      /\ \A k \in Jobs : k # j => work'[k] = work[k]
  BY <1>1, <1>2 DEF Runs
<1> QED
  BY <1>3 DEF n

(***************************************************************************)
(* A verdict reached from a score that was seen gives a score.             *)
(***************************************************************************)
LEMMA RescoredScores ==
  ASSUME NEW seen \in Scores
  PROVE  Rescored(seen) \subseteq Scores
BY CheckinsAssumption DEF Rescored, Scores

(***************************************************************************)
(* The invariant holds initially.                                          *)
(***************************************************************************)
LEMMA InvInit == Init => TypeOK /\ BookInv
<1> SUFFICES ASSUME Init PROVE TypeOK /\ BookInv
  OBVIOUS
<1> USE Constants DEF Init, Book!BookInit
<1>1. TypeOK
  <2>1. task \in [Tasks -> {"TODO", "DONE"}] /\ checkin \in [Submits -> CheckinStatus]
    BY DEF CheckinStatus
  <2>2. /\ score \in [Submits -> Scores \cup {NoScore}]
        /\ verdict \in [Appeals -> {"NONE", "PENDING"} \cup Verdicts]
    OBVIOUS
  <2>3. /\ job \in [Jobs -> JobStatus]
        /\ usage \in [Jobs -> {"none", "held", "released"}]
        /\ queue \in [Jobs -> QueueState]
    BY DEF JobStatus, QueueState
  <2>4. Runs(req, RequestStep) /\ Runs(work, WorkStep)
    BY DEF Runs, RequestStep, WorkStep
  <2>5. cancel \in [Cancels -> CancelType] /\ admin \in [Admins -> AdminType]
    BY DEF CancelType, AdminType, Idle
  <2>6. faults \in 0..MaxFaults /\ retries \in 0..MaxRetries
    OBVIOUS
  <2>7. crashed \in BOOLEAN
    OBVIOUS
  <2> QED
    BY <2>1, <2>2, <2>3, <2>4, <2>5, <2>6, <2>7 DEF TypeOK, Runs
<1>2. Fresh /\ FreshCheckin /\ FreshAppeal /\ RowRead
  BY DEF Fresh, FreshCheckin, FreshAppeal, RowRead, Jobs
<1>3. Appealed /\ Unsettled /\ ScoredHasScore
  BY DEF Appealed, Unsettled, ScoredHasScore, Jobs, Verdicts
<1> QED
  BY <1>1, <1>2, <1>3 DEF BookInv

(***************************************************************************)
(* Steps keep the types.  Only Judge needs more: the verdict on an appeal  *)
(* is a score because the score it was reached from was one.               *)
(***************************************************************************)
LEMMA TypeStep ==
  ASSUME TypeOK, BookInv, [Next]_vars
  PROVE  TypeOK'
<1> USE Constants DEF TypeOK
<1>r. Runs(req, RequestStep) /\ Runs(work, WorkStep)
  BY DEF Runs
<1>1. ASSUME NEW s \in Submits, SubmitRead(s) \/ SubmitCommit(s) PROVE TypeOK'
  <2>1. Runs(req', RequestStep)
    BY <1>r, <1>1, GoStep DEF SubmitRead, SubmitCommit, SubmitQueued, SubmitScored, Jobs, RequestStep
  <2>2. CASE SubmitRead(s)
    BY <2>1, <2>2 DEF SubmitRead, Runs, rows, actors
  <2>3. CASE SubmitCommit(s)
    <3>1. TaskOf[s] \in Tasks
      OBVIOUS
    <3>2. task' \in [Tasks -> {"TODO", "DONE"}] /\ checkin' \in [Submits -> CheckinStatus]
      BY <2>3, <3>1 DEF SubmitCommit, SubmitQueued, SubmitScored, CheckinStatus
    <3>3. score' \in [Submits -> Scores \cup {NoScore}]
      BY <2>3 DEF SubmitCommit, SubmitQueued, SubmitScored
    <3>4. /\ job' \in [Jobs -> JobStatus]
          /\ usage' \in [Jobs -> {"none", "held", "released"}]
      BY <2>3 DEF SubmitCommit, SubmitQueued, SubmitScored, Jobs, JobStatus
    <3> QED
      BY <2>1, <2>3, <3>2, <3>3, <3>4 DEF SubmitCommit, SubmitQueued, SubmitScored, Runs, actors
  <2> QED
    BY <1>1, <2>2, <2>3
<1>2. ASSUME NEW a \in Appeals, AppealRead(a) PROVE TypeOK'
  BY <1>2 DEF AppealRead, rows, actors, Jobs, RequestStep
<1>3. ASSUME NEW a \in Appeals, NEW seen \in Scores, Judge(a, seen)
      PROVE  /\ score' \in [Submits -> Scores \cup {NoScore}]
             /\ verdict' \in [Appeals -> {"NONE", "PENDING"} \cup Verdicts]
             /\ checkin' \in [Submits -> CheckinStatus]
  <2>1. Rescored(seen) \subseteq Scores /\ CheckinOf[a] \in Submits
    BY RescoredScores
  <2>2. {"RESCORED", "APPEAL_REJECTED"} \subseteq CheckinStatus
    BY DEF CheckinStatus
  <2>3. CASE \E n \in Rescored(seen) :
               /\ score' = [score EXCEPT ![CheckinOf[a]] = n]
               /\ verdict' = [verdict EXCEPT ![a] = "RESCORED"]
               /\ checkin' = [checkin EXCEPT ![CheckinOf[a]] = "RESCORED"]
    BY <2>1, <2>2, <2>3 DEF Verdicts
  <2>4. CASE /\ verdict' = [verdict EXCEPT ![a] = "APPEAL_REJECTED"]
             /\ checkin' = [checkin EXCEPT ![CheckinOf[a]] = "APPEAL_REJECTED"]
             /\ UNCHANGED score
    BY <2>1, <2>2, <2>4 DEF Verdicts
  <2> QED
    BY <1>3, <2>3, <2>4 DEF Judge
<1>4. ASSUME NEW a \in Appeals, AppealCommit(a) PROVE TypeOK'
  <2>1. req[a].seen \in Scores
    BY <1>4 DEF AppealCommit, AppealQueued, AppealJudged, BookInv, Appealed, Jobs
  <2>2. Runs(req', RequestStep)
    BY <1>r, <1>4, GoStep DEF AppealCommit, AppealQueued, AppealJudged, Jobs, RequestStep
  <2>3. /\ score' \in [Submits -> Scores \cup {NoScore}]
        /\ verdict' \in [Appeals -> {"NONE", "PENDING"} \cup Verdicts]
        /\ checkin' \in [Submits -> CheckinStatus]
    BY <1>3, <1>4, <2>1 DEF AppealCommit, AppealQueued, AppealJudged
  <2> QED
    BY <1>4, <2>2, <2>3 DEF AppealCommit, AppealQueued, AppealJudged, Runs, rows, actors, Jobs, JobStatus
<1>5. ASSUME NEW j \in Jobs, RequestRefused(j) \/ RequestEnqueue(j) \/ Reconcile(j) PROVE TypeOK'
  <2>1. Runs(req', RequestStep)
    BY <1>r, <1>5, GoStep DEF RequestRefused, RequestEnqueue, Reconcile, RequestStep
  <2> QED
    BY <1>5, <2>1 DEF RequestRefused, RequestEnqueue, Reconcile, Enqueued, Runs, rows, actors, QueueState
<1>6. ASSUME NEW j \in Jobs, WorkerTake(j) \/ WorkerMark(j) PROVE TypeOK'
  <2>1. Runs(work', WorkStep)
    BY <1>r, <1>6, WorkMoves DEF WorkerTake, WorkerMark, WorkStep
  <2> QED
    BY <1>6, <2>1 DEF WorkerTake, WorkerMark, Runs, rows, actors, QueueState, JobStatus
<1>7. ASSUME NEW j \in Jobs, WorkerLoad(j) PROVE TypeOK'
  <2>1. work' \in [Jobs -> [at : WorkStep, seen : Scores \cup {NoScore}]]
    BY <1>7 DEF WorkerLoad, Jobs, WorkStep
  <2> QED
    BY <1>7, <2>1 DEF WorkerLoad, rows, actors
<1>8. ASSUME NEW j \in Jobs, WorkerSave(j) PROVE TypeOK'
  <2>1. Runs(work', WorkStep)
    BY <1>r, <1>8, WorkMoves DEF WorkerSave, WorkStep
  <2>2. /\ score' \in [Submits -> Scores \cup {NoScore}]
        /\ verdict' \in [Appeals -> {"NONE", "PENDING"} \cup Verdicts]
        /\ checkin' \in [Submits -> CheckinStatus]
    <3>1. CASE j \in Submits
      BY <1>8, <3>1 DEF WorkerSave, CheckinStatus
    <3>2. CASE j \notin Submits
      <4>1. j \in Appeals /\ work[j].seen \in Scores
        BY <1>8, <3>2 DEF WorkerSave, BookInv, Appealed, Jobs
      <4> QED
        BY <1>3, <1>8, <3>2, <4>1 DEF WorkerSave
    <3> QED
      BY <3>1, <3>2
  <2> QED
    BY <1>8, <2>1, <2>2 DEF WorkerSave, Runs, rows, actors, JobStatus
<1>9. ASSUME NEW j \in Jobs, WorkerClose(j) \/ WorkerReturns(j) \/ WorkerClosesFailed(j) PROVE TypeOK'
  <2>1. /\ work' \in [Jobs -> [at : WorkStep, seen : Scores \cup {NoScore}]]
        /\ queue' \in [Jobs -> QueueState]
    <3>1. Finish(j)
      BY <1>9 DEF WorkerClose, WorkerReturns, WorkerClosesFailed
    <3> QED
      BY <3>1 DEF Finish, QueueState, WorkStep
  <2>2. job' \in [Jobs -> JobStatus]
    BY <1>9 DEF WorkerClose, WorkerReturns, WorkerClosesFailed, JobStatus
  <2>3. checkin' \in [Submits -> CheckinStatus]
    BY <1>9 DEF WorkerClose, WorkerReturns, WorkerClosesFailed, CheckinStatus, rows
  <2> QED
    BY <1>9, <2>1, <2>2, <2>3 DEF WorkerClose, WorkerReturns, WorkerClosesFailed, rows, actors
<1>10. ASSUME NEW j \in Jobs, WorkerFails(j) PROVE TypeOK'
  <2>1. Runs(work', WorkStep)
    BY <1>r, <1>10, WorkMoves DEF WorkerFails, WorkStep
  <2> QED
    BY <1>10, <2>1 DEF WorkerFails, Runs, rows, actors
<1>11. ASSUME NEW c \in Cancels, NEW j \in Jobs, CancelRead(c, j) PROVE TypeOK'
  BY <1>11 DEF CancelRead, rows, CancelType
<1>12. ASSUME NEW c \in Cancels, CancelCommit(c) PROVE TypeOK'
  <2>1. cancel' \in [Cancels -> CancelType]
    BY <1>12 DEF CancelCommit, CancelType, Idle
  <2> QED
    BY <1>12, <2>1 DEF CancelCommit, rows, JobStatus
<1>13. ASSUME NEW a \in Admins, NEW j \in Jobs, AdminEnqueue(a, j) PROVE TypeOK'
  <2>1. admin' \in [Admins -> AdminType]
    BY <1>13 DEF AdminEnqueue, AdminType
  <2>2. queue' \in [Jobs -> QueueState] /\ retries' \in 0..MaxRetries
    BY <1>13 DEF AdminEnqueue, Enqueued, QueueState
  <2> QED
    BY <1>13, <2>1, <2>2 DEF AdminEnqueue, rows
<1>14. ASSUME NEW a \in Admins, AdminRequeue(a) PROVE TypeOK'
  <2>1. admin' \in [Admins -> AdminType]
    BY <1>14 DEF AdminRequeue, AdminType, Idle
  <2> QED
    BY <1>14, <2>1 DEF AdminRequeue, rows, JobStatus
<1>15. ASSUME NEW j \in Jobs, ApiDies(j) PROVE TypeOK'
  <2>1. Runs(req', RequestStep)
    BY <1>r, <1>15, GoStep DEF ApiDies, RequestStep
  <2> QED
    BY <1>15, <2>1 DEF ApiDies, Runs, rows
<1>16. ASSUME NEW j \in Jobs, WorkerDies(j) PROVE TypeOK'
  <2>1. /\ work' \in [Jobs -> [at : WorkStep, seen : Scores \cup {NoScore}]]
        /\ queue' \in [Jobs -> QueueState]
        /\ faults' \in 0..MaxFaults
    BY <1>16 DEF WorkerDies, WorkStep, QueueState
  <2>2. crashed' \in BOOLEAN
    BY <1>16, Zenon DEF WorkerDies
  <2> QED
    BY <1>16, <2>1, <2>2 DEF WorkerDies, rows
<1>17. ASSUME NEW j \in Jobs, QueueLoses(j) PROVE TypeOK'
  BY <1>17 DEF QueueLoses, rows, QueueState
<1>18. ASSUME UNCHANGED vars PROVE TypeOK'
  BY <1>18 DEF vars, rows, actors
<1> QED
  BY <1>1, <1>2, <1>4, <1>5, <1>6, <1>7, <1>8, <1>9, <1>10, <1>11, <1>12, <1>13, <1>14, <1>15,
     <1>16, <1>17, <1>18
  DEF Next, WorkerStep

(***************************************************************************)
(* What a verdict changes: the appeal, and a score that was there before   *)
(* and is there after.                                                     *)
(***************************************************************************)
LEMMA JudgeStep ==
  ASSUME TypeOK, NEW a \in Appeals, NEW seen \in Scores, Judge(a, seen),
         score[CheckinOf[a]] # NoScore, ScoredHasScore
  PROVE  /\ \A s \in Submits : score'[s] = NoScore <=> score[s] = NoScore
         /\ verdict'[a] \in Verdicts
         /\ \A b \in Appeals : b # a => verdict'[b] = verdict[b]
         /\ ScoredHasScore'
<1> DEFINE c == CheckinOf[a]
<1> USE DEF TypeOK
<1>1. c \in Submits /\ Rescored(seen) \subseteq Scores /\ NoScore \notin Scores
  BY Constants, RescoredScores
<1>2. CASE \E n \in Rescored(seen) :
             /\ score' = [score EXCEPT ![c] = n]
             /\ verdict' = [verdict EXCEPT ![a] = "RESCORED"]
             /\ checkin' = [checkin EXCEPT ![c] = "RESCORED"]
  BY <1>1, <1>2 DEF ScoredHasScore, Verdicts
<1>3. CASE /\ verdict' = [verdict EXCEPT ![a] = "APPEAL_REJECTED"]
           /\ checkin' = [checkin EXCEPT ![c] = "APPEAL_REJECTED"]
           /\ UNCHANGED score
  BY <1>1, <1>3 DEF ScoredHasScore, Verdicts
<1> QED
  BY <1>2, <1>3 DEF Judge

(***************************************************************************)
(* The invariant across the commit of a submission.                        *)
(***************************************************************************)
LEMMA SubmitCommitKeeps ==
  ASSUME TypeOK, BookInv, NEW s \in Submits, SubmitCommit(s)
  PROVE  BookInv'
<1>1. s \in Jobs /\ s \notin Appeals
  BY Constants DEF Jobs
<1>2. Go(s, "enqueue") /\ Runs(req, RequestStep) /\ "enqueue" \in RequestStep
  BY DEF SubmitCommit, SubmitQueued, SubmitScored, TypeOK, Runs, RequestStep
<1>3. req'[s].at = "enqueue" /\ \A k \in Jobs : k # s => req'[k] = req[k]
  BY <1>1, <1>2, GoStep
<1>4. job[s] = "NONE" /\ queue[s] = "absent" /\ work[s].at = "idle" /\ score[s] = NoScore
  BY <1>1 DEF SubmitCommit, SubmitQueued, SubmitScored, BookInv, Fresh, FreshCheckin, Before
<1>5. job'[s] # "NONE" /\ \A k \in Jobs : k # s => job'[k] = job[k]
  BY <1>1 DEF SubmitCommit, SubmitQueued, SubmitScored, TypeOK
<1>6. UNCHANGED <<verdict, queue, work, cancel, admin>>
  BY DEF SubmitCommit, SubmitQueued, SubmitScored, actors
<1>7. \A r \in Submits : r # s => score'[r] = score[r] /\ checkin'[r] = checkin[r]
  BY DEF SubmitCommit, SubmitQueued, SubmitScored, TypeOK
<1>8. checkin'[s] = "SCORING" \/ score'[s] # NoScore
  <2>1. CASE checkin' = [checkin EXCEPT ![s] = "SCORING"]
    BY <2>1 DEF TypeOK
  <2>2. CASE \E n \in Scores : score' = [score EXCEPT ![s] = n]
    BY <2>2, Constants DEF TypeOK
  <2> QED
    BY <2>1, <2>2 DEF SubmitCommit, SubmitQueued, SubmitScored
<1>9. Fresh' /\ FreshCheckin' /\ FreshAppeal'
  BY <1>1, <1>3, <1>5, <1>6, <1>7 DEF BookInv, Fresh, FreshCheckin, FreshAppeal, Before, Jobs
<1>10. RowRead'
  BY <1>5, <1>6 DEF BookInv, RowRead, TypeOK, CancelType, AdminType, Idle
<1>11. Appealed'
  BY <1>1, <1>3, <1>4, <1>6, <1>7, Constants DEF BookInv, Appealed, Jobs
<1>12. Unsettled'
  BY <1>4, <1>6, <1>7 DEF BookInv, Unsettled, Settled
<1>13. ScoredHasScore'
  BY <1>7, <1>8 DEF BookInv, ScoredHasScore, Verdicts
<1> QED
  BY <1>9, <1>10, <1>11, <1>12, <1>13 DEF BookInv

(***************************************************************************)
(* The invariant across the commit of an appeal.                           *)
(***************************************************************************)
LEMMA AppealCommitKeeps ==
  ASSUME TypeOK, BookInv, NEW a \in Appeals, AppealCommit(a)
  PROVE  BookInv'
<1>1. a \in Jobs /\ a \notin Submits
  BY Constants DEF Jobs
<1>2. PICK to \in {"enqueue", "done"} : Go(a, to)
  BY DEF AppealCommit, AppealQueued, AppealJudged
<1>3. req'[a].at \notin Before /\ \A k \in Jobs : k # a => req'[k] = req[k]
  <2>1. Runs(req, RequestStep) /\ to \in RequestStep
    BY DEF TypeOK, Runs, RequestStep
  <2> QED
    BY <1>1, <1>2, <2>1, GoStep DEF Before
<1>4. /\ req[a].seen \in Scores /\ score[CheckinOf[a]] # NoScore
      /\ work[a].at = "idle"
  BY <1>1 DEF AppealCommit, AppealQueued, AppealJudged, BookInv, Fresh, Before, Appealed, TypeOK
<1>5. job'[a] # "NONE" /\ \A k \in Jobs : k # a => job'[k] = job[k]
  BY <1>1 DEF AppealCommit, AppealQueued, AppealJudged, TypeOK
<1>6. UNCHANGED <<queue, work, cancel, admin>>
  BY DEF AppealCommit, AppealQueued, AppealJudged, actors
<1>7. /\ \A s \in Submits : score'[s] = NoScore <=> score[s] = NoScore
      /\ \A b \in Appeals : b # a => verdict'[b] = verdict[b]
      /\ ScoredHasScore'
  <2>1. CASE Judge(a, req[a].seen)
    BY <1>4, <2>1, JudgeStep DEF BookInv
  <2>2. CASE verdict' = [verdict EXCEPT ![a] = "PENDING"] /\ UNCHANGED <<checkin, score>>
    BY <2>2 DEF BookInv, ScoredHasScore, TypeOK
  <2> QED
    BY <2>1, <2>2 DEF AppealCommit, AppealQueued, AppealJudged
<1>8. Fresh' /\ FreshCheckin' /\ FreshAppeal'
  BY <1>1, <1>3, <1>5, <1>6, <1>7 DEF BookInv, Fresh, FreshCheckin, FreshAppeal, Before, Jobs
<1>9. RowRead'
  BY <1>5, <1>6 DEF BookInv, RowRead, TypeOK, CancelType, AdminType, Idle
<1>10. Appealed'
  BY <1>3, <1>4, <1>6, <1>7, Constants DEF BookInv, Appealed, Jobs, Before
<1>11. Unsettled'
  BY <1>4, <1>6, <1>7 DEF BookInv, Unsettled, Settled, Jobs
<1> QED
  BY <1>7, <1>8, <1>9, <1>10, <1>11 DEF BookInv

(***************************************************************************)
(* The invariant across a worker's taking of an entry.                     *)
(***************************************************************************)
LEMMA WorkerTakeKeeps ==
  ASSUME TypeOK, BookInv, NEW j \in Jobs, WorkerTake(j)
  PROVE  BookInv'
<1>1. UNCHANGED <<score, verdict, checkin, job, req, cancel, admin>>
  BY DEF WorkerTake, rows, actors
<1>2. req[j].at \notin Before
  BY DEF WorkerTake, BookInv, Fresh
<1>3. /\ work'[j].at \in {"idle", "load"}
      /\ \A k \in Jobs : k # j => work'[k] = work[k] /\ queue'[k] = queue[k]
  <2>1. CASE Work(j, "load")
    <3>1. Runs(work, WorkStep) /\ "load" \in WorkStep
      BY DEF TypeOK, Runs, WorkStep
    <3> QED
      BY <2>1, <3>1, WorkMoves DEF WorkerTake, TypeOK
  <2>2. CASE UNCHANGED work
    BY <2>2 DEF WorkerTake, TypeOK
  <2> QED
    BY <2>1, <2>2 DEF WorkerTake
<1>4. Fresh' /\ FreshCheckin' /\ FreshAppeal' /\ RowRead' /\ ScoredHasScore'
  BY <1>1, <1>2, <1>3 DEF BookInv, Fresh, FreshCheckin, FreshAppeal, RowRead, ScoredHasScore
<1>5. Appealed' /\ Unsettled'
  BY <1>1, <1>3 DEF BookInv, Appealed, Unsettled, Settled, Jobs
<1> QED
  BY <1>4, <1>5 DEF BookInv

(***************************************************************************)
(* The invariant across the writing of a result.                           *)
(***************************************************************************)
LEMMA WorkerSaveKeeps ==
  ASSUME TypeOK, BookInv, NEW j \in Jobs, WorkerSave(j)
  PROVE  BookInv'
<1>1. /\ work'[j].at = "saved"
      /\ \A k \in Jobs : k # j => work'[k] = work[k]
  <2>1. Runs(work, WorkStep) /\ "saved" \in WorkStep /\ Work(j, "saved")
    BY DEF TypeOK, Runs, WorkStep, WorkerSave
  <2> QED
    BY <2>1, WorkMoves
<1>2. job'[j] # "NONE" /\ \A k \in Jobs : k # j => job'[k] = job[k]
  BY DEF WorkerSave, TypeOK
<1>3. UNCHANGED <<queue, req, cancel, admin>>
  BY DEF WorkerSave, actors
<1>4. req[j].at \notin Before
  BY DEF WorkerSave, BookInv, Fresh
<1>5. /\ \A s \in Submits : s # j => (score'[s] = NoScore <=> score[s] = NoScore)
      /\ j \in Submits => score'[j] # NoScore
      /\ \A b \in Appeals : b # j => verdict'[b] = verdict[b]
      /\ ScoredHasScore'
  <2>1. CASE j \in Submits
    BY <2>1, Constants DEF WorkerSave, BookInv, ScoredHasScore, TypeOK
  <2>2. CASE j \notin Submits
    <3>1. /\ j \in Appeals /\ work[j].seen \in Scores /\ Judge(j, work[j].seen)
          /\ score[CheckinOf[j]] # NoScore
      BY <1>4, <2>2 DEF WorkerSave, BookInv, Appealed, TypeOK, Jobs, Before
    <3> QED
      BY <2>2, <3>1, JudgeStep DEF BookInv
  <2> QED
    BY <2>1, <2>2
<1>6. Fresh' /\ FreshCheckin' /\ FreshAppeal'
  BY <1>1, <1>2, <1>3, <1>4, <1>5 DEF BookInv, Fresh, FreshCheckin, FreshAppeal, Before, Jobs
<1>7. RowRead'
  BY <1>2, <1>3 DEF BookInv, RowRead, TypeOK, CancelType, AdminType, Idle
<1>8. Appealed'
  BY <1>1, <1>3, <1>5, Constants DEF BookInv, Appealed, Jobs
<1>9. Unsettled'
  BY <1>1, <1>5, Constants DEF BookInv, Unsettled, Settled, Jobs
<1> QED
  BY <1>5, <1>6, <1>7, <1>8, <1>9 DEF BookInv

(***************************************************************************)
(* Steps keep the invariant.                                               *)
(***************************************************************************)
LEMMA BookStep ==
  ASSUME TypeOK, TypeOK', BookInv, [Next]_vars
  PROVE  BookInv'
<1> USE Constants DEF TypeOK, BookInv, Fresh, FreshCheckin, FreshAppeal, RowRead, Appealed, Unsettled, ScoredHasScore, Before, Settled, Verdicts, Jobs
<1>1. ASSUME NEW s \in Submits, SubmitRead(s) PROVE BookInv'
  BY <1>1 DEF SubmitRead, Go, rows, actors, Judge, Enqueued, Work, Finish, Idle
<1>2. ASSUME NEW s \in Submits, SubmitCommit(s) PROVE BookInv'
  BY <1>2, SubmitCommitKeeps
<1>3. ASSUME NEW a \in Appeals, AppealRead(a) PROVE BookInv'
  BY <1>3 DEF AppealRead, Go, rows, actors, Judge, Enqueued, Work, Finish, Idle
<1>4. ASSUME NEW a \in Appeals, AppealCommit(a) PROVE BookInv'
  BY <1>4, AppealCommitKeeps
<1>5. ASSUME NEW j \in Jobs, RequestRefused(j) PROVE BookInv'
  BY <1>5 DEF RequestRefused, Go, rows, actors, Judge, Enqueued, Work, Finish, Idle
<1>6. ASSUME NEW j \in Jobs, RequestEnqueue(j) PROVE BookInv'
  BY <1>6 DEF RequestEnqueue, Go, rows, actors, Judge, Enqueued, Work, Finish, Idle
<1>7. ASSUME NEW j \in Jobs, WorkerTake(j) PROVE BookInv'
  BY <1>7, WorkerTakeKeeps
<1>8. ASSUME NEW j \in Jobs, WorkerLoad(j) PROVE BookInv'
  BY <1>8 DEF WorkerLoad, Go, rows, actors, Judge, Enqueued, Work, Finish, Idle
<1>9. ASSUME NEW j \in Jobs, WorkerClose(j) PROVE BookInv'
  BY <1>9 DEF WorkerClose, Go, rows, actors, Judge, Enqueued, Work, Finish, Idle
<1>10. ASSUME NEW j \in Jobs, WorkerMark(j) PROVE BookInv'
  BY <1>10 DEF WorkerMark, Go, rows, actors, Judge, Enqueued, Work, Finish, Idle
<1>11. ASSUME NEW j \in Jobs, WorkerSave(j) PROVE BookInv'
  BY <1>11, WorkerSaveKeeps
<1>12. ASSUME NEW j \in Jobs, WorkerReturns(j) PROVE BookInv'
  BY <1>12 DEF WorkerReturns, Go, rows, actors, Judge, Enqueued, Work, Finish, Idle
<1>13. ASSUME NEW j \in Jobs, WorkerFails(j) PROVE BookInv'
  BY <1>13 DEF WorkerFails, Go, rows, actors, Judge, Enqueued, Work, Finish, Idle
<1>14. ASSUME NEW j \in Jobs, WorkerClosesFailed(j) PROVE BookInv'
  BY <1>14 DEF WorkerClosesFailed, Go, rows, actors, Judge, Enqueued, Work, Finish, Idle
<1>15. ASSUME NEW j \in Jobs, Reconcile(j) PROVE BookInv'
  BY <1>15 DEF Reconcile, Go, rows, actors, Judge, Enqueued, Work, Finish, Idle
<1>16. ASSUME NEW j \in Jobs, ApiDies(j) PROVE BookInv'
  BY <1>16 DEF ApiDies, Go, rows, actors, Judge, Enqueued, Work, Finish, Idle
<1>17. ASSUME NEW j \in Jobs, WorkerDies(j) PROVE BookInv'
  BY <1>17 DEF WorkerDies, Go, rows, actors, Judge, Enqueued, Work, Finish, Idle
<1>18. ASSUME NEW j \in Jobs, QueueLoses(j) PROVE BookInv'
  BY <1>18 DEF QueueLoses, Go, rows, actors, Judge, Enqueued, Work, Finish, Idle
<1>19. ASSUME NEW c \in Cancels, NEW j \in Jobs, CancelRead(c, j) PROVE BookInv'
  BY <1>19 DEF CancelRead, Go, rows, actors, Judge, Enqueued, Work, Finish, Idle
<1>20. ASSUME NEW c \in Cancels, CancelCommit(c) PROVE BookInv'
  BY <1>20 DEF CancelCommit, Go, rows, actors, Judge, Enqueued, Work, Finish, Idle
<1>21. ASSUME NEW a \in Admins, NEW j \in Jobs, AdminEnqueue(a, j) PROVE BookInv'
  BY <1>21 DEF AdminEnqueue, Go, rows, actors, Judge, Enqueued, Work, Finish, Idle
<1>22. ASSUME NEW a \in Admins, AdminRequeue(a) PROVE BookInv'
  BY <1>22 DEF AdminRequeue, Go, rows, actors, Judge, Enqueued, Work, Finish, Idle
<1>23. ASSUME UNCHANGED vars PROVE BookInv'
  BY <1>23 DEF vars, rows, actors
<1> QED
  BY <1>1, <1>2, <1>3, <1>4, <1>5, <1>6, <1>7, <1>8, <1>9, <1>10, <1>11, <1>12, <1>13, <1>14, <1>15, <1>16, <1>17, <1>18, <1>19, <1>20, <1>21, <1>22, <1>23
  DEF Next, WorkerStep

(***************************************************************************)
(* Types and invariant hold in every reachable state.                      *)
(***************************************************************************)
THEOREM Invariant == Spec => [](TypeOK /\ BookInv)
<1>1. TypeOK /\ BookInv /\ [Next]_vars => TypeOK' /\ BookInv'
  BY TypeStep, BookStep
<1> QED
  BY <1>1, InvInit, PTL DEF Spec

(***************************************************************************)
(* The types: the mock verdict's gain never takes a score past its maximum.*)
(***************************************************************************)
THEOREM TypeCorrect == Spec => []TypeOK
BY Invariant, PTL

(***************************************************************************)
(* A check-in is shown as scored, rescored or rejected only over a score.  *)
(***************************************************************************)
THEOREM ScoredHasScoreHolds == Spec => []ScoredHasScore
<1>1. BookInv => ScoredHasScore
  BY DEF BookInv
<1> QED
  BY <1>1, Invariant, PTL

(***************************************************************************)
(* A verdict on an appeal that had none is a step of the score book.       *)
(***************************************************************************)
LEMMA VerdictIsStep ==
  ASSUME TypeOK, BookInv, NEW a \in Appeals, NEW seen \in Scores, Judge(a, seen),
         verdict[a] \notin Verdicts, score[CheckinOf[a]] # NoScore
  PROVE  Book!Accept(a) \/ Book!Reject(a)
<1>1. Rescored(seen) \subseteq Scores
  BY RescoredScores
<1>2. verdict[a] \notin Book!Verdicts
  BY DEF Verdicts, Book!Verdicts
<1>3. CASE \E n \in Rescored(seen) :
             /\ score' = [score EXCEPT ![CheckinOf[a]] = n]
             /\ verdict' = [verdict EXCEPT ![a] = "RESCORED"]
  BY <1>1, <1>2, <1>3 DEF Book!Accept
<1>4. CASE verdict' = [verdict EXCEPT ![a] = "APPEAL_REJECTED"] /\ UNCHANGED score
  BY <1>2, <1>4 DEF Book!Reject
<1> QED
  BY <1>3, <1>4 DEF Judge

(***************************************************************************)
(* A step that writes a score or a verdict is a step of the score book: a  *)
(* first score where there was none, or the one verdict on an appeal.      *)
(***************************************************************************)
LEMMA BookStepRefines ==
  ASSUME TypeOK, BookInv, [Next]_vars
  PROVE  [Book!BookNext]_(Book!bookVars)
<1>1. ASSUME NEW s \in Submits, SubmitCommit(s)
      PROVE  Book!Grade(s) \/ UNCHANGED <<score, verdict>>
  <2>1. score[s] = NoScore
    BY <1>1 DEF SubmitCommit, SubmitQueued, SubmitScored, BookInv, FreshCheckin, Before
  <2> QED
    BY <1>1, <2>1 DEF SubmitCommit, SubmitQueued, SubmitScored, Book!Grade
<1>2. ASSUME NEW a \in Appeals, AppealCommit(a)
      PROVE  Book!File(a) \/ Book!Accept(a) \/ Book!Reject(a)
  <2>1. a \in Jobs /\ req[a].at = "read"
    BY <1>2 DEF AppealCommit, AppealQueued, AppealJudged, Jobs
  <2>2. /\ verdict[a] = "NONE" /\ score[CheckinOf[a]] # NoScore
        /\ req[a].seen \in Scores
    BY <2>1 DEF BookInv, FreshAppeal, Appealed, Before, TypeOK
  <2>3. CASE Judge(a, req[a].seen)
    BY <2>2, <2>3, VerdictIsStep DEF Verdicts
  <2>4. CASE verdict' = [verdict EXCEPT ![a] = "PENDING"] /\ UNCHANGED score
    BY <2>2, <2>4 DEF Book!File
  <2> QED
    BY <1>2, <2>3, <2>4 DEF AppealCommit, AppealQueued, AppealJudged
<1>3. ASSUME NEW j \in Jobs, WorkerSave(j)
      PROVE  \/ j \in Submits /\ Book!Grade(j)
             \/ j \in Appeals /\ (Book!Accept(j) \/ Book!Reject(j))
  <2>1. work[j].at = "call" /\ ~Settled(j)
    BY <1>3 DEF WorkerSave, BookInv, Unsettled
  <2>2. CASE j \in Submits
    BY <1>3, <2>1, <2>2 DEF WorkerSave, Settled, Book!Grade
  <2>3. CASE j \notin Submits
    <3>1. /\ j \in Appeals /\ Judge(j, work[j].seen) /\ verdict[j] \notin Verdicts
          /\ work[j].seen \in Scores
      BY <1>3, <2>1, <2>3 DEF WorkerSave, Settled, BookInv, Appealed, TypeOK, Jobs
    <3>2. req[j].at \notin Before
      BY <2>1 DEF BookInv, Fresh
    <3> QED
      BY <3>1, <3>2, VerdictIsStep DEF BookInv, Appealed, Before
  <2> QED
    BY <2>2, <2>3
<1>4. \/ \E s \in Submits : SubmitCommit(s)
      \/ \E a \in Appeals : AppealCommit(a)
      \/ \E j \in Jobs : WorkerSave(j)
      \/ UNCHANGED <<score, verdict>>
  BY DEF Next, vars, rows, actors, SubmitRead, AppealRead, RequestRefused, RequestEnqueue, WorkerTake,
         WorkerStep, WorkerLoad, WorkerClose, WorkerMark, WorkerReturns, WorkerFails,
         WorkerClosesFailed, Reconcile, ApiDies, WorkerDies, QueueLoses, CancelRead, CancelCommit,
         AdminEnqueue, AdminRequeue
<1> QED
  BY <1>1, <1>2, <1>3, <1>4 DEF Book!BookNext, Book!bookVars

(***************************************************************************)
(* The service implements the score book, with its queue, its retries and  *)
(* its faults.                                                             *)
(***************************************************************************)
THEOREM BookImplemented == Spec => ImplementsBook
<1>1. Init => Book!BookInit
  BY DEF Init
<1> QED
  BY <1>1, BookStepRefines, Invariant, PTL DEF Spec, ImplementsBook, Book!BookSpec

(***************************************************************************)
(* The charge of a cancelled scoring or appeal is given back.              *)
(***************************************************************************)
THEOREM CancelRefundsHolds == Spec => []CancelRefunds
<1>1. Init => CancelRefunds
  BY DEF Init, CancelRefunds
<1>2. TypeOK /\ CancelRefunds /\ [Next]_vars => CancelRefunds'
  <2> SUFFICES ASSUME TypeOK, CancelRefunds, [Next]_vars PROVE CancelRefunds'
    OBVIOUS
  <2> USE DEF TypeOK, CancelRefunds
  <2>1. ASSUME NEW j \in Jobs, UNCHANGED usage,
               job'[j] # "CANCELLED", \A k \in Jobs : k # j => job'[k] = job[k]
        PROVE  CancelRefunds'
    BY <2>1
  <2>2. CASE UNCHANGED <<job, usage>>
    BY <2>2
  <2>3. ASSUME NEW s \in Submits, SubmitCommit(s) PROVE CancelRefunds'
    BY <2>3 DEF SubmitCommit, SubmitQueued, SubmitScored, Jobs
  <2>4. ASSUME NEW a \in Appeals, AppealCommit(a) PROVE CancelRefunds'
    BY <2>4 DEF AppealCommit, AppealQueued, AppealJudged, Jobs
  <2>5. ASSUME NEW j \in Jobs, WorkerClose(j) \/ WorkerMark(j) \/ WorkerSave(j) \/ WorkerClosesFailed(j)
        PROVE  CancelRefunds'
    BY <2>1, <2>5 DEF WorkerClose, WorkerMark, WorkerSave, WorkerClosesFailed
  <2>6. ASSUME NEW c \in Cancels, CancelCommit(c) PROVE CancelRefunds'
    BY <2>6 DEF CancelCommit
  <2>7. ASSUME NEW a \in Admins, AdminRequeue(a) PROVE CancelRefunds'
    BY <2>7 DEF AdminRequeue
  <2>8. \/ UNCHANGED <<job, usage>>
        \/ \E s \in Submits : SubmitCommit(s)
        \/ \E a \in Appeals : AppealCommit(a)
        \/ \E j \in Jobs : WorkerClose(j) \/ WorkerMark(j) \/ WorkerSave(j) \/ WorkerClosesFailed(j)
        \/ \E c \in Cancels : CancelCommit(c)
        \/ \E a \in Admins : AdminRequeue(a)
    BY DEF Next, vars, SubmitRead, AppealRead, RequestRefused, RequestEnqueue, WorkerTake,
           WorkerStep, WorkerLoad, WorkerReturns, WorkerFails, Reconcile, ApiDies, WorkerDies,
           QueueLoses, CancelRead, AdminEnqueue
  <2> QED
    BY <2>2, <2>3, <2>4, <2>5, <2>6, <2>7, <2>8
<1> QED
  BY <1>1, <1>2, TypeCorrect, PTL DEF Spec
-----------------------------------------------------------------------------
(* The goal form and its drafts.                                           *)

\* What may stand in the page's form, and in the form of a draft.
Shape(form) == form["end"] \in Dates \cup {""} /\ \A f \in Fields : form[f] \notin {"absent", "null"}
RowShape(form) == form["end"] \in Dates /\ form["title"] # "null"
FormsInv ==
  /\ Shape(page.form) /\ Shape(saved.form) /\ \A c \in calls : Shape(c.form)
  /\ \A d \in Drafts : draft[d].status # "none" => RowShape(draft[d].form)
  /\ \A c \in calls : c.row.status # "none" => RowShape(c.row.form)

\* A draft that is known is there.
Exists(d) == d # 0 => draft[d].status # "none"
Known ==
  /\ Exists(newest) /\ Exists(page.draft) /\ Exists(saved.draft)
  /\ \A d \in Drafts : draft[d].status = "none" => draft[d] = NoDraft
  /\ \A c \in calls : Exists(c.draft)
  /\ \A g \in GoalIds : Exists(made[g].draft)

\* What a request is about, by how far it is.
Stage(c) ==
  /\ c.op \in {"save", "create"} => c.draft # 0
  /\ c.op = "plain" => c.draft = 0
  /\ c.at = "sent" /\ c.op \in {"analyze", "latest"} => c.draft = 0
  /\ c.op = "analyze" /\ c.at = "done" => c.draft # 0
  /\ c.op \notin {"save", "create"} => c.at # "read"
  /\ c.op # "create" => c.at # "made"
  /\ c.at \in {"read", "made", "done"} /\ c.draft # 0 => c.row.status # "none"

Quiet(d) == d \notin crossed \cup {0}
\* A save or a creation is alone on its draft, and nothing draft is found or made meanwhile.
Alone(c) == c.op \in {"save", "create"} /\ Quiet(c.draft) =>
  \A k \in calls \ {c} : k.draft # c.draft /\ k.op \notin {"analyze", "latest"}

\* What a request has read is so.
Reads(c) == Quiet(c.draft) /\ c.at \in {"read", "made", "done"} => c.row = draft[c.draft]

\* To write the form into the draft's again changes nothing.
Holds(row, form) == mergeGoalIntakeFormDraft(row, EveryField(form)) = row
HoldsForm(c) ==
  /\ Quiet(c.draft) /\ (c.op = "create" \/ (c.op = "save" /\ c.at = "done")) => Holds(draft[c.draft].form, c.form)
  /\ Quiet(c.draft) /\ c.op = "save" /\ c.at = "done" =>
        draft[c.draft].accepted = c.accepted /\ draft[c.draft].answers = c.answers
  /\ c.op = "analyze" /\ c.at = "done" => \A f \in Fields : c.form[f] # "" => c.row.form[f] = c.form[f]

\* Nothing accepted is missing on the page or in what it sends.
Accepts ==
  /\ Quiet(page.draft) => draft[page.draft].accepted \subseteq page.accepted
  /\ \A c \in calls : Quiet(c.draft) /\ c.op = "save" /\ c.at \in {"sent", "read"} =>
        /\ draft[c.draft].accepted \subseteq c.accepted
        /\ c.draft = page.draft => c.accepted \subseteq page.accepted

SavedIsNewest ==
  Quiet(saved.draft) =>
    /\ newest = saved.draft
    /\ draft[newest].answers = saved.answers /\ draft[newest].accepted = saved.accepted
    /\ Holds(draft[newest].form, saved.form)
    /\ \A c \in calls : /\ c.op \notin {"save", "analyze"}
                        /\ c.op = "create" \/ (c.op = "latest" /\ c.at = "done") => c.draft = newest

AssistantInv ==
  /\ FormTypeOK /\ FormsInv /\ Known /\ Accepts /\ SavedIsNewest
  /\ \A c \in calls : Stage(c) /\ Alone(c) /\ Reads(c) /\ HoldsForm(c)

(***************************************************************************)
(* Conversions.                                                            *)
(***************************************************************************)
\* The texts of a form are texts, "absent" is none of them.
LEMMA FormFields ==
  /\ Fields = {"title", "budget", "note", "end"}
  /\ \A form \in FormTexts, f \in Fields : form[f] \in Texts /\ form[f] # "absent"
  /\ "absent" \notin Texts
<1>1. "absent" \notin Texts
  <2>1. \A f \in Fields : "absent" \notin Typed[f]
    <3> TAKE f \in Fields
    <3>1. {"absent", "null"} \cap Typed[f] = {}
      BY AssistantAssumption
    <3> QED
      BY <3>1
  <2>2. "absent" \notin Dates \cup {"", "0", "null", "derived"}
    BY DEF Dates
  <2> DEFINE T == (UNION {Typed[f] : f \in Fields})
  <2>3. "absent" \notin T
    BY <2>1
  <2>4. Texts = T \cup Dates \cup {"", "0", "null", "derived"}
    BY Zenon DEF Texts
  <2> HIDE DEF T
  <2> QED
    BY <2>2, <2>3, <2>4
<1>2. \A form \in FormTexts, f \in Fields : form[f] \in Texts
  BY DEF FormTexts
<1> QED
  BY <1>1, <1>2 DEF Fields

\* Some of the texts.
LEMMA SomeTexts == {"", "0", "null", "derived"} \subseteq Texts /\ Dates \subseteq Texts
<1> DEFINE T == (UNION {Typed[f] : f \in Fields})
<1>1. Texts = T \cup Dates \cup {"", "0", "null", "derived"}
  BY Zenon DEF Texts
<1> HIDE DEF T
<1> QED
  BY <1>1

\* A merge by fields: what is sent replaces what was there.
LEMMA MergeIs ==
  ASSUME NEW current, NEW body
  PROVE  /\ mergeGoalIntakeFormDraft(current, body)["title"] =
              IF body["title"] = "absent" THEN current["title"] ELSE IF body["title"] = "null" THEN "" ELSE body["title"]
         /\ mergeGoalIntakeFormDraft(current, body)["budget"] =
              IF body["budget"] = "absent" THEN current["budget"] ELSE IF body["budget"] = "null" THEN "0" ELSE body["budget"]
         /\ mergeGoalIntakeFormDraft(current, body)["note"] =
              IF body["note"] = "absent" THEN current["note"] ELSE IF body["note"] = "null" THEN "" ELSE body["note"]
         /\ mergeGoalIntakeFormDraft(current, body)["end"] =
              IF body["end"] = "absent" \/ body["end"] \notin Dates THEN current["end"] ELSE body["end"]
         /\ DOMAIN mergeGoalIntakeFormDraft(current, body) = Fields
<1> DEFINE m == mergeGoalIntakeFormDraft(current, body)
<1>1. m = [f \in Fields |-> IF body[f] = "absent" \/ (f = "end" /\ body[f] \notin Dates) THEN current[f]
                    ELSE IF f # "end" /\ body[f] = "null" THEN IF f = "budget" THEN "0" ELSE ""
                    ELSE body[f]]
  BY DEF mergeGoalIntakeFormDraft
<1>2. "title" \in Fields /\ "budget" \in Fields /\ "note" \in Fields /\ "end" \in Fields
  BY DEF Fields
<1> HIDE DEF m
<1>3. m["title"] = IF body["title"] = "absent" THEN current["title"] ELSE IF body["title"] = "null" THEN "" ELSE body["title"]
  BY <1>1, <1>2
<1>4. m["budget"] = IF body["budget"] = "absent" THEN current["budget"] ELSE IF body["budget"] = "null" THEN "0" ELSE body["budget"]
  BY <1>1, <1>2
<1>5. m["note"] = IF body["note"] = "absent" THEN current["note"] ELSE IF body["note"] = "null" THEN "" ELSE body["note"]
  BY <1>1, <1>2
<1>6. m["end"] = IF body["end"] = "absent" \/ body["end"] \notin Dates THEN current["end"] ELSE body["end"]
  BY <1>1, <1>2
<1>7. DOMAIN m = Fields
  BY <1>1
<1> QED
  BY <1>3, <1>4, <1>5, <1>6, <1>7 DEF m

\* Two forms are the same that agree on the four fields.
LEMMA SameForm ==
  ASSUME NEW a \in [Fields -> Texts \cup {"absent", "null"}], NEW b \in [Fields -> Texts \cup {"absent", "null"}],
         a["title"] = b["title"], a["budget"] = b["budget"], a["note"] = b["note"], a["end"] = b["end"]
  PROVE  a = b
BY DEF Fields

\* What is sent by a save, by fields.
LEMMA EveryFieldIs ==
  ASSUME NEW form \in FormTexts
  PROVE  /\ EveryField(form)["title"] = form["title"]
         /\ EveryField(form)["budget"] = IF form["budget"] = "" THEN "null" ELSE form["budget"]
         /\ EveryField(form)["note"] = IF form["note"] = "" THEN "null" ELSE form["note"]
         /\ EveryField(form)["end"] = form["end"]
BY DEF EveryField, Fields

\* What is sent for a creation.
LEMMA PayloadFieldsAre ==
  ASSUME NEW form \in FormTexts
  PROVE  /\ buildGoalCreatePayload(form)["title"] = IF form["title"] = "" THEN "absent" ELSE form["title"]
         /\ buildGoalCreatePayload(form)["budget"] = IF form["budget"] = "" THEN "absent" ELSE form["budget"]
         /\ buildGoalCreatePayload(form)["note"] = IF form["note"] = "" THEN "absent" ELSE form["note"]
         /\ buildGoalCreatePayload(form)["end"] = form["end"]
BY DEF buildGoalCreatePayload, Fields

\* What is sent for an analysis.
LEMMA FilledIs ==
  ASSUME NEW form \in FormTexts, NEW f \in Fields
  PROVE  Filled(form)[f] = IF form[f] = "" THEN "absent" ELSE form[f]
BY DEF Filled

\* What is made of a payload.
LEMMA ParsedIs ==
  ASSUME NEW form
  PROVE  /\ parseCreateGoalPayload(form)["title"] = IF form["title"] \in {"", "absent"} THEN "derived" ELSE form["title"]
         /\ parseCreateGoalPayload(form)["budget"] = IF form["budget"] \in {"", "absent"} THEN "null" ELSE form["budget"]
         /\ parseCreateGoalPayload(form)["note"] = IF form["note"] \in {"", "absent"} THEN "null" ELSE form["note"]
         /\ parseCreateGoalPayload(form)["end"] = form["end"]
         /\ DOMAIN parseCreateGoalPayload(form) = Fields
BY DEF parseCreateGoalPayload, Fields

\* What an answer's draft makes of the form.
LEMMA AppliedIs ==
  ASSUME NEW form, NEW sent
  PROVE  /\ applyGoalIntakeDraftToForm(form, sent)["title"] = IF sent["title"] = "" THEN form["title"] ELSE sent["title"]
         /\ applyGoalIntakeDraftToForm(form, sent)["budget"] = IF sent["budget"] = "null" THEN form["budget"] ELSE sent["budget"]
         /\ applyGoalIntakeDraftToForm(form, sent)["note"] = IF sent["note"] = "null" THEN form["note"] ELSE sent["note"]
         /\ applyGoalIntakeDraftToForm(form, sent)["end"] = IF sent["end"] = "" THEN form["end"] ELSE sent["end"]
         /\ DOMAIN applyGoalIntakeDraftToForm(form, sent) = Fields
BY DEF applyGoalIntakeDraftToForm, Fields

\* What it is for a row to hold a form.
LEMMA HoldsIs ==
  ASSUME NEW form \in FormTexts, Shape(form), NEW row \in FormTexts
  PROVE  Holds(row, form) <=> /\ row["title"] = form["title"]
                              /\ row["budget"] = IF form["budget"] = "" THEN "0" ELSE form["budget"]
                              /\ row["note"] = form["note"]
                              /\ form["end"] # "" => row["end"] = form["end"]
<1> DEFINE m == mergeGoalIntakeFormDraft(row, EveryField(form))
<1>1. /\ form["title"] \notin {"absent", "null"} /\ form["budget"] \notin {"absent", "null"}
      /\ form["note"] \notin {"absent", "null"} /\ form["end"] \in Dates \cup {""}
  BY DEF Shape, Fields
<1>2. /\ m["title"] = form["title"]
      /\ m["budget"] = IF form["budget"] = "" THEN "0" ELSE form["budget"]
      /\ m["note"] = form["note"]
      /\ m["end"] = IF form["end"] = "" THEN row["end"] ELSE form["end"]
      /\ m = [f \in Fields |-> m[f]]
  <2>1. "" \notin Dates /\ "absent" \notin Dates
    BY DEF Dates
  <2>2. m = [f \in Fields |-> m[f]]
    BY DEF mergeGoalIntakeFormDraft
  <2> DEFINE e == EveryField(form)
  <2>3. /\ m["title"] = IF e["title"] = "absent" THEN row["title"] ELSE IF e["title"] = "null" THEN "" ELSE e["title"]
        /\ m["budget"] = IF e["budget"] = "absent" THEN row["budget"] ELSE IF e["budget"] = "null" THEN "0" ELSE e["budget"]
        /\ m["note"] = IF e["note"] = "absent" THEN row["note"] ELSE IF e["note"] = "null" THEN "" ELSE e["note"]
        /\ m["end"] = IF e["end"] = "absent" \/ e["end"] \notin Dates THEN row["end"] ELSE e["end"]
    BY MergeIs
  <2>4. /\ e["title"] = form["title"] /\ e["end"] = form["end"]
        /\ e["budget"] = (IF form["budget"] = "" THEN "null" ELSE form["budget"])
        /\ e["note"] = (IF form["note"] = "" THEN "null" ELSE form["note"])
    BY EveryFieldIs
  <2> HIDE DEF m, e
  <2> QED
    BY <1>1, <2>1, <2>2, <2>3, <2>4
<1>3. row = [f \in Fields |-> row[f]] /\ Fields = {"title", "budget", "note", "end"}
  BY DEF FormTexts, Fields
<1>4. Holds(row, form) <=> m = row
  BY DEF Holds
<1> HIDE DEF m
<1>5. m = row <=> m["title"] = row["title"] /\ m["budget"] = row["budget"] /\ m["note"] = row["note"] /\ m["end"] = row["end"]
  BY <1>2, <1>3
<1> QED
  BY <1>2, <1>4, <1>5

\* What is merged of a whole form is a row that holds it.
LEMMA MergeHolds ==
  ASSUME NEW form \in FormTexts, Shape(form), NEW row \in FormTexts, RowShape(row)
  PROVE  LET m == mergeGoalIntakeFormDraft(row, EveryField(form)) IN m \in FormTexts /\ RowShape(m) /\ Holds(m, form)
<1> DEFINE m == mergeGoalIntakeFormDraft(row, EveryField(form))
<1>1. /\ form["title"] \notin {"absent", "null"} /\ form["budget"] \notin {"absent", "null"}
      /\ form["note"] \notin {"absent", "null"} /\ form["end"] \in Dates \cup {""}
  BY DEF Shape, Fields
<1>2. /\ m["title"] = form["title"]
      /\ m["budget"] = IF form["budget"] = "" THEN "0" ELSE form["budget"]
      /\ m["note"] = form["note"]
      /\ m["end"] = IF form["end"] = "" THEN row["end"] ELSE form["end"]
      /\ m = [f \in Fields |-> m[f]]
  <2>1. "" \notin Dates /\ "absent" \notin Dates
    BY DEF Dates
  <2>2. m = [f \in Fields |-> m[f]]
    BY DEF mergeGoalIntakeFormDraft
  <2> DEFINE e == EveryField(form)
  <2>3. /\ m["title"] = IF e["title"] = "absent" THEN row["title"] ELSE IF e["title"] = "null" THEN "" ELSE e["title"]
        /\ m["budget"] = IF e["budget"] = "absent" THEN row["budget"] ELSE IF e["budget"] = "null" THEN "0" ELSE e["budget"]
        /\ m["note"] = IF e["note"] = "absent" THEN row["note"] ELSE IF e["note"] = "null" THEN "" ELSE e["note"]
        /\ m["end"] = IF e["end"] = "absent" \/ e["end"] \notin Dates THEN row["end"] ELSE e["end"]
    BY MergeIs
  <2>4. /\ e["title"] = form["title"] /\ e["end"] = form["end"]
        /\ e["budget"] = (IF form["budget"] = "" THEN "null" ELSE form["budget"])
        /\ e["note"] = (IF form["note"] = "" THEN "null" ELSE form["note"])
    BY EveryFieldIs
  <2> HIDE DEF m, e
  <2> QED
    BY <1>1, <2>1, <2>2, <2>3, <2>4
<1> HIDE DEF m
<1>3. /\ form["title"] \in Texts /\ form["budget"] \in Texts /\ form["note"] \in Texts /\ form["end"] \in Texts
      /\ row["end"] \in Texts /\ "0" \in Texts
  BY SomeTexts DEF FormTexts, Fields
<1>4. m \in FormTexts
  <2>1. m["title"] \in Texts /\ m["budget"] \in Texts /\ m["note"] \in Texts /\ m["end"] \in Texts
    BY <1>2, <1>3
  <2>2. \A f \in Fields : m[f] \in Texts
    BY <2>1 DEF Fields
  <2> QED
    BY <1>2, <2>2 DEF FormTexts
<1>5. RowShape(m)
  BY <1>1, <1>2 DEF RowShape
<1>6. Holds(m, form)
  BY <1>2, <1>4, HoldsIs
<1> QED
  BY <1>4, <1>5, <1>6 DEF m

\* The draft of an analysis holds what was filled in.
LEMMA BuildHolds ==
  ASSUME NEW form \in FormTexts, Shape(form), NEW date \in analyzeGoalIntakeSafely
  PROVE  LET m == buildGoalIntakeFormDraft(date, Filled(form))
         IN  m \in FormTexts /\ RowShape(m) /\ \A f \in Fields : form[f] # "" => m[f] = form[f]
<1> DEFINE b == [title |-> "derived", budget |-> "null", note |-> "null",
                 end |-> IF date = "null" THEN "in 90 days" ELSE date]
           m == mergeGoalIntakeFormDraft(b, Filled(form))
<1>1. /\ form["title"] \notin {"absent", "null"} /\ form["budget"] \notin {"absent", "null"}
      /\ form["note"] \notin {"absent", "null"} /\ form["end"] \in Dates \cup {""}
  BY DEF Shape, Fields
<1>2. b["title"] = "derived" /\ b["budget"] = "null" /\ b["note"] = "null" /\ b["end"] \in Dates
  <2>1. date \in Dates \cup {"null"}
    BY AssistantAssumption DEF analyzeGoalIntakeSafely, analyzeGoal, fallbackGoalIntakeAnalysis
  <2> QED
    BY <2>1 DEF Dates
<1>3. /\ Filled(form)["title"] = IF form["title"] = "" THEN "absent" ELSE form["title"]
      /\ Filled(form)["budget"] = IF form["budget"] = "" THEN "absent" ELSE form["budget"]
      /\ Filled(form)["note"] = IF form["note"] = "" THEN "absent" ELSE form["note"]
      /\ Filled(form)["end"] = IF form["end"] = "" THEN "absent" ELSE form["end"]
  BY FilledIs DEF Fields
<1>a. m = [f \in Fields |-> m[f]]
  BY DEF mergeGoalIntakeFormDraft
<1>b. m = buildGoalIntakeFormDraft(date, Filled(form))
  BY DEF buildGoalIntakeFormDraft
<1> HIDE DEF b
<1>4. /\ m["title"] = IF form["title"] = "" THEN "derived" ELSE form["title"]
      /\ m["budget"] = IF form["budget"] = "" THEN "null" ELSE form["budget"]
      /\ m["note"] = IF form["note"] = "" THEN "null" ELSE form["note"]
      /\ m["end"] = IF form["end"] = "" THEN b["end"] ELSE form["end"]
  <2>1. "" \notin Dates /\ "absent" \notin Dates
    BY DEF Dates
  <2> DEFINE e == Filled(form)
  <2>2. /\ m["title"] = IF e["title"] = "absent" THEN b["title"] ELSE IF e["title"] = "null" THEN "" ELSE e["title"]
        /\ m["budget"] = IF e["budget"] = "absent" THEN b["budget"] ELSE IF e["budget"] = "null" THEN "0" ELSE e["budget"]
        /\ m["note"] = IF e["note"] = "absent" THEN b["note"] ELSE IF e["note"] = "null" THEN "" ELSE e["note"]
        /\ m["end"] = IF e["end"] = "absent" \/ e["end"] \notin Dates THEN b["end"] ELSE e["end"]
    BY MergeIs
  <2> HIDE DEF m, e
  <2> QED
    BY <1>1, <1>2, <1>3, <2>1, <2>2 DEF e
<1> HIDE DEF m
<1>5. /\ form["title"] \in Texts /\ form["budget"] \in Texts /\ form["note"] \in Texts /\ form["end"] \in Texts
      /\ b["end"] \in Texts /\ "null" \in Texts /\ "derived" \in Texts
  BY <1>2, SomeTexts DEF FormTexts, Fields
<1>6. m \in FormTexts
  <2>1. m["title"] \in Texts /\ m["budget"] \in Texts /\ m["note"] \in Texts /\ m["end"] \in Texts
    BY <1>4, <1>5
  <2>2. \A f \in Fields : m[f] \in Texts
    BY <2>1 DEF Fields
  <2> QED
    BY <1>a, <2>2 DEF FormTexts
<1>7. RowShape(m)
  BY <1>1, <1>2, <1>4 DEF RowShape
<1>8. \A f \in Fields : form[f] # "" => m[f] = form[f]
  BY <1>4 DEF Fields
<1> QED
  BY <1>b, <1>6, <1>7, <1>8

\* A form stays one when a draft is shown in it.
LEMMA ApplyShape ==
  ASSUME NEW form \in FormTexts, Shape(form), NEW sent \in FormTexts, RowShape(sent)
  PROVE  applyGoalIntakeDraftToForm(form, sent) \in FormTexts /\ Shape(applyGoalIntakeDraftToForm(form, sent))
<1> DEFINE m == applyGoalIntakeDraftToForm(form, sent)
<1>1. /\ form["title"] \in Texts \ {"absent", "null"} /\ form["budget"] \in Texts \ {"absent", "null"}
      /\ form["note"] \in Texts \ {"absent", "null"} /\ form["end"] \in Texts /\ form["end"] \in Dates \cup {""}
  BY DEF Shape, Fields, FormTexts
<1>2. /\ sent["title"] \in Texts \ {"absent", "null"} /\ sent["budget"] \in Texts \ {"absent"}
      /\ sent["note"] \in Texts \ {"absent"} /\ sent["end"] \in Texts /\ sent["end"] \in Dates
  BY FormFields DEF RowShape
<1>3. m = [f \in Fields |-> m[f]]
  BY DEF applyGoalIntakeDraftToForm
<1>4. /\ m["title"] = IF sent["title"] = "" THEN form["title"] ELSE sent["title"]
      /\ m["budget"] = IF sent["budget"] = "null" THEN form["budget"] ELSE sent["budget"]
      /\ m["note"] = IF sent["note"] = "null" THEN form["note"] ELSE sent["note"]
      /\ m["end"] = IF sent["end"] = "" THEN form["end"] ELSE sent["end"]
  BY AppliedIs
<1> HIDE DEF m
<1>5. /\ m["title"] \in Texts \ {"absent", "null"} /\ m["budget"] \in Texts \ {"absent", "null"}
      /\ m["note"] \in Texts \ {"absent", "null"} /\ m["end"] \in Texts /\ m["end"] \in Dates \cup {""}
  BY <1>1, <1>2, <1>4
<1>6. m["end"] \notin {"absent", "null"}
  BY <1>5 DEF Dates
<1>7. m \in FormTexts
  BY <1>3, <1>5 DEF FormTexts, Fields
<1>8. Shape(m)
  BY <1>5, <1>6 DEF Shape, Fields
<1> QED
  BY <1>7, <1>8 DEF m

\* Where a row has what the form has, showing it changes nothing that is filled in.
LEMMA ApplyKeeps ==
  ASSUME NEW form \in FormTexts, Shape(form), NEW sent \in FormTexts,
         NEW f \in Fields, form[f] # "", sent[f] = form[f]
  PROVE  \A other : applyGoalIntakeDraftToForm(other, sent)[f] = form[f]
<1>1. form[f] # "null"
  BY DEF Shape
<1> QED
  BY <1>1 DEF applyGoalIntakeDraftToForm

\* A row that holds a form has what is filled in.
LEMMA HoldsKeeps ==
  ASSUME NEW form \in FormTexts, Shape(form), NEW row \in FormTexts, Holds(row, form),
         NEW f \in Fields, form[f] # ""
  PROVE  row[f] = form[f]
BY HoldsIs DEF Fields

\* A goal is made of what the form holds, over a draft that holds the form.
LEMMA PayloadIs ==
  ASSUME NEW form \in FormTexts, Shape(form), NEW row \in FormTexts, Holds(row, form),
         LET m == mergeGoalIntakeFormDraft(row, buildGoalCreatePayload(form)) IN ~Refused(m),
         NEW f \in Fields, f = "end" => form["end"] # ""
  PROVE  parseCreateGoalPayload(mergeGoalIntakeFormDraft(row, buildGoalCreatePayload(form)))[f] =
           parseCreateGoalPayload(form)[f]
<1> DEFINE b == buildGoalCreatePayload(form)
           m == mergeGoalIntakeFormDraft(row, b)
<1>1. /\ form["title"] \notin {"absent", "null"} /\ form["budget"] \notin {"absent", "null"}
      /\ form["note"] \notin {"absent", "null"} /\ form["end"] \in Dates \cup {""}
  BY DEF Shape, Fields
<1>2. /\ row["title"] = form["title"] /\ row["budget"] = (IF form["budget"] = "" THEN "0" ELSE form["budget"])
      /\ row["note"] = form["note"] /\ (form["end"] # "" => row["end"] = form["end"])
  BY HoldsIs
<1>3. /\ m["title"] = form["title"] /\ m["note"] = form["note"]
      /\ m["budget"] = (IF form["budget"] = "" THEN "0" ELSE form["budget"])
      /\ form["end"] # "" => m["end"] = form["end"]
  <2>1. "" \notin Dates /\ "absent" \notin Dates
    BY DEF Dates
  <2>2. /\ b["title"] = IF form["title"] = "" THEN "absent" ELSE form["title"]
        /\ b["budget"] = IF form["budget"] = "" THEN "absent" ELSE form["budget"]
        /\ b["note"] = IF form["note"] = "" THEN "absent" ELSE form["note"]
        /\ b["end"] = form["end"]
    BY PayloadFieldsAre
  <2>3. /\ m["title"] = IF b["title"] = "absent" THEN row["title"] ELSE IF b["title"] = "null" THEN "" ELSE b["title"]
        /\ m["budget"] = IF b["budget"] = "absent" THEN row["budget"] ELSE IF b["budget"] = "null" THEN "0" ELSE b["budget"]
        /\ m["note"] = IF b["note"] = "absent" THEN row["note"] ELSE IF b["note"] = "null" THEN "" ELSE b["note"]
        /\ m["end"] = IF b["end"] = "absent" \/ b["end"] \notin Dates THEN row["end"] ELSE b["end"]
    BY MergeIs
  <2> HIDE DEF m, b
  <2> QED
    BY <1>1, <1>2, <2>1, <2>2, <2>3
<1>4. m["budget"] = form["budget"]
  BY <1>3 DEF Refused
<1> HIDE DEF m
<1>5. f \in {"title", "budget", "note", "end"}
  BY DEF Fields
<1>6. parseCreateGoalPayload(m)[f] = parseCreateGoalPayload(form)[f]
  BY <1>3, <1>4, <1>5, ParsedIs
<1> QED
  BY <1>6 DEF m, b

\* Without a draft it is made of the form alone.
LEMMA PlainPayloadIs ==
  ASSUME NEW form \in FormTexts, Shape(form), NEW f \in Fields
  PROVE  parseCreateGoalPayload(buildGoalCreatePayload(form))[f] = parseCreateGoalPayload(form)[f]
<1>1. /\ form["title"] \notin {"absent", "null"} /\ form["budget"] \notin {"absent", "null"}
      /\ form["note"] \notin {"absent", "null"}
  BY DEF Shape, Fields
<1> DEFINE b == buildGoalCreatePayload(form)
<1>2. /\ b["title"] = (IF form["title"] = "" THEN "absent" ELSE form["title"])
      /\ b["budget"] = (IF form["budget"] = "" THEN "absent" ELSE form["budget"])
      /\ b["note"] = (IF form["note"] = "" THEN "absent" ELSE form["note"])
      /\ b["end"] = form["end"]
  BY PayloadFieldsAre
<1>3. f \in {"title", "budget", "note", "end"}
  BY DEF Fields
<1> HIDE DEF b
<1>4. parseCreateGoalPayload(b)[f] = parseCreateGoalPayload(form)[f]
  BY <1>1, <1>2, <1>3, ParsedIs
<1> QED
  BY <1>4 DEF b

\* What a goal is made from is made of texts.
LEMMA ParsedTexts ==
  ASSUME NEW form \in FormTexts, NEW row \in FormTexts, RowShape(row)
  PROVE  /\ parseCreateGoalPayload(buildGoalCreatePayload(form)) \in FormTexts
         /\ parseCreateGoalPayload(mergeGoalIntakeFormDraft(row, buildGoalCreatePayload(form))) \in FormTexts
<1>0. {"", "0", "null", "derived"} \subseteq Texts /\ Dates \subseteq Texts
  BY SomeTexts
<1> DEFINE b == buildGoalCreatePayload(form)
<1>1. b \in [Fields -> Texts \cup {"absent"}]
  BY FormFields DEF buildGoalCreatePayload
<1>2. b["end"] # "absent"
  BY FormFields, PayloadFieldsAre DEF Fields
<1>3. mergeGoalIntakeFormDraft(row, b) \in FormTexts
  <2>1. \A f \in Fields : row[f] \in Texts /\ b[f] \in Texts \cup {"absent"}
    BY <1>1 DEF FormTexts
  <2> HIDE DEF b
  <2> QED
    BY <1>0, <2>1 DEF mergeGoalIntakeFormDraft, FormTexts
<1>4. parseCreateGoalPayload(b) \in FormTexts
  <2> HIDE DEF b
  <2>1. \A f \in Fields : b[f] \in Texts \cup {"absent"}
    BY <1>1
  <2>2. \A f \in Fields : f = "end" => b[f] \in Texts
    BY <1>2, <2>1
  <2> QED
    BY <1>0, <2>1, <2>2 DEF parseCreateGoalPayload, FormTexts
<1>5. \A m \in FormTexts : parseCreateGoalPayload(m) \in FormTexts
  BY <1>0 DEF parseCreateGoalPayload, FormTexts
<1> QED
  BY <1>3, <1>4, <1>5

(***************************************************************************)
(* The steps and the types of what they change.                            *)
(***************************************************************************)
Page == [form : FormTexts, draft : Drafts \cup {0}, answers : Answers, accepted : SUBSET Fields, busy : SUBSET Flags]

\* What nothing is in is a row like any other.
LEMMA NothingTyped ==
  /\ EmptyForm \in FormTexts /\ Silent \in Answers /\ Shape(EmptyForm)
  /\ NoDraft \in DraftRow /\ NoDraft.status = "none" /\ NoDraft.accepted = {}
  /\ NoGoal \in GoalRow /\ NoGoal.status = "none" /\ NoGoal.draft = 0
  /\ NoSave \in [draft : Drafts \cup {0}, form : FormTexts, answers : Answers, accepted : SUBSET Fields]
  /\ NoSave.draft = 0 /\ NoSave.form = EmptyForm
  /\ Blank \in Page /\ Blank.draft = 0 /\ Blank.form = EmptyForm
<1>1. EmptyForm \in FormTexts /\ Silent \in Answers
  BY SomeTexts DEF EmptyForm, Silent, FormTexts, Answers
<1>2. Shape(EmptyForm)
  BY DEF EmptyForm, Shape, Fields
<1>3. NoDraft \in DraftRow /\ NoDraft.status = "none" /\ NoDraft.accepted = {}
  BY <1>1 DEF NoDraft, DraftRow
<1>4. NoGoal \in GoalRow /\ NoGoal.status = "none" /\ NoGoal.draft = 0
  BY <1>1 DEF NoGoal, GoalRow
<1>5. /\ NoSave \in [draft : Drafts \cup {0}, form : FormTexts, answers : Answers, accepted : SUBSET Fields]
      /\ NoSave.draft = 0 /\ NoSave.form = EmptyForm
  BY <1>1 DEF NoSave
<1>6. Blank \in Page /\ Blank.draft = 0 /\ Blank.form = EmptyForm
  BY <1>1 DEF Blank, Page
<1> QED
  BY <1>1, <1>2, <1>3, <1>4, <1>5, <1>6

\* A request as it is sent.
Carries(c, op, d, form, accepted) ==
  /\ c \in Call /\ c.op = op /\ c.at = "sent" /\ c.draft = d /\ c.form = form /\ c.accepted = accepted
  /\ c.row = NoDraft /\ [c EXCEPT !.answers = Silent] \in Call

\* What a request carries.
LEMMA AskIs ==
  ASSUME page \in Page, NEW op \in {"analyze", "latest", "save", "plain"}, NEW d \in Drafts \cup {0},
         NEW form \in FormTexts, NEW accepted \in SUBSET Fields, NEW busy \in SUBSET Flags
  PROVE  Carries(Ask(op, d, form, accepted, busy), op, d, form, accepted)
<1>1. page.answers \in Answers /\ NoDraft \in DraftRow /\ Silent \in Answers
  BY NothingTyped DEF Page
<1>2. op \in {"analyze", "latest", "save", "create", "plain"}
  OBVIOUS
<1> QED
  BY <1>1, <1>2 DEF Ask, Call, Carries

\* What the page asks for, and what it shows meanwhile.
Asked(c, p) ==
  /\ c \in Call /\ p \in Page /\ c.at = "sent" /\ c.row = NoDraft /\ Shape(c.form)
  /\ p.form = page.form /\ p.draft = page.draft
  /\ \/ c.op \in {"analyze", "latest", "plain"} /\ c.draft = 0 /\ p = page
     \/ c.op = "save" /\ c.draft = page.draft /\ c.draft # 0 /\ page.accepted \subseteq c.accepted /\ p.accepted = c.accepted

\* What the user changes by hand.
Edited(p) ==
  /\ p \in Page /\ Shape(p.form) /\ p.draft = page.draft /\ p.accepted = page.accepted

\* A step of the page is a change by hand, a new page or a request.
LEMMA ActIs ==
  ASSUME page \in Page, Shape(page.form), Act
  PROVE  \/ \E p : Edited(p) /\ Edit(p)
         \/ Reload
         \/ \E c, p : Asked(c, p) /\ Send(c, p)
<1>0. /\ page.form \in FormTexts /\ page.draft \in Drafts \cup {0} /\ page.answers \in Answers
      /\ page.accepted \in SUBSET Fields /\ page.busy \in SUBSET Flags
  BY DEF Page
<1>1. ASSUME NEW f \in Fields, NEW text \in Typed[f], updateGoalField(f, text)
      PROVE  \E p : Edited(p) /\ Edit(p)
  <2> DEFINE form == [page.form EXCEPT ![f] = text]
             p == [page EXCEPT !.form[f] = text]
  <2>1. text \in Texts /\ text \notin {"absent", "null"} /\ (f = "end" => text \in Dates \cup {""})
    <3>1. {"absent", "null"} \cap Typed[f] = {} /\ (f = "end" => Typed[f] \subseteq Dates \cup {""})
      BY AssistantAssumption
    <3>2. text \in Texts
      BY Zenon DEF Texts
    <3> QED
      BY <3>1, <3>2
  <2>2. form \in FormTexts
    BY <1>0, <2>1 DEF FormTexts
  <2>3. \A g \in Fields : form[g] = IF g = f THEN text ELSE page.form[g]
    BY <1>0 DEF FormTexts
  <2>4. Shape(form)
    <3>1. "end" \in Fields
      BY DEF Fields
    <3> HIDE DEF form
    <3> QED
      BY <2>1, <2>3, <3>1 DEF Shape
  <2>5. p = [page EXCEPT !.form = form]
    BY <1>0 DEF Page
  <2>6. Edited(p)
    <3> HIDE DEF form
    <3> QED
      BY <2>2, <2>4, <2>5 DEF Edited, Page
  <2> QED
    BY <1>1, <2>6 DEF updateGoalField
<1>2. ASSUME NEW q \in Questions, updateGoalAssistantAnswer(q)
      PROVE  \E p : Edited(p) /\ Edit(p)
  <2> DEFINE a == [page.answers EXCEPT ![q] = "said"]
             p == [page EXCEPT !.answers[q] = "said"]
  <2>1. a \in Answers
    BY <1>0 DEF Answers
  <2>2. p = [page EXCEPT !.answers = a]
    BY <1>0 DEF Page
  <2>3. Edited(p)
    <3> HIDE DEF a
    <3> QED
      BY <2>1, <2>2 DEF Edited, Page
  <2> QED
    BY <1>2, <2>3 DEF updateGoalAssistantAnswer
<1>3. {} \in SUBSET Fields /\ {"analyze"} \in SUBSET Flags /\ {"save"} \in SUBSET Flags /\ {"create"} \in SUBSET Flags
      /\ {} \in SUBSET Flags /\ 0 \in Drafts \cup {0}
  BY DEF Flags
<1>4. ASSUME handleAnalyzeGoalIntake
      PROVE  \E c, p : Asked(c, p) /\ Send(c, p)
  <2> DEFINE c == Ask("analyze", 0, page.form, {}, {"analyze"})
  <2>1. Carries(c, "analyze", 0, page.form, {})
    BY <1>0, <1>3, AskIs, Zenon
  <2> HIDE DEF c
  <2>2. Asked(c, page)
    BY <2>1 DEF Asked, Carries
  <2> QED
    BY <1>4, <2>2 DEF handleAnalyzeGoalIntake, c
<1>5. ASSUME loadLatestGoalIntakeDraft
      PROVE  \E c, p : Asked(c, p) /\ Send(c, p)
  <2> DEFINE b == Ask("latest", 0, EmptyForm, {}, {})
             c == Restoring
  <2>1. Carries(b, "latest", 0, EmptyForm, {})
    <3>1. EmptyForm \in FormTexts
      BY NothingTyped
    <3> QED
      BY <1>3, <3>1, AskIs, Zenon
  <2>2. c = [b EXCEPT !.answers = Silent]
    BY DEF Restoring
  <2>3. Asked(c, page)
    <3> HIDE DEF b, c
    <3>1. c \in Call /\ c.op = "latest" /\ c.at = "sent" /\ c.draft = 0 /\ c.form = EmptyForm /\ c.row = NoDraft
      BY <2>1, <2>2 DEF Call, Carries
    <3> QED
      BY <3>1, NothingTyped DEF Asked
  <2> QED
    BY <1>5, <2>3 DEF loadLatestGoalIntakeDraft
<1>6. ASSUME NEW accepted \in SUBSET Fields, page.accepted \subseteq accepted, NEW busy \in SUBSET Flags,
             saveGoalAssistantState(accepted, busy)
      PROVE  \E c, p : Asked(c, p) /\ Send(c, p)
  <2> DEFINE c == Ask("save", page.draft, page.form, accepted, busy)
             p == [page EXCEPT !.accepted = accepted]
  <2>1. page.draft # 0 /\ Send(c, p)
    BY <1>6 DEF saveGoalAssistantState
  <2>2. Carries(c, "save", page.draft, page.form, accepted)
    BY <1>0, AskIs, Zenon
  <2>3. p \in Page /\ p.form = page.form /\ p.draft = page.draft /\ p.accepted = accepted
    BY DEF Page
  <2> HIDE DEF c, p
  <2>4. Asked(c, p)
    BY <1>6, <2>1, <2>2, <2>3 DEF Asked, Carries
  <2> QED
    BY <2>1, <2>4
<1>7. ASSUME handleSaveGoalAssistantState
      PROVE  \E c, p : Asked(c, p) /\ Send(c, p)
  BY <1>0, <1>3, <1>6, <1>7 DEF handleSaveGoalAssistantState
<1>8. ASSUME NEW f \in Fields, handleAcceptGoalAssistantField(f)
      PROVE  \E c, p : Asked(c, p) /\ Send(c, p)
  <2>1. page.accepted \cup {f} \in SUBSET Fields /\ page.accepted \subseteq page.accepted \cup {f}
    BY <1>0
  <2>2. saveGoalAssistantState(page.accepted \cup {f}, {})
    BY <1>8 DEF handleAcceptGoalAssistantField
  <2> QED
    BY <1>3, <1>6, <2>1, <2>2
<1>9. ASSUME handleCreateGoalFromAssistant
      PROVE  \E c, p : Asked(c, p) /\ Send(c, p)
  BY <1>0, <1>3, <1>6, <1>9 DEF handleCreateGoalFromAssistant
<1>10. ASSUME handleCreateGoal
       PROVE  \E c, p : Asked(c, p) /\ Send(c, p)
  <2> DEFINE c == Ask("plain", 0, page.form, {}, {"create"})
  <2>1. Carries(c, "plain", 0, page.form, {})
    BY <1>0, <1>3, AskIs, Zenon
  <2> HIDE DEF c
  <2>2. Asked(c, page)
    BY <2>1 DEF Asked, Carries
  <2> QED
    BY <1>10, <2>2 DEF handleCreateGoal, c
<1> QED
  BY <1>1, <1>2, <1>4, <1>5, <1>7, <1>8, <1>9, <1>10 DEF Act

\* A request goes on: it is the same request.
Moved(c, k) ==
  /\ calls' = (calls \ {c}) \cup {k} /\ k \in Call
  /\ k.op = c.op /\ k.form = c.form /\ k.answers = c.answers /\ k.accepted = c.accepted
SameRows == draft' = draft /\ newest' = newest
Stays == page' = page /\ crossed' = crossed /\ saved' = saved /\ acts' = acts /\ failures' = failures

Analyzed(c, d, k) ==
  /\ c.op = "analyze" /\ c.at = "sent"
  /\ d \in Drafts /\ draft[d].status = "none"
  /\ k.row \in DraftRow /\ k.row.status # "none" /\ RowShape(k.row.form) /\ k.row.accepted = {}
  /\ \A f \in Fields : c.form[f] # "" => k.row.form[f] = c.form[f]
  /\ draft' = [draft EXCEPT ![d] = k.row] /\ newest' = d /\ made' = made
  /\ Moved(c, k) /\ k.at = "done" /\ k.draft = d
Found(c, k) ==
  /\ c.op = "latest" /\ c.at = "sent" /\ SameRows /\ made' = made
  /\ Moved(c, k) /\ k.at = "done"
  /\ IF newest = 0 THEN k.draft = c.draft /\ k.row = c.row ELSE k.draft = newest /\ k.row = draft[newest]
Read(c, k) ==
  /\ c.op \in {"save", "create"} /\ c.at = "sent" /\ SameRows /\ made' = made
  /\ Moved(c, k) /\ k.at = "read" /\ k.draft = c.draft /\ k.row = draft[c.draft]
Written(c, k) ==
  /\ c.draft \in Drafts /\ draft' = [draft EXCEPT ![c.draft] = k.row] /\ newest' = c.draft /\ made' = made
  /\ Moved(c, k) /\ k.at = "done" /\ k.draft = c.draft
  /\ k.row \in DraftRow /\ k.row.status # "none" /\ RowShape(k.row.form)
  /\ \/ /\ c.op = "save" /\ c.at = "read" /\ Holds(k.row.form, c.form)
        /\ k.row.accepted = c.accepted /\ k.row.answers = c.answers
     \/ /\ c.op = "create" /\ c.at = "made" /\ k.row.form = draft[c.draft].form
        /\ k.row.accepted = draft[c.draft].accepted /\ k.row.answers = draft[c.draft].answers
Refuses(c, k) ==
  /\ c.op \in {"create", "plain"} /\ SameRows /\ made' = made
  /\ Moved(c, k) /\ k.at = "failed" /\ k.draft = c.draft /\ k.row = c.row
Made(c, g, k) ==
  /\ <<c.op, c.at>> \in {<<"create", "read">>, <<"plain", "sent">>} /\ SameRows
  /\ g \in GoalIds /\ made' \in [GoalIds -> GoalRow] /\ ~Refused(Payload(c))
  /\ \A h \in GoalIds : h # g => made'[h] = made[h]
  /\ made'[g].draft = c.draft /\ made'[g].wanted = c.form /\ made'[g].form = parseCreateGoalPayload(Payload(c))
  /\ Moved(c, k) /\ k.at = (IF c.op = "plain" THEN "done" ELSE "made") /\ k.draft = c.draft /\ k.row = c.row

\* Rows of the server's tables are typed, and so are the requests.
Typing == /\ draft \in [Drafts -> DraftRow] /\ newest \in Drafts \cup {0} /\ made \in [GoalIds -> GoalRow]
          /\ calls \subseteq Call
FormsOK == FormsInv /\ Known /\ \A c \in calls : Stage(c)

\* A request is a record.
LEMMA CallIs ==
  ASSUME NEW c \in Call
  PROVE  /\ c.op \in {"analyze", "latest", "save", "create", "plain"} /\ c.draft \in Drafts \cup {0}
         /\ c.at \in {"sent", "read", "made", "done", "failed"} /\ c.form \in FormTexts /\ c.answers \in Answers
         /\ c.accepted \in SUBSET Fields /\ c.busy \in SUBSET Flags /\ c.row \in DraftRow /\ c.goal \in GoalIds \cup {0}
         /\ c.row.form \in FormTexts /\ c.row.accepted \in SUBSET Fields /\ c.row.answers \in Answers
         /\ c.live \in BOOLEAN
BY DEF Call, DraftRow

\* Its rows as well.
LEMMA RowIs ==
  ASSUME NEW row \in DraftRow
  PROVE  /\ row.form \in FormTexts /\ row.accepted \in SUBSET Fields /\ row.answers \in Answers
         /\ row.status \in {"none", "ANALYZED", "EDITING", "READY_TO_CREATE", "GOAL_CREATED"}
BY DEF DraftRow

\* What a request is moved to.
LEMMA MovesIs ==
  ASSUME NEW c \in Call, NEW at \in {"sent", "read", "made", "done", "failed"}, NEW row \in DraftRow,
         NEW d \in Drafts \cup {0}, NEW goal \in GoalIds \cup {0}
  PROVE  /\ [c EXCEPT !.at = at] \in Call /\ [c EXCEPT !.at = at, !.row = row] \in Call
         /\ [c EXCEPT !.at = at, !.draft = d, !.row = row] \in Call
         /\ [c EXCEPT !.at = at, !.goal = goal] \in Call
BY DEF Call

\* An analysis makes a draft of what is filled in.
LEMMA AnalyzedIs ==
  ASSUME Typing, FormsOK, NEW c \in calls, createGoalIntakeDraft(c)
  PROVE  \E d, k : Analyzed(c, d, k)
<1>1. PICK d \in Unused(draft), date \in analyzeGoalIntakeSafely :
        LET row == [NoDraft EXCEPT !.status = "ANALYZED", !.form = buildGoalIntakeFormDraft(date, Filled(c.form))]
        IN /\ draft' = [draft EXCEPT ![d] = row]
           /\ newest' = d
           /\ Moves(c, [c EXCEPT !.at = "done", !.draft = d, !.row = row])
  BY DEF createGoalIntakeDraft
<1> DEFINE form == buildGoalIntakeFormDraft(date, Filled(c.form))
           row == [NoDraft EXCEPT !.status = "ANALYZED", !.form = form]
           k == [c EXCEPT !.at = "done", !.draft = d, !.row = row]
<1>2. c \in Call /\ c.form \in FormTexts /\ Shape(c.form)
  BY CallIs DEF Typing, FormsOK, FormsInv
<1>3. form \in FormTexts /\ RowShape(form) /\ \A f \in Fields : c.form[f] # "" => form[f] = c.form[f]
  BY <1>2, BuildHolds
<1>4. c.op = "analyze" /\ c.at = "sent" /\ made' = made
  BY DEF createGoalIntakeDraft
<1>5. d \in Drafts /\ draft[d].status = "none"
  BY DEF Unused, Typing
<1>6. calls' = (calls \ {c}) \cup {k} /\ draft' = [draft EXCEPT ![d] = row] /\ newest' = d
  BY <1>1 DEF Moves
<1> HIDE DEF form
<1>7. row \in DraftRow /\ row.status = "ANALYZED" /\ row.form = form /\ row.accepted = {}
  BY <1>3, NothingTyped DEF DraftRow
<1> HIDE DEF row
<1>8. /\ k \in Call /\ k.op = c.op /\ k.form = c.form /\ k.answers = c.answers /\ k.accepted = c.accepted
      /\ k.at = "done" /\ k.draft = d /\ k.row = row
  BY <1>2, <1>5, <1>7 DEF Call
<1> HIDE DEF k
<1>9. Analyzed(c, d, k)
  BY <1>3, <1>4, <1>5, <1>6, <1>7, <1>8 DEF Analyzed, Moved
<1> QED
  BY <1>9

\* The newest draft is found, when there is one.
LEMMA FoundIs ==
  ASSUME Typing, FormsOK, NEW c \in calls, getLatestGoalIntakeDraft(c)
  PROVE  \E k : Found(c, k)
<1> DEFINE k == IF newest = 0 THEN [c EXCEPT !.at = "done"]
                ELSE [c EXCEPT !.at = "done", !.draft = newest, !.row = draft[newest]]
<1>1. c \in Call
  BY DEF Typing
<1>2. newest # 0 => newest \in Drafts /\ draft[newest] \in DraftRow
  BY DEF Typing
<1>3. /\ k \in Call /\ k.op = c.op /\ k.form = c.form /\ k.answers = c.answers /\ k.accepted = c.accepted /\ k.at = "done"
      /\ IF newest = 0 THEN k.draft = c.draft /\ k.row = c.row ELSE k.draft = newest /\ k.row = draft[newest]
  BY <1>1, <1>2 DEF Call
<1>4. /\ c.op = "latest" /\ c.at = "sent" /\ draft' = draft /\ newest' = newest /\ made' = made
      /\ calls' = (calls \ {c}) \cup {k}
  BY DEF getLatestGoalIntakeDraft, Moves
<1> HIDE DEF k
<1>5. Found(c, k)
  BY <1>3, <1>4 DEF Found, Moved, SameRows
<1> QED
  BY <1>5

\* A save and a creation read their draft first.
LEMMA ReadIs ==
  ASSUME Typing, FormsOK, NEW c \in calls, getOwnedGoalIntakeDraft(c)
  PROVE  \E k : Read(c, k)
<1> DEFINE k == [c EXCEPT !.at = "read", !.row = draft[c.draft]]
<1>1. c \in Call /\ c.op \in {"save", "create"} /\ c.at = "sent"
  BY DEF Typing, getOwnedGoalIntakeDraft
<1>2. c.draft \in Drafts
  BY <1>1, CallIs DEF FormsOK, Stage
<1>3. draft[c.draft] \in DraftRow
  BY <1>2 DEF Typing
<1>4. /\ k \in Call /\ k.op = c.op /\ k.form = c.form /\ k.answers = c.answers /\ k.accepted = c.accepted
      /\ k.at = "read" /\ k.draft = c.draft /\ k.row = draft[c.draft]
  BY <1>1, <1>3 DEF Call
<1>5. calls' = (calls \ {c}) \cup {k} /\ draft' = draft /\ newest' = newest /\ made' = made
  BY DEF getOwnedGoalIntakeDraft, Moves
<1> HIDE DEF k
<1>6. Read(c, k)
  BY <1>1, <1>4, <1>5 DEF Read, Moved, SameRows
<1> QED
  BY <1>6

\* A save writes what it was sent over what it has read, a creation its goal.
LEMMA WrittenIs ==
  ASSUME Typing, FormsOK, NEW c \in calls, NEW row \in DraftRow, Writes(c, row),
         row.status # "none", RowShape(row.form), c.op \in {"save", "create"},
         \/ /\ c.op = "save" /\ c.at = "read" /\ Holds(row.form, c.form)
            /\ row.accepted = c.accepted /\ row.answers = c.answers
         \/ /\ c.op = "create" /\ c.at = "made" /\ row.form = draft[c.draft].form
            /\ row.accepted = draft[c.draft].accepted /\ row.answers = draft[c.draft].answers
  PROVE  \E k : Written(c, k)
<1> DEFINE k == [c EXCEPT !.at = "done", !.row = row]
<1>1. c \in Call
  BY DEF Typing
<1>2. c.draft \in Drafts
  BY <1>1, CallIs DEF FormsOK, Stage
<1>4. /\ k \in Call /\ k.op = c.op /\ k.form = c.form /\ k.answers = c.answers /\ k.accepted = c.accepted
      /\ k.at = "done" /\ k.draft = c.draft /\ k.row = row
  BY <1>1 DEF Call
<1>5. calls' = (calls \ {c}) \cup {k} /\ draft' = [draft EXCEPT ![c.draft] = row] /\ newest' = c.draft /\ made' = made
  BY DEF Writes, Moves
<1> HIDE DEF k
<1>6. Written(c, k)
  BY <1>2, <1>4, <1>5 DEF Written, Moved
<1> QED
  BY <1>6

\* A save.
LEMMA UpdatesAre ==
  ASSUME Typing, FormsOK, NEW c \in calls, updateGoalIntakeDraft(c)
  PROVE  \E k : Written(c, k)
<1> DEFINE row == Updated(draft[c.draft], c)
           form == mergeGoalIntakeFormDraft(c.row.form, EveryField(c.form))
<1>1. c \in Call /\ c.op = "save" /\ c.at = "read"
  BY DEF Typing, updateGoalIntakeDraft
<1>2. c.draft \in Drafts
  BY <1>1, CallIs DEF FormsOK, Stage
<1>3. draft[c.draft] \in DraftRow
  BY <1>2 DEF Typing
<1>4. c.row \in DraftRow /\ RowShape(c.row.form) /\ Shape(c.form) /\ c.form \in FormTexts
  BY <1>1, <1>2, CallIs DEF FormsOK, FormsInv, Stage, Drafts
<1>5. form \in FormTexts /\ RowShape(form) /\ Holds(form, c.form)
  BY <1>4, RowIs, MergeHolds
<1>6. row = [draft[c.draft] EXCEPT !.form = form, !.accepted = c.accepted, !.answers = c.answers,
              !.status = IF "create" \in c.busy THEN "READY_TO_CREATE" ELSE "EDITING"]
  BY DEF Updated
<1> HIDE DEF form, row
<1>7. /\ row \in DraftRow /\ row.form = form /\ row.accepted = c.accepted /\ row.answers = c.answers /\ row.status # "none"
  BY <1>1, <1>3, <1>5, <1>6, CallIs DEF DraftRow
<1>8. Writes(c, row)
  BY DEF updateGoalIntakeDraft, row
<1> QED
  BY <1>1, <1>5, <1>7, <1>8, WrittenIs

\* The goal of a draft.
LEMMA CreatedIs ==
  ASSUME Typing, FormsOK, NEW c \in calls, createGoalFromIntakeDraft(c)
  PROVE  \E k : Written(c, k)
<1> DEFINE row == [draft[c.draft] EXCEPT !.status = "GOAL_CREATED", !.goal = c.goal]
<1>1. c \in Call /\ c.at = "made"
  BY DEF Typing, createGoalFromIntakeDraft
<1>2. c.op = "create"
  BY <1>1 DEF FormsOK, Stage
<1>3. c.draft \in Drafts
  BY <1>1, <1>2, CallIs DEF FormsOK, Stage
<1>4. draft[c.draft] \in DraftRow /\ draft[c.draft].status # "none" /\ RowShape(draft[c.draft].form)
  BY <1>3 DEF Typing, FormsOK, FormsInv, Known, Exists, Drafts
<1>5. /\ row \in DraftRow /\ row.form = draft[c.draft].form /\ row.accepted = draft[c.draft].accepted
      /\ row.answers = draft[c.draft].answers /\ row.status # "none"
  BY <1>1, <1>4, CallIs DEF DraftRow
<1>6. Writes(c, row)
  BY DEF createGoalFromIntakeDraft
<1> HIDE DEF row
<1> QED
  BY <1>1, <1>2, <1>4, <1>5, <1>6, WrittenIs

\* A goal is made, or refused.
LEMMA MadeIs ==
  ASSUME Typing, FormsOK, NEW c \in calls, createGoal(c)
  PROVE  \/ \E k : Refuses(c, k)
         \/ \E g, k : Made(c, g, k)
<1>1. /\ c \in Call /\ <<c.op, c.at>> \in {<<"create", "read">>, <<"plain", "sent">>} /\ SameRows
      /\ c.form \in FormTexts /\ c.draft \in Drafts \cup {0} /\ c.row \in DraftRow
  BY CallIs DEF Typing, createGoal, SameRows
<1>2. CASE Refused(Payload(c))
  <2> DEFINE k == [c EXCEPT !.at = "failed"]
  <2>1. calls' = (calls \ {c}) \cup {k} /\ made' = made
    BY <1>2 DEF createGoal, Moves
  <2>2. /\ k \in Call /\ k.op = c.op /\ k.form = c.form /\ k.answers = c.answers /\ k.accepted = c.accepted
        /\ k.at = "failed" /\ k.draft = c.draft /\ k.row = c.row
    BY <1>1 DEF Call
  <2> HIDE DEF k
  <2>3. Refuses(c, k)
    BY <1>1, <2>1, <2>2 DEF Refuses, Moved
  <2> QED
    BY <2>3
<1>3. CASE ~Refused(Payload(c))
  <2>1. PICK g \in Unused(made) :
          /\ made' = [made EXCEPT ![g] = [status |-> "DRAFT", draft |-> c.draft, wanted |-> c.form,
                                          form |-> parseCreateGoalPayload(Payload(c))]]
          /\ Moves(c, [c EXCEPT !.at = IF c.op = "plain" THEN "done" ELSE "made", !.goal = g])
    BY <1>3 DEF createGoal
  <2> DEFINE k == [c EXCEPT !.at = IF c.op = "plain" THEN "done" ELSE "made", !.goal = g]
             new == [status |-> "DRAFT", draft |-> c.draft, wanted |-> c.form,
                     form |-> parseCreateGoalPayload(Payload(c))]
  <2>2. g \in GoalIds
    BY DEF Unused, Typing
  <2>3. /\ k \in Call /\ k.op = c.op /\ k.form = c.form /\ k.answers = c.answers /\ k.accepted = c.accepted
        /\ k.at = (IF c.op = "plain" THEN "done" ELSE "made") /\ k.draft = c.draft /\ k.row = c.row
    BY <1>1, <2>2 DEF Call
  <2>4. calls' = (calls \ {c}) \cup {k}
    BY <2>1 DEF Moves
  <2>5. parseCreateGoalPayload(Payload(c)) \in FormTexts
    <3>1. CASE c.op = "plain"
      <4>1. NoDraft.form \in FormTexts
        BY NothingTyped, RowIs
      <4>2. Payload(c) = buildGoalCreatePayload(c.form)
        BY <3>1 DEF Payload
      <4>3. PICK d \in Dates : TRUE
        BY DEF Dates
      <4>4. [EmptyForm EXCEPT !["end"] = d] \in FormTexts /\ RowShape([EmptyForm EXCEPT !["end"] = d])
        BY <4>3, SomeTexts DEF EmptyForm, FormTexts, RowShape, Fields
      <4> QED
        BY <1>1, <4>2, <4>4, ParsedTexts
    <3>2. CASE c.op # "plain"
      <4>1. c.at = "read" /\ c.op = "create"
        BY <1>1, <3>2
      <4>2. c.draft # 0 /\ c.row.status # "none"
        BY <4>1 DEF FormsOK, Stage
      <4>3. RowShape(c.row.form) /\ c.row.form \in FormTexts
        BY <1>1, <4>2, RowIs DEF FormsOK, FormsInv
      <4>4. Payload(c) = mergeGoalIntakeFormDraft(c.row.form, buildGoalCreatePayload(c.form))
        BY <3>2 DEF Payload
      <4> QED
        BY <1>1, <4>3, <4>4, ParsedTexts
    <3> QED
      BY <3>1, <3>2
  <2>6. new \in GoalRow /\ new.draft = c.draft /\ new.wanted = c.form /\ new.form = parseCreateGoalPayload(Payload(c))
    BY <1>1, <2>5 DEF GoalRow
  <2>7. made' = [made EXCEPT ![g] = new] /\ made \in [GoalIds -> GoalRow]
    BY <2>1 DEF Typing
  <2> HIDE DEF k, new
  <2>8. /\ made' \in [GoalIds -> GoalRow] /\ made'[g] = new
        /\ \A h \in GoalIds : h # g => made'[h] = made[h]
    BY <2>2, <2>6, <2>7
  <2>9. Made(c, g, k)
    BY <1>1, <1>3, <2>2, <2>3, <2>4, <2>6, <2>8 DEF Made, Moved
  <2> QED
    BY <2>9
<1> QED
  BY <1>2, <1>3

\* A step of the server.
LEMMA ServeIs ==
  ASSUME Typing, FormsOK, NEW c \in calls, Serve(c)
  PROVE  /\ Stays
         /\ \/ \E d, k : Analyzed(c, d, k)
            \/ \E k : Found(c, k) \/ Read(c, k) \/ Written(c, k) \/ Refuses(c, k)
            \/ \E g, k : Made(c, g, k)
<1>1. Stays
  BY DEF Serve, Stays
<1> QED
  BY <1>1, AnalyzedIs, FoundIs, ReadIs, UpdatesAre, CreatedIs, MadeIs DEF Serve

\* The rest of the server's state stays; what is crossed stays crossed.
Rest == SameRows /\ made' = made
Wider == crossed \subseteq crossed' /\ crossed' \subseteq Drafts
Save == [draft : Drafts \cup {0}, form : FormTexts, answers : Answers, accepted : SUBSET Fields]

Sent(c, p) ==
  /\ Asked(c, p) /\ Rest /\ Wider
  /\ calls' = calls \cup {c}
  /\ page' \in Page /\ page'.form = page.form /\ page'.draft = page.draft /\ page'.accepted = p.accepted
  /\ c.op = "save" => c.draft \in crossed' \/ \A k \in calls : k.draft # c.draft /\ k.op \notin {"analyze", "latest"}
  /\ c.op \in {"analyze", "latest"} => \A k \in calls : k.draft \in crossed' \cup {0}
  /\ saved' = IF c.op \in {"save", "analyze"} THEN NoSave ELSE saved
Reloaded ==
  /\ Rest /\ Wider /\ page' \in Page /\ page'.draft = 0 /\ Shape(page'.form) /\ saved' = saved
  /\ \A k \in calls : k.draft \in crossed' \cup {0}
  /\ \E new : /\ new \in Call /\ new.op = "latest" /\ new.at = "sent" /\ new.draft = 0 /\ Shape(new.form) /\ new.row = NoDraft
              /\ calls' = {[k EXCEPT !.live = FALSE] : k \in calls} \cup {new}
Failed(c, k) ==
  /\ Rest /\ page' = page /\ crossed' = crossed /\ saved' = saved
  /\ Moved(c, k) /\ k.at = "failed" /\ k.draft = c.draft /\ k.row = c.row
Gone(c) ==
  /\ Rest /\ crossed' = crossed /\ saved' = saved /\ calls' = calls \ {c}
  /\ page' \in Page /\ page'.form = page.form /\ page'.draft = page.draft /\ page'.accepted = page.accepted
Ended(c) ==
  /\ Rest /\ crossed' = crossed /\ c.at = "done" /\ c.live
  /\ IF c.op = "save"
     THEN calls' = calls \ {c} \/ \E k : /\ k \in Call /\ k.op = "create" /\ k.at = "sent" /\ k.draft = c.draft
                                          /\ k.form = c.form /\ k.row = NoDraft /\ calls' = (calls \ {c}) \cup {k}
     ELSE calls' = calls \ {c}
  /\ page' \in Page
  /\ IF c.draft = 0 THEN page'.form = page.form /\ page'.draft = page.draft /\ page'.accepted = page.accepted
     ELSE /\ page'.form = applyGoalIntakeDraftToForm(page.form, c.row.form)
          /\ page'.draft = c.draft /\ page'.accepted = c.row.accepted /\ page'.answers = c.row.answers
  /\ \/ saved' = saved /\ c.op # "save"
     \/ saved' = NoSave
     \/ /\ c.op = "save" /\ newest = c.draft /\ \A k \in calls \ {c} : k.op \notin {"save", "create"}
        /\ saved' \in Save /\ saved'.draft = c.draft /\ saved'.form = c.form /\ saved'.answers = c.answers
        /\ saved'.accepted = c.accepted

\* A request is sent.
LEMMA SentIs ==
  ASSUME Typing, crossed \subseteq Drafts, NEW c, NEW p, Asked(c, p), Send(c, p)
  PROVE  Sent(c, p)
<1>1. /\ calls' = calls \cup {c} /\ page' = [p EXCEPT !.busy = p.busy \cup c.busy] /\ Rest
      /\ saved' = IF c.op \in {"save", "analyze"} THEN NoSave ELSE saved
  BY DEF Send, Rest, SameRows
<1>2. c \in Call /\ p \in Page /\ p.form = page.form /\ p.draft = page.draft /\ c.op \in {"analyze", "latest", "plain", "save"}
  BY DEF Asked
<1>3. page' \in Page /\ page'.form = page.form /\ page'.draft = page.draft /\ page'.accepted = p.accepted
  BY <1>1, <1>2, CallIs DEF Page
<1> DEFINE K == {k.draft : k \in calls} \ {0}
<1>4. K \subseteq Drafts
  BY CallIs DEF Typing
<1>5. /\ c.op = "plain" => crossed' = crossed
      /\ c.op = "save" => crossed' = crossed \cup (IF Touching(c.draft) = {} THEN {} ELSE {c.draft})
      /\ c.op \in {"analyze", "latest"} => crossed' = crossed \cup K
  BY <1>2, Zenon DEF Send
<1>6. c.op = "save" => c.draft \in Drafts
  BY <1>2, CallIs DEF Asked
<1>7. Wider
  <2> HIDE DEF K
  <2> QED
    BY <1>2, <1>4, <1>5, <1>6 DEF Wider
<1>8. c.op = "save" => c.draft \in crossed' \/ \A k \in calls : k.draft # c.draft /\ k.op \notin {"analyze", "latest"}
  BY <1>5 DEF Touching
<1>9. c.op \in {"analyze", "latest"} => \A k \in calls : k.draft \in crossed' \cup {0}
  BY <1>5
<1> QED
  BY <1>1, <1>3, <1>7, <1>8, <1>9 DEF Sent

\* The page is loaded again.
LEMMA ReloadIs ==
  ASSUME Typing, page \in Page, crossed \subseteq Drafts, Reload
  PROVE  Reloaded
<1>1. /\ Rest /\ page' = Blank /\ saved' = saved /\ crossed' = crossed \cup ({c.draft : c \in calls} \ {0})
      /\ calls' = {[k EXCEPT !.live = FALSE] : k \in calls} \cup {Restoring}
  BY DEF Reload, Rest, SameRows
<1>2. Wider /\ \A k \in calls : k.draft \in crossed' \cup {0}
  BY <1>1, CallIs DEF Typing, Wider
<1> DEFINE b == Ask("latest", 0, EmptyForm, {}, {})
<1>3. Carries(b, "latest", 0, EmptyForm, {})
  <2>1. EmptyForm \in FormTexts /\ {} \in SUBSET Fields /\ {} \in SUBSET Flags /\ 0 \in Drafts \cup {0}
    BY NothingTyped
  <2> QED
    BY <2>1, AskIs, Zenon
<1>4. Restoring = [b EXCEPT !.answers = Silent]
  BY DEF Restoring
<1> HIDE DEF b
<1>5. /\ Restoring \in Call /\ Restoring.op = "latest" /\ Restoring.at = "sent" /\ Restoring.draft = 0
      /\ Shape(Restoring.form) /\ Restoring.row = NoDraft
  BY <1>3, <1>4, NothingTyped DEF Carries, Call
<1> QED
  BY <1>1, <1>2, <1>5, NothingTyped DEF Reloaded

\* A request fails.
LEMMA FailedIs ==
  ASSUME Typing, NEW c \in calls, Fails(c)
  PROVE  \E k : Failed(c, k)
<1> DEFINE k == [c EXCEPT !.at = "failed"]
<1>1. c \in Call
  BY DEF Typing
<1>2. /\ k \in Call /\ k.op = c.op /\ k.form = c.form /\ k.answers = c.answers /\ k.accepted = c.accepted
      /\ k.at = "failed" /\ k.draft = c.draft /\ k.row = c.row
  BY <1>1 DEF Call
<1>3. calls' = (calls \ {c}) \cup {k} /\ Rest /\ page' = page /\ crossed' = crossed /\ saved' = saved
  BY DEF Fails, Moves, Rest, SameRows
<1> HIDE DEF k
<1>4. Failed(c, k)
  BY <1>2, <1>3 DEF Failed, Moved
<1> QED
  BY <1>4

\* A request ends without an answer, or nobody waits for it.
LEMMA GoneIs ==
  ASSUME Typing, page \in Page, NEW c \in calls, Arrives(c), Dropped(c)
  PROVE  Gone(c)
<1>1. Rest /\ crossed' = crossed /\ saved' = saved /\ calls' = calls \ {c}
  BY DEF Arrives, Dropped, Rest, SameRows
<1>2. page' = page \/ page' = [page EXCEPT !.busy = page.busy \ c.busy]
  BY DEF Dropped
<1>3. page' \in Page /\ page'.form = page.form /\ page'.draft = page.draft /\ page'.accepted = page.accepted
  BY <1>2 DEF Page
<1> QED
  BY <1>1, <1>3 DEF Gone

\* The answer is shown; a draft saved for a creation is made a goal of.
LEMMA EndedIs ==
  ASSUME Typing, FormsOK, page \in Page, Shape(page.form), NEW c \in calls, Arrives(c), Answered(c)
  PROVE  Ended(c)
<1>0. c \in Call
  BY DEF Typing
<1>1. Rest /\ crossed' = crossed /\ c.at = "done" /\ c.live /\ calls' = (calls \ {c}) \cup Follows(c)
  BY DEF Arrives, Answered, Rest, SameRows
<1>2. IF c.op = "save"
      THEN calls' = calls \ {c} \/ \E k : /\ k \in Call /\ k.op = "create" /\ k.at = "sent" /\ k.draft = c.draft
                                           /\ k.form = c.form /\ k.row = NoDraft /\ calls' = (calls \ {c}) \cup {k}
      ELSE calls' = calls \ {c}
  <2> DEFINE k == [c EXCEPT !.op = "create", !.at = "sent", !.row = NoDraft]
  <2>1. /\ k \in Call /\ k.op = "create" /\ k.at = "sent" /\ k.draft = c.draft /\ k.form = c.form /\ k.row = NoDraft
    BY <1>0, NothingTyped DEF Call
  <2>2. Follows(c) = IF c.op = "save" /\ "create" \in c.busy THEN {k} ELSE {}
    BY DEF Follows
  <2> HIDE DEF k
  <2> QED
    BY <1>1, <2>1, <2>2
<1> DEFINE p == IF Follows(c) = {} THEN [page EXCEPT !.busy = page.busy \ c.busy] ELSE page
<1>3. page' = IF c.draft = 0 THEN p ELSE Shown(p, c.draft, c.row)
  BY DEF Answered
<1>4. p \in Page /\ p.form = page.form /\ p.draft = page.draft /\ p.accepted = page.accepted
  BY DEF Page
<1> HIDE DEF p
<1>5. /\ page' \in Page
      /\ IF c.draft = 0 THEN page'.form = page.form /\ page'.draft = page.draft /\ page'.accepted = page.accepted
         ELSE /\ page'.form = applyGoalIntakeDraftToForm(page.form, c.row.form)
              /\ page'.draft = c.draft /\ page'.accepted = c.row.accepted /\ page'.answers = c.row.answers
  <2>1. CASE c.draft = 0
    BY <1>3, <1>4, <2>1
  <2>2. CASE c.draft # 0
    <3> DEFINE form == applyGoalIntakeDraftToForm(page.form, c.row.form)
    <3>1. c.row \in DraftRow /\ RowShape(c.row.form) /\ c.draft \in Drafts
      BY <1>0, <1>1, <2>2, CallIs DEF FormsOK, FormsInv, Stage
    <3>2. form \in FormTexts
      BY <3>1, RowIs, ApplyShape DEF Page
    <3>3. page' = [p EXCEPT !.draft = c.draft, !.accepted = c.row.accepted, !.answers = c.row.answers, !.form = form]
      BY <1>3, <1>4, <2>2 DEF Shown
    <3> HIDE DEF form
    <3>4. page' \in Page /\ page'.form = form /\ page'.draft = c.draft /\ page'.accepted = c.row.accepted
          /\ page'.answers = c.row.answers
      BY <1>4, <3>1, <3>2, <3>3, RowIs DEF Page
    <3> QED
      BY <2>2, <3>4 DEF form
  <2> QED
    BY <2>1, <2>2
<1>6. \/ saved' = saved /\ c.op # "save"
      \/ saved' = NoSave
      \/ /\ c.op = "save" /\ newest = c.draft /\ \A k \in calls \ {c} : k.op \notin {"save", "create"}
         /\ saved' \in Save /\ saved'.draft = c.draft /\ saved'.form = c.form /\ saved'.answers = c.answers
         /\ saved'.accepted = c.accepted
  BY <1>0, CallIs DEF Answered, Save
<1> QED
  BY <1>1, <1>2, <1>5, <1>6 DEF Ended

\* Every step is one of these.
Stepped ==
  \/ UNCHANGED formVars
  \/ \E p : Edited(p) /\ Rest /\ page' = p /\ calls' = calls /\ crossed' = crossed /\ saved' = saved
  \/ \E c, p : Sent(c, p)
  \/ Reloaded
  \/ \E c \in calls :
       \/ \E d, k : Analyzed(c, d, k) /\ Stays
       \/ \E k : (Found(c, k) \/ Read(c, k) \/ Written(c, k) \/ Refuses(c, k)) /\ Stays
       \/ \E g, k : Made(c, g, k) /\ Stays
       \/ \E k : Failed(c, k)
       \/ Gone(c) \/ Ended(c)

\* What a step does, action by action.
LEMMA StepIs ==
  ASSUME Typing, FormsOK, page \in Page, crossed \subseteq Drafts, [FormNext]_formVars
  PROVE  Stepped
<1>1. Shape(page.form)
  BY DEF FormsOK, FormsInv
<1>2. CASE UNCHANGED formVars
  BY <1>2 DEF Stepped
<1>3. CASE Act
  <2>1. ASSUME NEW p, Edited(p), Edit(p)
        PROVE  Stepped
    BY <2>1 DEF Edit, Stepped, Rest, SameRows
  <2>2. ASSUME NEW c, NEW p, Asked(c, p), Send(c, p)
        PROVE  Stepped
    BY <2>2, SentIs DEF Stepped
  <2>3. ASSUME Reload
        PROVE  Stepped
    BY <2>3, ReloadIs DEF Stepped
  <2> QED
    BY <1>1, <1>3, <2>1, <2>2, <2>3, ActIs
<1>4. ASSUME NEW c \in calls, Serve(c)
      PROVE  Stepped
  BY <1>4, ServeIs DEF Stepped
<1>5. ASSUME NEW c \in calls, Fails(c)
      PROVE  Stepped
  BY <1>5, FailedIs DEF Stepped
<1>6. ASSUME NEW c \in calls, Arrives(c)
      PROVE  Stepped
  <2>1. Dropped(c) \/ Answered(c)
    BY <1>6 DEF Arrives
  <2> QED
    BY <1>1, <1>6, <2>1, GoneIs, EndedIs DEF Stepped
<1> QED
  BY <1>2, <1>3, <1>4, <1>5, <1>6 DEF FormNext

(***************************************************************************)
(* Each part of the invariant is kept.                                     *)
(***************************************************************************)
\* A request that goes on has a place in the set of requests.
LEMMA Others ==
  ASSUME NEW c \in calls, NEW k, Moved(c, k)
  PROVE  /\ k \in calls' /\ \A j \in calls' : j = k \/ (j \in calls /\ j # c)
BY DEF Moved

\* Types.
LEMMA TypingStep ==
  ASSUME Typing, FormsOK, page \in Page, crossed \subseteq Drafts, saved \in Save, Stepped
  PROVE  Typing' /\ (page \in Page)' /\ (crossed \subseteq Drafts)' /\ (saved \in Save)'
<1> DEFINE T == Typing' /\ (page \in Page)' /\ (crossed \subseteq Drafts)' /\ (saved \in Save)'
<1>0. NoSave \in Save
  BY NothingTyped DEF Save
<1>1. ASSUME UNCHANGED formVars
      PROVE  T
  BY <1>1 DEF formVars, Typing
<1>2. ASSUME NEW p, Edited(p), Rest, page' = p, calls' = calls, crossed' = crossed, saved' = saved
      PROVE  T
  BY <1>2 DEF Edited, Rest, SameRows, Typing
<1>3. ASSUME NEW c, NEW p, Sent(c, p)
      PROVE  T
  <2>1. saved' \in Save
    BY <1>0, <1>3 DEF Sent
  <2>2. Typing' /\ page' \in Page /\ crossed' \subseteq Drafts
    BY <1>3 DEF Sent, Asked, Rest, SameRows, Typing, Wider
  <2> QED
    BY <2>1, <2>2
<1>4. ASSUME Reloaded
      PROVE  T
  <2>1. PICK new : new \in Call /\ calls' = {[k EXCEPT !.live = FALSE] : k \in calls} \cup {new}
    BY <1>4 DEF Reloaded
  <2>2. \A k \in calls : [k EXCEPT !.live = FALSE] \in Call
    BY DEF Typing, Call
  <2>3. calls' \subseteq Call
    BY <2>1, <2>2
  <2> QED
    BY <1>4, <2>3 DEF Reloaded, Rest, SameRows, Typing, Wider
<1>5. ASSUME NEW c \in calls, NEW d, NEW k, Analyzed(c, d, k), Stays
      PROVE  T
  BY <1>5 DEF Analyzed, Moved, Stays, Typing
<1>6. ASSUME NEW c \in calls, NEW k, Found(c, k) \/ Read(c, k) \/ Refuses(c, k), Stays
      PROVE  T
  BY <1>6 DEF Found, Read, Refuses, Moved, SameRows, Stays, Typing
<1>7. ASSUME NEW c \in calls, NEW k, Written(c, k), Stays
      PROVE  T
  BY <1>7 DEF Written, Moved, Stays, Typing
<1>8. ASSUME NEW c \in calls, NEW g, NEW k, Made(c, g, k), Stays
      PROVE  T
  BY <1>8 DEF Made, Moved, SameRows, Stays, Typing
<1>9. ASSUME NEW c \in calls, NEW k, Failed(c, k)
      PROVE  T
  BY <1>9 DEF Failed, Moved, Rest, SameRows, Typing
<1>10. ASSUME NEW c \in calls, Gone(c)
       PROVE  T
  BY <1>10 DEF Gone, Rest, SameRows, Typing
<1>11. ASSUME NEW c \in calls, Ended(c)
       PROVE  T
  <2>1. saved' \in Save
    BY <1>0, <1>11 DEF Ended
  <2>2. calls' \subseteq Call
    BY <1>11 DEF Ended, Typing
  <2>3. Rest /\ page' \in Page /\ crossed' = crossed
    BY <1>11 DEF Ended
  <2> QED
    BY <2>1, <2>2, <2>3 DEF Rest, SameRows, Typing
<1> QED
  BY <1>1, <1>2, <1>3, <1>4, <1>5, <1>6, <1>7, <1>8, <1>9, <1>10, <1>11 DEF Stepped

\* Rows that are there stay there.
LEMMA RowsStay ==
  ASSUME Typing, FormsOK, Stepped
  PROVE  /\ \A d \in Drafts : draft[d].status # "none" => draft'[d].status # "none"
         /\ \A d \in Drafts : (draft[d].status # "none" => RowShape(draft[d].form)) =>
                                (draft'[d].status # "none" => RowShape(draft'[d].form))
         /\ \A d \in Drafts : draft'[d].status = "none" => draft'[d] = draft[d]
<1> DEFINE T == /\ \A d \in Drafts : draft[d].status # "none" => draft'[d].status # "none"
                /\ \A d \in Drafts : (draft[d].status # "none" => RowShape(draft[d].form)) =>
                                (draft'[d].status # "none" => RowShape(draft'[d].form))
                /\ \A d \in Drafts : draft'[d].status = "none" => draft'[d] = draft[d]
<1>1. ASSUME draft' = draft
      PROVE  T
  BY <1>1
<1>2. ASSUME NEW d \in Drafts, NEW row, row.status # "none", RowShape(row.form), draft' = [draft EXCEPT ![d] = row]
      PROVE  T
  BY <1>2 DEF Typing
<1>3. draft' = draft \/ \E d \in Drafts : \E row : row.status # "none" /\ RowShape(row.form) /\ draft' = [draft EXCEPT ![d] = row]
  <2>1. ASSUME NEW c \in calls, NEW d, NEW k, Analyzed(c, d, k)
        PROVE  \E e \in Drafts : \E row : row.status # "none" /\ RowShape(row.form) /\ draft' = [draft EXCEPT ![e] = row]
    BY <2>1 DEF Analyzed
  <2>2. ASSUME NEW c \in calls, NEW k, Written(c, k)
        PROVE  \E e \in Drafts : \E row : row.status # "none" /\ RowShape(row.form) /\ draft' = [draft EXCEPT ![e] = row]
    BY <2>2 DEF Written
  <2>3. ASSUME UNCHANGED formVars
        PROVE  draft' = draft
    BY <2>3 DEF formVars
  <2>4. ASSUME Rest \/ SameRows
        PROVE  draft' = draft
    BY <2>4 DEF Rest, SameRows
  <2> QED
    BY <2>1, <2>2, <2>3, <2>4 DEF Stepped, Sent, Reloaded, Found, Read, Refuses, Made, Failed, Gone, Ended
<1> QED
  BY <1>1, <1>2, <1>3

\* FormsOK, known rows and stages.
LEMMA FormsStep ==
  ASSUME Typing, FormsOK, page \in Page, saved \in Save, Stepped
  PROVE  FormsOK'
<1> DEFINE CallOK(k) == Shape(k.form) /\ (k.row.status # "none" => RowShape(k.row.form)) /\ Exists(k.draft) /\ Stage(k)
           CallOKp(k) == /\ Shape(k.form) /\ (k.row.status # "none" => RowShape(k.row.form))
                         /\ (k.draft # 0 => draft'[k.draft].status # "none") /\ Stage(k)
<1>0. /\ \A d \in Drafts : draft[d].status # "none" => draft'[d].status # "none"
      /\ \A d \in Drafts : draft'[d].status # "none" => RowShape(draft'[d].form)
  BY RowsStay DEF FormsOK, FormsInv
<1>1. \A k \in calls : CallOK(k) /\ k \in Call
  BY DEF FormsOK, FormsInv, Known, Typing
<1>2. \A k \in calls : CallOKp(k) /\ k.draft \in Drafts \cup {0}
  BY <1>0, <1>1, CallIs DEF Exists
<1>3. \A k \in calls' : CallOKp(k)
  <2>1. ASSUME UNCHANGED formVars
        PROVE  \A k \in calls' : CallOKp(k)
    BY <1>2, <2>1 DEF formVars
  <2>2. ASSUME calls' = calls \/ \E c : calls' = calls \ {c}
        PROVE  \A k \in calls' : CallOKp(k)
    BY <1>2, <2>2
  <2>3. ASSUME NEW c, NEW p, Sent(c, p)
        PROVE  \A k \in calls' : CallOKp(k)
    <3>1. /\ calls' = calls \cup {c} /\ c.at = "sent" /\ c.row = NoDraft /\ Shape(c.form)
          /\ (c.op \in {"analyze", "latest", "plain"} /\ c.draft = 0) \/ (c.op = "save" /\ c.draft = page.draft /\ c.draft # 0)
      BY <2>3 DEF Sent, Asked
    <3>2. c.draft # 0 => draft'[c.draft].status # "none"
      BY <1>0, <3>1 DEF FormsOK, Known, Exists, Page
    <3>3. CallOKp(c)
      BY <3>1, <3>2, NothingTyped DEF Stage
    <3> QED
      BY <1>2, <3>1, <3>3
  <2>4. ASSUME Reloaded
        PROVE  \A k \in calls' : CallOKp(k)
    <3>1. PICK new : /\ new.op = "latest" /\ new.at = "sent" /\ new.draft = 0 /\ Shape(new.form) /\ new.row = NoDraft
                     /\ calls' = {[k EXCEPT !.live = FALSE] : k \in calls} \cup {new}
      BY <2>4 DEF Reloaded
    <3>2. CallOKp(new)
      BY <3>1, NothingTyped DEF Stage
    <3>3. ASSUME NEW k \in calls
          PROVE  CallOKp([k EXCEPT !.live = FALSE])
      <4> DEFINE j == [k EXCEPT !.live = FALSE]
      <4>1. j.op = k.op /\ j.at = k.at /\ j.draft = k.draft /\ j.form = k.form /\ j.row = k.row
        BY <1>1 DEF Call
      <4> HIDE DEF j
      <4>2. CallOKp(j)
        BY <1>2, <4>1 DEF Stage
      <4> QED
        BY <4>2 DEF j
    <3> QED
      BY <3>1, <3>2, <3>3
  <2>5. ASSUME NEW c \in calls, NEW d, NEW k, Analyzed(c, d, k)
        PROVE  \A j \in calls' : CallOKp(j)
    <3>1. /\ k.op = "analyze" /\ k.at = "done" /\ k.draft = d /\ d \in Drafts /\ k.form = c.form
          /\ k.row.status # "none" /\ RowShape(k.row.form) /\ draft' = [draft EXCEPT ![d] = k.row]
      BY <2>5 DEF Analyzed, Moved
    <3>2. d # 0 /\ draft'[d] = k.row
      BY <3>1 DEF Drafts, Typing
    <3>3. CallOKp(k)
      BY <1>2, <3>1, <3>2 DEF Stage
    <3> QED
      BY <1>2, <2>5, <3>3, Others DEF Analyzed
  <2>6. ASSUME NEW c \in calls, NEW k, Found(c, k)
        PROVE  \A j \in calls' : CallOKp(j)
    <3>1. k.op = "latest" /\ k.at = "done" /\ Shape(k.form) /\ c.draft = 0
      BY <1>1, <2>6 DEF Found, Moved, Stage
    <3>2. newest = 0 => k.draft = 0
      BY <2>6, <3>1 DEF Found
    <3>3. newest # 0 => k.draft = newest /\ k.row = draft[newest] /\ newest \in Drafts /\ draft[newest].status # "none"
      BY <2>6 DEF Found, Typing, FormsOK, Known, Exists
    <3>4. newest # 0 => RowShape(k.row.form) /\ draft'[k.draft].status # "none"
      BY <1>0, <3>3 DEF FormsOK, FormsInv
    <3>5. newest = 0 => k.row = c.row
      BY <2>6 DEF Found
    <3>6. CallOKp(k)
      BY <1>1, <3>1, <3>2, <3>3, <3>4, <3>5 DEF Stage
    <3> QED
      BY <1>2, <2>6, <3>6, Others DEF Found
  <2>7. ASSUME NEW c \in calls, NEW k, Read(c, k)
        PROVE  \A j \in calls' : CallOKp(j)
    <3>1. /\ k.op = c.op /\ k.op \in {"save", "create"} /\ k.at = "read" /\ k.draft = c.draft /\ k.row = draft[c.draft]
          /\ k.form = c.form
      BY <2>7 DEF Read, Moved
    <3>2. c.draft \in Drafts /\ c.draft # 0
      BY <1>1, <1>2, <3>1 DEF Stage
    <3>3. draft[c.draft].status # "none" /\ RowShape(draft[c.draft].form)
      BY <3>2 DEF FormsOK, FormsInv, Known, Exists
    <3>4. CallOKp(k)
      BY <1>0, <1>1, <3>1, <3>2, <3>3 DEF Stage
    <3> QED
      BY <1>2, <2>7, <3>4, Others DEF Read
  <2>8. ASSUME NEW c \in calls, NEW k, Written(c, k)
        PROVE  \A j \in calls' : CallOKp(j)
    <3>1. /\ k.op = c.op /\ k.op \in {"save", "create"} /\ k.at = "done" /\ k.draft = c.draft /\ c.draft \in Drafts
          /\ k.form = c.form /\ k.row.status # "none" /\ RowShape(k.row.form)
      BY <2>8 DEF Written, Moved
    <3>2. draft'[c.draft].status # "none"
      BY <1>0, <3>1 DEF FormsOK, Known, Exists, Drafts
    <3>4. CallOKp(k)
      BY <1>1, <3>1, <3>2 DEF Stage
    <3> QED
      BY <1>2, <2>8, <3>4, Others DEF Written
  <2>9. ASSUME NEW c \in calls, NEW k, Failed(c, k)
        PROVE  \A j \in calls' : CallOKp(j)
    <3>1. /\ k.op = c.op /\ k.at = "failed" /\ k.draft = c.draft /\ k.form = c.form /\ k.row = c.row
      BY <2>9 DEF Failed, Moved
    <3>4. CallOKp(k)
      BY <1>2, <3>1 DEF Stage
    <3> QED
      BY <1>2, <2>9, <3>4, Others DEF Failed
  <2>10. ASSUME NEW c \in calls, NEW g, NEW k, Made(c, g, k)
         PROVE  \A j \in calls' : CallOKp(j)
    <3>1. /\ k.op = c.op /\ k.op \in {"create", "plain"} /\ k.draft = c.draft /\ k.form = c.form /\ k.row = c.row
          /\ k.at = (IF c.op = "plain" THEN "done" ELSE "made") /\ (c.op = "plain" \/ c.at = "read")
      BY <2>10 DEF Made, Moved
    <3>4. CallOKp(k)
      BY <1>2, <3>1 DEF Stage
    <3> QED
      BY <1>2, <2>10, <3>4, Others DEF Made
  <2>11. ASSUME NEW c \in calls, NEW k, Refuses(c, k)
         PROVE  \A j \in calls' : CallOKp(j)
    <3>1. k.op = c.op /\ k.at = "failed" /\ k.draft = c.draft /\ k.form = c.form /\ k.row = c.row
      BY <2>11 DEF Refuses, Moved
    <3>4. CallOKp(k)
      BY <1>2, <3>1 DEF Stage
    <3> QED
      BY <1>2, <2>11, <3>4, Others DEF Refuses
  <2>12. ASSUME NEW c \in calls, Ended(c)
         PROVE  \A j \in calls' : CallOKp(j)
    <3>1. calls' = calls \ {c} \/ \E k : /\ k \in Call /\ k.op = "create" /\ k.at = "sent" /\ k.draft = c.draft
                                          /\ k.form = c.form /\ k.row = NoDraft /\ calls' = (calls \ {c}) \cup {k} /\ c.op = "save"
      BY <2>12 DEF Ended
    <3>2. ASSUME NEW k, k.op = "create", k.at = "sent", k.draft = c.draft, k.form = c.form, k.row = NoDraft, c.op = "save"
          PROVE  CallOKp(k)
      BY <1>2, <3>2, NothingTyped DEF Stage
    <3> QED
      BY <1>2, <3>1, <3>2
  <2> HIDE DEF CallOKp
  <2>13. ASSUME NEW c \in calls, Gone(c)
         PROVE  \A j \in calls' : CallOKp(j)
    BY <2>2, <2>13 DEF Gone
  <2> QED
    BY <2>1, <2>2, <2>3, <2>4, <2>5, <2>6, <2>7, <2>8, <2>9, <2>10, <2>11, <2>12, <2>13 DEF Stepped
<1>4. Shape(page'.form) /\ (page'.draft # 0 => draft'[page'.draft].status # "none")
  <2>0. Shape(page.form) /\ page.form \in FormTexts /\ page.draft \in Drafts \cup {0}
        /\ (page.draft # 0 => draft[page.draft].status # "none")
    BY DEF FormsOK, FormsInv, Known, Exists, Page
  <2>1. ASSUME page'.form = page.form, page'.draft = page.draft
        PROVE  Shape(page'.form) /\ (page'.draft # 0 => draft'[page'.draft].status # "none")
    BY <1>0, <2>0, <2>1
  <2>2. ASSUME NEW p, Edited(p), page' = p
        PROVE  Shape(page'.form) /\ (page'.draft # 0 => draft'[page'.draft].status # "none")
    BY <1>0, <2>0, <2>2 DEF Edited
  <2>3. ASSUME NEW c \in calls, Ended(c)
        PROVE  Shape(page'.form) /\ (page'.draft # 0 => draft'[page'.draft].status # "none")
    <3>1. CASE c.draft = 0
      BY <1>0, <2>0, <2>3, <3>1 DEF Ended
    <3>2. CASE c.draft # 0
      <4>1. c.row.status # "none" /\ RowShape(c.row.form) /\ c.row.form \in FormTexts /\ c.draft \in Drafts
        BY <1>1, <1>2, <2>3, <3>2, CallIs DEF Ended, Stage
      <4>2. Shape(applyGoalIntakeDraftToForm(page.form, c.row.form))
        BY <2>0, <4>1, ApplyShape
      <4> QED
        BY <1>2, <2>3, <3>2, <4>2 DEF Ended
    <3> QED
      BY <3>1, <3>2
  <2>4. ASSUME Reloaded
        PROVE  Shape(page'.form) /\ (page'.draft # 0 => draft'[page'.draft].status # "none")
    BY <2>4 DEF Reloaded
  <2>5. ASSUME page' = page
        PROVE  Shape(page'.form) /\ (page'.draft # 0 => draft'[page'.draft].status # "none")
    BY <2>1, <2>5
  <2>6. ASSUME NEW c \in calls, Gone(c)
        PROVE  Shape(page'.form) /\ (page'.draft # 0 => draft'[page'.draft].status # "none")
    BY <2>1, <2>6 DEF Gone
  <2>7. ASSUME NEW c, NEW p, Sent(c, p)
        PROVE  Shape(page'.form) /\ (page'.draft # 0 => draft'[page'.draft].status # "none")
    BY <2>1, <2>7 DEF Sent
  <2>8. ASSUME NEW c \in calls, NEW k, Failed(c, k)
        PROVE  page' = page
    BY <2>8 DEF Failed
  <2>9. ASSUME Stays \/ UNCHANGED formVars
        PROVE  page' = page
    BY <2>9 DEF Stays, formVars
  <2> QED
    BY <2>2, <2>3, <2>4, <2>5, <2>6, <2>7, <2>8, <2>9 DEF Stepped
<1>5. Shape(saved'.form) /\ (saved'.draft # 0 => draft'[saved'.draft].status # "none")
  <2>1. ASSUME saved' = saved
        PROVE  Shape(saved'.form) /\ (saved'.draft # 0 => draft'[saved'.draft].status # "none")
    BY <1>0, <2>1 DEF FormsOK, FormsInv, Known, Exists, Save
  <2>2. ASSUME saved' = NoSave
        PROVE  Shape(saved'.form) /\ (saved'.draft # 0 => draft'[saved'.draft].status # "none")
    BY <2>2, NothingTyped
  <2>3. ASSUME NEW c \in calls, Ended(c)
        PROVE  Shape(saved'.form) /\ (saved'.draft # 0 => draft'[saved'.draft].status # "none")
    <3>1. ASSUME saved'.draft = c.draft, saved'.form = c.form
          PROVE  Shape(saved'.form) /\ (saved'.draft # 0 => draft'[saved'.draft].status # "none")
      BY <1>2, <3>1
    <3> QED
      BY <2>1, <2>2, <2>3, <3>1 DEF Ended
  <2>4. ASSUME Stays \/ UNCHANGED formVars
        PROVE  saved' = saved
    BY <2>4 DEF Stays, formVars
  <2>5. ASSUME NEW c, NEW p, Sent(c, p)
        PROVE  saved' = saved \/ saved' = NoSave
    BY <2>5 DEF Sent
  <2> QED
    BY <2>1, <2>2, <2>3, <2>4, <2>5 DEF Stepped, Reloaded, Gone, Failed
<1>6. newest' # 0 => draft'[newest'].status # "none"
  <2>1. ASSUME newest' = newest
        PROVE  newest' # 0 => draft'[newest'].status # "none"
    BY <1>0, <2>1 DEF FormsOK, Known, Exists, Typing
  <2>2. ASSUME NEW c \in calls, NEW d, NEW k, Analyzed(c, d, k)
        PROVE  newest' # 0 => draft'[newest'].status # "none"
    BY <2>2 DEF Analyzed, Typing
  <2>3. ASSUME NEW c \in calls, NEW k, Written(c, k)
        PROVE  newest' # 0 => draft'[newest'].status # "none"
    BY <2>3 DEF Written, Typing
  <2>4. ASSUME Rest \/ SameRows \/ UNCHANGED formVars
        PROVE  newest' = newest
    BY <2>4 DEF Rest, SameRows, formVars
  <2> QED
    BY <2>1, <2>2, <2>3, <2>4 DEF Stepped, Sent, Reloaded, Found, Read, Refuses, Made, Failed, Gone, Ended
<1>7. \A g \in GoalIds : made'[g].draft # 0 => draft'[made'[g].draft].status # "none"
  <2>0. \A g \in GoalIds : made[g].draft # 0 => draft'[made[g].draft].status # "none"
    BY <1>0 DEF FormsOK, Known, Exists, Typing, GoalRow
  <2>1. ASSUME NEW c \in calls, NEW g, NEW k, Made(c, g, k)
        PROVE  \A h \in GoalIds : made'[h].draft # 0 => draft'[made'[h].draft].status # "none"
    BY <1>2, <2>0, <2>1 DEF Made
  <2>2. ASSUME Rest \/ made' = made \/ UNCHANGED formVars
        PROVE  \A h \in GoalIds : made'[h].draft # 0 => draft'[made'[h].draft].status # "none"
    BY <2>0, <2>2 DEF Rest, formVars
  <2> QED
    BY <2>1, <2>2, ZenonT(40) DEF Stepped, Sent, Reloaded, Analyzed, Written, Found, Read, Refuses, Failed, Gone, Ended
<1> HIDE DEF CallOK, CallOKp
<1>8. FormsInv'
  <2>1. \A k \in calls' : Shape(k.form) /\ (k.row.status # "none" => RowShape(k.row.form))
    BY <1>3 DEF CallOKp
  <2> QED
    BY <1>0, <1>4, <1>5, <2>1 DEF FormsInv, Shape, RowShape
<1>9. Known'
  <2>2. \A d \in Drafts : draft'[d].status = "none" => draft'[d] = NoDraft
    BY RowsStay DEF FormsOK, Known
  <2>1. \A k \in calls' : (k.draft # 0 => draft'[k.draft].status # "none")
    BY <1>3 DEF CallOKp
  <2> QED
    BY <1>4, <1>5, <1>6, <1>7, <2>1, <2>2 DEF Known, Exists
<1>10. (\A k \in calls : Stage(k))'
  <2>1. \A k \in calls' : Stage(k)
    BY <1>3 DEF CallOKp
  <2> QED
    BY <2>1 DEF Stage
<1> QED
  BY <1>8, <1>9, <1>10 DEF FormsOK

\* What is crossed stays so.
LEMMA Widens ==
  ASSUME Stepped, crossed \subseteq Drafts
  PROVE  \A d : d \notin crossed' \cup {0} => Quiet(d)
<1>1. ASSUME Wider \/ Stays \/ crossed' = crossed \/ UNCHANGED formVars
      PROVE  crossed \subseteq crossed'
  BY <1>1 DEF Wider, Stays, formVars
<1>2. crossed \subseteq crossed'
  BY <1>1 DEF Stepped, Sent, Reloaded, Failed, Gone, Ended
<1> QED
  BY <1>2 DEF Quiet

\* A request that moves on leaves those alone that are alone.
LEMMA MovedAlone ==
  ASSUME \A j \in calls : Alone(j), crossed' = crossed, NEW c \in calls, NEW k,
         calls' = (calls \ {c}) \cup {k},
         k.op = c.op \/ (c.op = "save" /\ k.op = "create"),
         k.draft = c.draft \/ c.op \in {"analyze", "latest"}
  PROVE  (\A j \in calls : Alone(j))'
<1> DEFINE AloneP(j) == j.op \in {"save", "create"} /\ Quiet(j.draft) =>
                         \A i \in calls' \ {j} : i.draft # j.draft /\ i.op \notin {"analyze", "latest"}
<1>1. ASSUME NEW j \in calls', j.op \in {"save", "create"}, Quiet(j.draft), NEW i \in calls' \ {j}
      PROVE  i.draft # j.draft /\ i.op \notin {"analyze", "latest"}
  <2>1. CASE j = k
    <3>1. i \in calls \ {c} /\ c.op \in {"save", "create"} /\ c.draft = j.draft
      BY <1>1, <2>1
    <3> QED
      BY <1>1, <3>1 DEF Alone
  <2>2. CASE j # k
    <3>1. j \in calls /\ j # c
      BY <2>2
    <3>2. c.draft # j.draft /\ c.op \notin {"analyze", "latest"}
      BY <1>1, <3>1 DEF Alone
    <3>3. i = k \/ i \in calls \ {j}
      BY <1>1
    <3> QED
      BY <1>1, <3>1, <3>2, <3>3 DEF Alone
  <2> QED
    BY <2>1, <2>2
<1> QED
  BY <1>1 DEF Alone, Quiet

\* Those that are alone stay alone.
LEMMA AloneStep ==
  ASSUME Typing, FormsOK, Stepped, crossed \subseteq Drafts, \A j \in calls : Alone(j)
  PROVE  (\A j \in calls : Alone(j))'
<1> DEFINE P == \A j \in calls' : j.op \in {"save", "create"} /\ j.draft \notin crossed' \cup {0} =>
                 \A i \in calls' \ {j} : i.draft # j.draft /\ i.op \notin {"analyze", "latest"}
<1>0. P => (\A j \in calls : Alone(j))'
  BY DEF Alone, Quiet
<1>1. ASSUME UNCHANGED formVars
      PROVE  P
  BY <1>1 DEF formVars, Alone, Quiet
<1>2. ASSUME calls' \subseteq calls
      PROVE  P
  BY <1>2, Widens DEF Alone
<1>3. ASSUME NEW c, NEW p, Sent(c, p)
      PROVE  P
  <2>1. ASSUME NEW j \in calls', j.op \in {"save", "create"}, j.draft \notin crossed' \cup {0}, NEW i \in calls' \ {j}
        PROVE  i.draft # j.draft /\ i.op \notin {"analyze", "latest"}
    <3>0. /\ calls' = calls \cup {c} /\ Quiet(j.draft)
          /\ c.op = "save" => c.draft \in crossed' \/ \A k \in calls : k.draft # c.draft /\ k.op \notin {"analyze", "latest"}
          /\ c.op \in {"analyze", "latest"} => \A k \in calls : k.draft \in crossed' \cup {0}
          /\ (c.op \in {"analyze", "latest", "plain"} /\ c.draft = 0) \/ c.op = "save"
      BY <1>3, <2>1, Widens DEF Sent, Asked
    <3>1. CASE j \in calls
      <4>1. CASE i \in calls
        BY <2>1, <3>0, <3>1, <4>1 DEF Alone
      <4>2. CASE i = c
        BY <2>1, <3>0, <3>1, <4>2
      <4> QED
        BY <3>0, <4>1, <4>2
    <3>2. CASE j = c
      BY <2>1, <3>0, <3>2
    <3> QED
      BY <3>0, <3>1, <3>2
  <2> QED
    BY <2>1
<1>4. ASSUME Reloaded
      PROVE  P
  <2>1. PICK new : new.op = "latest" /\ calls' = {[k EXCEPT !.live = FALSE] : k \in calls} \cup {new}
    BY <1>4 DEF Reloaded
  <2>2. \A k \in calls : [k EXCEPT !.live = FALSE].draft \in crossed' \cup {0}
    BY <1>4, CallIs DEF Reloaded, Typing, Call
  <2>3. \A j \in calls' : j.op \in {"save", "create"} => j.draft \in crossed' \cup {0}
    BY <2>1, <2>2
  <2> QED
    BY <2>3
<1>5. ASSUME NEW c \in calls, NEW d, NEW k, Analyzed(c, d, k), Stays
      PROVE  (\A j \in calls : Alone(j))'
  BY <1>5, MovedAlone DEF Analyzed, Moved, Stays
<1>6. ASSUME NEW c \in calls, NEW k, Found(c, k), Stays
      PROVE  (\A j \in calls : Alone(j))'
  BY <1>6, MovedAlone DEF Found, Moved, Stays
<1>7. ASSUME NEW c \in calls, NEW k, Moved(c, k), k.draft = c.draft, crossed' = crossed
      PROVE  (\A j \in calls : Alone(j))'
  BY <1>7, MovedAlone DEF Moved
<1>8. ASSUME NEW c \in calls, NEW k, Read(c, k) \/ Written(c, k) \/ Refuses(c, k), Stays
      PROVE  (\A j \in calls : Alone(j))'
  BY <1>7, <1>8 DEF Read, Written, Refuses, Stays
<1>9. ASSUME NEW c \in calls, NEW g, NEW k, Made(c, g, k), Stays
      PROVE  (\A j \in calls : Alone(j))'
  BY <1>7, <1>9 DEF Made, Stays
<1>10. ASSUME NEW c \in calls, NEW k, Failed(c, k)
       PROVE  (\A j \in calls : Alone(j))'
  BY <1>7, <1>10 DEF Failed
<1>11. ASSUME NEW c \in calls, Gone(c)
       PROVE  P
  BY <1>2, <1>11 DEF Gone
<1>12. ASSUME NEW c \in calls, Ended(c)
       PROVE  (\A j \in calls : Alone(j))'
  <2>1. CASE calls' = calls \ {c}
    <3>1. P
      BY <1>2, <2>1
    <3> QED
      BY <1>0, <3>1
  <2>2. ASSUME NEW k, k.op = "create", k.draft = c.draft, calls' = (calls \ {c}) \cup {k}, c.op = "save"
        PROVE  (\A j \in calls : Alone(j))'
    <3>1. crossed' = crossed
      BY <1>12 DEF Ended
    <3> QED
      BY <2>2, <3>1, MovedAlone
  <2> QED
    BY <1>12, <2>1, <2>2 DEF Ended
<1>13. ASSUME NEW p, calls' = calls
       PROVE  P
  BY <1>2, <1>13
<1> HIDE DEF P
<1> QED
  BY <1>0, <1>1, <1>3, <1>4, <1>5, <1>6, <1>8, <1>9, <1>10, <1>11, <1>12, <1>13 DEF Stepped

\* What a request knows of its draft is so after the step.
ToldAfter(j) ==
  /\ j.draft \notin crossed' \cup {0} =>
       /\ j.at \in {"read", "made", "done"} => j.row = draft'[j.draft]
       /\ j.op = "create" \/ (j.op = "save" /\ j.at = "done") => Holds(draft'[j.draft].form, j.form)
       /\ j.op = "save" /\ j.at = "done" => draft'[j.draft].accepted = j.accepted /\ draft'[j.draft].answers = j.answers
  /\ j.op = "analyze" /\ j.at = "done" => \A f \in Fields : j.form[f] # "" => j.row.form[f] = j.form[f]
Told(j) == Reads(j) /\ HoldsForm(j)

\* A step that leaves a request and its draft leaves what it knows.
LEMMA ToldStays ==
  ASSUME Stepped, crossed \subseteq Drafts, NEW j, Told(j),
         j.draft \notin crossed' \cup {0} => draft'[j.draft] = draft[j.draft]
  PROVE  ToldAfter(j)
<1>1. j.draft \notin crossed' \cup {0} => Quiet(j.draft)
  BY Widens
<1> QED
  BY <1>1 DEF Told, Reads, HoldsForm, ToldAfter

\* A request that is elsewhere knows the same.
LEMMA SameTold ==
  ASSUME NEW j, NEW k, ToldAfter(j), k.op = j.op, k.at = j.at, k.draft = j.draft, k.form = j.form, k.row = j.row,
         k.accepted = j.accepted, k.answers = j.answers
  PROVE  ToldAfter(k)
BY DEF ToldAfter

\* What requests know of their drafts is so.
LEMMA ToldStep ==
  ASSUME Typing, FormsOK, Stepped, crossed \subseteq Drafts, \A j \in calls : Alone(j) /\ Told(j)
  PROVE  (\A j \in calls : Reads(j) /\ HoldsForm(j))'
<1> DEFINE P == \A j \in calls' : ToldAfter(j)
<1>0. P => (\A j \in calls : Reads(j) /\ HoldsForm(j))'
  BY DEF ToldAfter, Reads, HoldsForm, Quiet, Holds
<1>1. ASSUME draft' = draft
      PROVE  \A j \in calls : ToldAfter(j)
  BY <1>1, ToldStays
<1>2. ASSUME SameRows \/ Rest \/ UNCHANGED formVars
      PROVE  draft' = draft
  BY <1>2 DEF SameRows, Rest, formVars
<1>3. ASSUME calls' \subseteq calls, draft' = draft
      PROVE  P
  BY <1>1, <1>3
<1>4. ASSUME UNCHANGED formVars
      PROVE  P
  BY <1>2, <1>3, <1>4 DEF formVars
<1>5. ASSUME NEW c, NEW p, Sent(c, p)
      PROVE  P
  <2>1. calls' = calls \cup {c} /\ c.at = "sent" /\ c.op # "create" /\ draft' = draft
    BY <1>2, <1>5 DEF Sent, Asked
  <2>2. ToldAfter(c)
    BY <2>1 DEF ToldAfter
  <2> QED
    BY <1>1, <2>1, <2>2
<1>6. ASSUME Reloaded
      PROVE  P
  <2>1. PICK new : new.op = "latest" /\ new.at = "sent" /\ calls' = {[k EXCEPT !.live = FALSE] : k \in calls} \cup {new}
    BY <1>6 DEF Reloaded
  <2>2. ToldAfter(new)
    BY <2>1 DEF ToldAfter
  <2>3. draft' = draft
    BY <1>2, <1>6 DEF Reloaded
  <2>4. ASSUME NEW k \in calls
        PROVE  ToldAfter([k EXCEPT !.live = FALSE])
    <3> DEFINE j == [k EXCEPT !.live = FALSE]
    <3>1. /\ j.op = k.op /\ j.at = k.at /\ j.draft = k.draft /\ j.form = k.form /\ j.row = k.row
          /\ j.accepted = k.accepted /\ j.answers = k.answers
      BY DEF Typing, Call
    <3>2. ToldAfter(k)
      BY <1>1, <2>3
    <3> HIDE DEF j
    <3>3. ToldAfter(j)
      BY <3>1, <3>2, SameTold
    <3> QED
      BY <3>3 DEF j
  <2> QED
    BY <2>1, <2>2, <2>4
<1>7. ASSUME NEW c \in calls, NEW d, NEW k, Analyzed(c, d, k)
      PROVE  P
  <2>1. /\ d \in Drafts /\ draft[d].status = "none" /\ draft' = [draft EXCEPT ![d] = k.row]
        /\ k.at = "done" /\ k.draft = d /\ k.op = "analyze" /\ \A f \in Fields : k.form[f] # "" => k.row.form[f] = k.form[f]
    BY <1>7 DEF Analyzed, Moved
  <2>2. \A j \in calls : j.draft # 0 => j.draft # d /\ j.draft \in Drafts
    BY <2>1, CallIs DEF FormsOK, Known, Exists, Typing
  <2>3. \A j \in calls : j.draft # 0 => draft'[j.draft] = draft[j.draft]
    BY <2>1, <2>2 DEF Typing
  <2>4. \A j \in calls : ToldAfter(j)
    BY <2>3, ToldStays
  <2>5. draft'[d] = k.row
    BY <2>1 DEF Typing
  <2>6. ToldAfter(k)
    BY <2>1, <2>5 DEF ToldAfter
  <2> QED
    BY <1>7, <2>4, <2>6, Others DEF Analyzed
<1>8. ASSUME NEW c \in calls, NEW k, Found(c, k)
      PROVE  P
  <2>1. draft' = draft /\ c.op = "latest" /\ k.op = "latest" /\ c.draft = 0
    BY <1>2, <1>8 DEF Found, Moved, FormsOK, Stage
  <2>2. ToldAfter(k)
    BY <1>8, <2>1 DEF Found, ToldAfter
  <2> QED
    BY <1>1, <1>8, <2>1, <2>2, Others DEF Found
<1>9. ASSUME NEW c \in calls, NEW k, Read(c, k)
      PROVE  P
  <2>1. draft' = draft /\ k.op = c.op /\ k.op \in {"save", "create"} /\ k.at = "read" /\ k.draft = c.draft
        /\ k.row = draft[c.draft] /\ k.form = c.form
    BY <1>2, <1>9 DEF Read, Moved
  <2>2. ToldAfter(c)
    BY <1>1, <2>1
  <2>3. ToldAfter(k)
    BY <2>1, <2>2 DEF ToldAfter
  <2> QED
    BY <1>1, <1>9, <2>1, <2>3, Others DEF Read
<1>10. ASSUME NEW c \in calls, NEW k, Written(c, k), crossed' = crossed
       PROVE  P
  <2>1. /\ c.draft \in Drafts /\ draft' = [draft EXCEPT ![c.draft] = k.row] /\ c.op \in {"save", "create"}
        /\ k.op = c.op /\ k.at = "done" /\ k.draft = c.draft /\ k.form = c.form
        /\ k.accepted = c.accepted /\ k.answers = c.answers
    BY <1>10 DEF Written, Moved
  <2>2. draft'[c.draft] = k.row
    BY <2>1 DEF Typing
  <2>3. ASSUME NEW j \in calls, j # c
        PROVE  ToldAfter(j)
    <3>1. ASSUME j.draft \notin crossed' \cup {0}
          PROVE  draft'[j.draft] = draft[j.draft]
      <4>1. j.draft # c.draft
        BY <1>10, <2>1, <2>3, <3>1 DEF Alone, Quiet
      <4>2. j.draft \in Drafts
        BY <3>1, CallIs DEF Typing
      <4> QED
        BY <2>1, <4>1, <4>2 DEF Typing
    <3> QED
      BY <3>1, ToldStays
  <2>4. ToldAfter(k)
    <3>1. ASSUME c.draft \notin crossed' \cup {0}
          PROVE  /\ Holds(k.row.form, k.form)
                 /\ k.op = "save" => k.row.accepted = k.accepted /\ k.row.answers = k.answers
      <4>1. CASE c.op = "save"
        BY <1>10, <2>1, <4>1 DEF Written
      <4>2. CASE c.op = "create"
        <5>1. Quiet(c.draft)
          BY <1>10, <3>1 DEF Quiet
        <5>2. Holds(draft[c.draft].form, c.form)
          BY <4>2, <5>1 DEF Told, HoldsForm
        <5>3. k.row.form = draft[c.draft].form
          BY <1>10, <4>2 DEF Written
        <5> QED
          BY <2>1, <4>2, <5>2, <5>3
      <4> QED
        BY <2>1, <4>1, <4>2
    <3> QED
      BY <2>1, <2>2, <3>1 DEF ToldAfter
  <2> QED
    BY <1>10, <2>3, <2>4, Others DEF Written
<1>11. ASSUME NEW c \in calls, NEW k, k.at = "failed", Moved(c, k), k.draft = c.draft, draft' = draft
       PROVE  P
  <2>1. k.op = c.op /\ k.form = c.form
    BY <1>11 DEF Moved
  <2>2. ToldAfter(c)
    BY <1>1, <1>11
  <2>3. ToldAfter(k)
    BY <1>11, <2>1, <2>2 DEF ToldAfter
  <2> QED
    BY <1>1, <1>11, <2>3, Others
<1>12. ASSUME NEW c \in calls, NEW k, Refuses(c, k) \/ Failed(c, k)
       PROVE  P
  BY <1>2, <1>11, <1>12 DEF Refuses, Failed
<1>13. ASSUME NEW c \in calls, NEW g, NEW k, Made(c, g, k)
       PROVE  P
  <2>1. draft' = draft /\ k.op = c.op /\ k.form = c.form /\ k.draft = c.draft /\ k.row = c.row /\ c.op \in {"create", "plain"}
        /\ (c.op = "plain" => c.draft = 0) /\ (c.op = "create" => c.at = "read")
    BY <1>2, <1>13 DEF Made, Moved, FormsOK, Stage
  <2>2. ToldAfter(c)
    BY <1>1, <2>1
  <2>3. ToldAfter(k)
    BY <2>1, <2>2 DEF ToldAfter
  <2> QED
    BY <1>1, <1>13, <2>1, <2>3, Others DEF Made
<1>14. ASSUME NEW c \in calls, Gone(c)
       PROVE  P
  BY <1>2, <1>3, <1>14 DEF Gone
<1>15. ASSUME NEW c \in calls, Ended(c)
       PROVE  P
  <2>1. draft' = draft /\ c.at = "done"
    BY <1>2, <1>15 DEF Ended
  <2>2. ASSUME NEW k, k.op = "create", k.at = "sent", k.draft = c.draft, k.form = c.form, c.op = "save"
        PROVE  ToldAfter(k)
    <3>1. ToldAfter(c)
      BY <1>1, <2>1
    <3> QED
      BY <2>1, <2>2, <3>1 DEF ToldAfter
  <2>3. \A j \in calls : ToldAfter(j)
    BY <1>1, <2>1
  <2> QED
    BY <1>15, <2>2, <2>3 DEF Ended
<1>16. ASSUME NEW p, Rest, calls' = calls
       PROVE  P
  BY <1>2, <1>3, <1>16
<1>17. ASSUME Stays
       PROVE  crossed' = crossed
  BY <1>17 DEF Stays
<1> HIDE DEF P
<1> QED
  BY <1>0, <1>4, <1>5, <1>6, <1>7, <1>8, <1>9, <1>10, <1>12, <1>13, <1>14, <1>15, <1>16, <1>17 DEF Stepped

\* Nothing that is accepted is lost from sight.
LEMMA AcceptsStep ==
  ASSUME Typing, FormsOK, page \in Page, Stepped, crossed \subseteq Drafts, Accepts, \A j \in calls : Alone(j) /\ Told(j)
  PROVE  Accepts'
<1> DEFINE Q(d) == d \notin crossed' \cup {0}
           A == Q(page'.draft) => draft'[page'.draft].accepted \subseteq page'.accepted
           B == \A j \in calls' : Q(j.draft) /\ j.op = "save" /\ j.at \in {"sent", "read"} =>
                  /\ draft'[j.draft].accepted \subseteq j.accepted
                  /\ j.draft = page'.draft => j.accepted \subseteq page'.accepted
<1>0. A /\ B => Accepts'
  BY DEF Accepts, Quiet
<1>w. \A d : Q(d) => Quiet(d)
  BY Widens
<1>1. ASSUME UNCHANGED formVars
      PROVE  A /\ B
  BY <1>1 DEF formVars, Accepts, Quiet
<1>2. ASSUME draft' = draft, page'.draft = page.draft, page'.accepted = page.accepted,
             \A j \in calls' : j.op = "save" /\ j.at \in {"sent", "read"} =>
               \E i \in calls : /\ i.op = "save" /\ i.at \in {"sent", "read"} /\ i.draft = j.draft /\ i.accepted = j.accepted
      PROVE  A /\ B
  <2>1. A
    BY <1>2, <1>w DEF Accepts
  <2>2. ASSUME NEW j \in calls', Q(j.draft), j.op = "save", j.at \in {"sent", "read"}
        PROVE  /\ draft'[j.draft].accepted \subseteq j.accepted
               /\ j.draft = page'.draft => j.accepted \subseteq page'.accepted
    <3>1. PICK i \in calls : i.op = "save" /\ i.at \in {"sent", "read"} /\ i.draft = j.draft /\ i.accepted = j.accepted
      BY <1>2, <2>2
    <3>2. Quiet(i.draft)
      BY <1>w, <2>2, <3>1
    <3> QED
      BY <1>2, <3>1, <3>2 DEF Accepts
  <2> QED
    BY <2>1, <2>2
<1>3. ASSUME NEW p, Edited(p), Rest, page' = p, calls' = calls
      PROVE  A /\ B
  BY <1>2, <1>3 DEF Edited, Rest, SameRows
<1>4. ASSUME NEW c, NEW p, Sent(c, p)
      PROVE  A /\ B
  <2>0. /\ draft' = draft /\ calls' = calls \cup {c} /\ page'.draft = page.draft /\ page'.accepted = p.accepted
    BY <1>4 DEF Sent, Rest, SameRows
  <2>1. CASE c.op = "save"
    <3>1. /\ c.draft = page.draft /\ c.draft # 0 /\ page.accepted \subseteq c.accepted /\ p.accepted = c.accepted
          /\ c.draft \in crossed' \/ \A k \in calls : k.draft # c.draft
      BY <1>4, <2>1 DEF Sent, Asked
    <3>2. A
      BY <1>w, <2>0, <3>1 DEF Accepts
    <3>3. ASSUME NEW j \in calls', Q(j.draft), j.op = "save", j.at \in {"sent", "read"}
          PROVE  /\ draft'[j.draft].accepted \subseteq j.accepted
                 /\ j.draft = page'.draft => j.accepted \subseteq page'.accepted
      <4>1. CASE j = c
        BY <1>w, <2>0, <3>1, <3>3, <4>1 DEF Accepts
      <4>2. CASE j \in calls
        BY <1>w, <2>0, <3>1, <3>3, <4>2 DEF Accepts
      <4> QED
        BY <2>0, <4>1, <4>2
    <3> QED
      BY <3>2, <3>3
  <2>2. CASE c.op # "save"
    <3>1. p = page
      BY <1>4, <2>2 DEF Sent, Asked
    <3> QED
      BY <1>2, <2>0, <2>2, <3>1
  <2> QED
    BY <2>1, <2>2
<1>5. ASSUME Reloaded
      PROVE  A /\ B
  <2>1. PICK new : new.op = "latest" /\ calls' = {[k EXCEPT !.live = FALSE] : k \in calls} \cup {new}
    BY <1>5 DEF Reloaded
  <2>2. \A k \in calls : [k EXCEPT !.live = FALSE].draft \in crossed' \cup {0}
    BY <1>5, CallIs DEF Reloaded, Typing, Call
  <2>3. \A j \in calls' : j.op = "save" => j.draft \in crossed' \cup {0}
    BY <2>1, <2>2
  <2>4. page'.draft = 0
    BY <1>5 DEF Reloaded
  <2> QED
    BY <2>3, <2>4
<1>6. ASSUME NEW c \in calls, NEW d, NEW k, Analyzed(c, d, k), page' = page
      PROVE  A /\ B
  <2>1. /\ d \in Drafts /\ draft[d].status = "none" /\ draft' = [draft EXCEPT ![d] = k.row] /\ k.op = "analyze"
        /\ \A j \in calls' : j = k \/ j \in calls
    BY <1>6, Others DEF Analyzed, Moved
  <2>2. \A e : e # 0 /\ Exists(e) /\ e \in Drafts => draft'[e] = draft[e]
    BY <2>1 DEF Exists, Typing
  <2>3. A
    BY <1>6, <1>w, <2>2 DEF Accepts, FormsOK, Known, Page
  <2>4. \A j \in calls : j.draft # 0 => draft'[j.draft] = draft[j.draft]
    BY <2>2, CallIs DEF FormsOK, Known, Typing
  <2>5. B
    BY <1>6, <1>w, <2>1, <2>4 DEF Accepts
  <2> QED
    BY <2>3, <2>5
<1>7. ASSUME NEW c \in calls, NEW k, Found(c, k), page' = page
      PROVE  A /\ B
  <2>1. \A j \in calls' : j.op = "save" => j \in calls
    BY <1>7, Others DEF Found, Moved
  <2> QED
    BY <1>2, <1>7, <2>1 DEF Found, SameRows
<1>8. ASSUME NEW c \in calls, NEW k, Read(c, k), page' = page
      PROVE  A /\ B
  <2>1. k.op = c.op /\ k.draft = c.draft /\ k.accepted = c.accepted /\ c.at = "sent" /\ draft' = draft
    BY <1>8 DEF Read, Moved, SameRows
  <2>2. \A j \in calls' : j = k \/ j \in calls
    BY <1>8, Others DEF Read
  <2> QED
    BY <1>2, <1>8, <2>1, <2>2
<1>9. ASSUME NEW c \in calls, NEW k, Written(c, k), page' = page, crossed' = crossed
      PROVE  A /\ B
  <2>1. /\ c.draft \in Drafts /\ draft' = [draft EXCEPT ![c.draft] = k.row] /\ k.at = "done"
        /\ \A j \in calls' : j = k \/ (j \in calls /\ j # c)
        /\ c.op \in {"save", "create"}
    BY <1>9, Others DEF Written
  <2>2. \A e \in Drafts : draft'[e] = IF e = c.draft THEN k.row ELSE draft[e]
    BY <2>1 DEF Typing
  <2>3. A
    <3>1. CASE page.draft = c.draft
      <4>1. ASSUME Quiet(c.draft)
            PROVE  k.row.accepted \subseteq page.accepted
        <5>1. CASE c.op = "save"
          <6>1. c.at = "read" /\ k.row.accepted = c.accepted
            BY <1>9, <5>1 DEF Written
          <6> QED
            BY <3>1, <4>1, <5>1, <6>1 DEF Accepts
        <5>2. CASE c.op = "create"
          <6>1. k.row.accepted = draft[c.draft].accepted
            BY <1>9, <5>2 DEF Written
          <6> QED
            BY <3>1, <4>1, <6>1 DEF Accepts
        <5> QED
          BY <2>1, <5>1, <5>2
      <4> QED
        BY <1>9, <1>w, <2>1, <2>2, <3>1, <4>1
    <3>2. CASE page.draft # c.draft
      BY <1>9, <1>w, <2>2, <3>2 DEF Accepts, Page
    <3> QED
      BY <3>1, <3>2
  <2>4. ASSUME NEW j \in calls', Q(j.draft), j.op = "save", j.at \in {"sent", "read"}
        PROVE  /\ draft'[j.draft].accepted \subseteq j.accepted
               /\ j.draft = page'.draft => j.accepted \subseteq page'.accepted
    <3>1. j \in calls /\ j # c /\ Quiet(j.draft)
      BY <1>w, <2>1, <2>4
    <3>2. j.draft # c.draft /\ j.draft \in Drafts
      BY <2>1, <2>4, <3>1, CallIs DEF Alone, Typing, Quiet
    <3> QED
      BY <1>9, <2>2, <2>4, <3>1, <3>2 DEF Accepts
  <2> QED
    BY <2>3, <2>4
<1>10. ASSUME NEW c \in calls, NEW k, Moved(c, k), k.at \notin {"sent", "read"}, draft' = draft, page' = page
       PROVE  A /\ B
  <2>1. \A j \in calls' : j.at \in {"sent", "read"} => j \in calls
    BY <1>10, Others
  <2> QED
    BY <1>2, <1>10, <2>1
<1>11. ASSUME NEW c \in calls, NEW k, Failed(c, k) \/ (Refuses(c, k) /\ Stays)
       PROVE  A /\ B
  BY <1>10, <1>11 DEF Failed, Refuses, Rest, SameRows, Stays
<1>12. ASSUME NEW c \in calls, NEW g, NEW k, Made(c, g, k), page' = page
       PROVE  A /\ B
  <2>1. Moved(c, k) /\ k.at \notin {"sent", "read"} /\ draft' = draft
    BY <1>12 DEF Made, SameRows
  <2> QED
    BY <1>10, <1>12, <2>1
<1>13. ASSUME NEW c \in calls, Gone(c)
       PROVE  A /\ B
  BY <1>2, <1>13 DEF Gone, Rest, SameRows
<1>14. ASSUME NEW c \in calls, Ended(c)
       PROVE  A /\ B
  <2>0. draft' = draft /\ crossed' = crossed /\ c.at = "done"
    BY <1>14 DEF Ended, Rest, SameRows
  <2>1. \A j \in calls' : j.op = "save" => j \in calls /\ j # c
    BY <1>14 DEF Ended
  <2>2. CASE c.draft = 0
    BY <1>2, <1>14, <2>0, <2>1, <2>2 DEF Ended
  <2>3. CASE c.draft # 0
    <3>1. page'.draft = c.draft /\ page'.accepted = c.row.accepted
      BY <1>14, <2>3 DEF Ended
    <3>2. A
      BY <1>w, <2>0, <3>1 DEF Told, Reads
    <3>3. ASSUME NEW j \in calls', Q(j.draft), j.op = "save", j.at \in {"sent", "read"}
          PROVE  /\ draft'[j.draft].accepted \subseteq j.accepted
                 /\ j.draft = page'.draft => j.accepted \subseteq page'.accepted
      <4>1. j \in calls /\ j # c /\ Quiet(j.draft)
        BY <1>w, <2>1, <3>3
      <4>2. c.draft # j.draft
        BY <3>3, <4>1 DEF Alone
      <4> QED
        BY <2>0, <3>1, <3>3, <4>1, <4>2 DEF Accepts
    <3> QED
      BY <3>2, <3>3
  <2> QED
    BY <2>2, <2>3
<1>15. ASSUME Stays
       PROVE  page' = page /\ crossed' = crossed
  BY <1>15 DEF Stays
<1> HIDE DEF A, B
<1> QED
  BY <1>0, <1>1, <1>3, <1>4, <1>5, <1>6, <1>7, <1>8, <1>9, <1>11, <1>12, <1>13, <1>14, <1>15 DEF Stepped

\* A draft that was saved last is the newest, with what was saved.
LEMMA SavedStep ==
  ASSUME Typing, FormsOK, saved \in Save, Stepped, crossed \subseteq Drafts, SavedIsNewest,
         \A j \in calls : Alone(j) /\ Told(j)
  PROVE  SavedIsNewest'
<1> DEFINE Q(d) == d \notin crossed' \cup {0}
           Row == Q(saved'.draft) =>
                    /\ newest' = saved'.draft
                    /\ draft'[newest'].answers = saved'.answers /\ draft'[newest'].accepted = saved'.accepted
                    /\ Holds(draft'[newest'].form, saved'.form)
           Fits(c) == /\ c.op \notin {"save", "analyze"}
                      /\ c.op = "create" \/ (c.op = "latest" /\ c.at = "done") => c.draft = newest'
           All == Q(saved'.draft) => \A c \in calls' : Fits(c)
<1>0. Row /\ All => SavedIsNewest'
  BY DEF SavedIsNewest, Quiet, Holds
<1>w. \A d : Q(d) => Quiet(d)
  BY Widens
<1>1. ASSUME SameRows, saved' = saved
      PROVE  /\ Row
             /\ Q(saved'.draft) => \A c \in calls : Fits(c)
  BY <1>1, <1>w DEF SavedIsNewest, SameRows
<1>2. ASSUME UNCHANGED formVars
      PROVE  Row /\ All
  BY <1>1, <1>2 DEF formVars, SameRows
<1>3. ASSUME SameRows, saved' = saved, calls' \subseteq calls
      PROVE  Row /\ All
  BY <1>1, <1>3
<1>4. ASSUME saved'.draft = 0
      PROVE  Row /\ All
  BY <1>4
<1>5. ASSUME NEW p, Rest, calls' = calls, saved' = saved
      PROVE  Row /\ All
  BY <1>3, <1>5 DEF Rest
<1>6. ASSUME NEW c, NEW p, Sent(c, p)
      PROVE  Row /\ All
  <2>1. CASE c.op \in {"save", "analyze"}
    BY <1>4, <1>6, <2>1, NothingTyped DEF Sent
  <2>2. CASE c.op \notin {"save", "analyze"}
    <3>1. saved' = saved /\ SameRows /\ calls' = calls \cup {c} /\ c.at = "sent" /\ c.op # "create"
      BY <1>6, <2>2 DEF Sent, Asked, Rest
    <3>2. Fits(c)
      BY <2>2, <3>1
    <3> QED
      BY <1>1, <3>1, <3>2
  <2> QED
    BY <2>1, <2>2
<1>7. ASSUME Reloaded
      PROVE  Row /\ All
  <2>1. PICK new : new.op = "latest" /\ new.at = "sent" /\ calls' = {[k EXCEPT !.live = FALSE] : k \in calls} \cup {new}
    BY <1>7 DEF Reloaded
  <2>2. Fits(new)
    BY <2>1
  <2>3. saved' = saved /\ SameRows
    BY <1>7 DEF Reloaded, Rest
  <2>4. ASSUME NEW k \in calls, Fits(k)
        PROVE  Fits([k EXCEPT !.live = FALSE])
    <3>1. /\ [k EXCEPT !.live = FALSE].op = k.op /\ [k EXCEPT !.live = FALSE].at = k.at
          /\ [k EXCEPT !.live = FALSE].draft = k.draft
      BY DEF Typing, Call
    <3> QED
      BY <2>4, <3>1
  <2> HIDE DEF Fits
  <2> QED
    BY <1>1, <2>1, <2>2, <2>3, <2>4
<1>8. ASSUME NEW c \in calls, c.op \in {"save", "analyze"}, saved' = saved
      PROVE  Row /\ All
  BY <1>8, <1>w DEF SavedIsNewest
<1>9. ASSUME NEW c \in calls, NEW d, NEW k, Analyzed(c, d, k), saved' = saved
      PROVE  Row /\ All
  BY <1>8, <1>9 DEF Analyzed
<1>10. ASSUME NEW c \in calls, NEW k, Moved(c, k), SameRows, saved' = saved, Q(saved'.draft) => Fits(k)
       PROVE  Row /\ All
  <2>1. \A j \in calls' : j = k \/ j \in calls
    BY <1>10, Others
  <2> HIDE DEF Fits
  <2> QED
    BY <1>1, <1>10, <2>1
<1>11. ASSUME NEW c \in calls, NEW k, Found(c, k), saved' = saved
       PROVE  Row /\ All
  <2>1. Moved(c, k) /\ SameRows /\ k.op = "latest" /\ newest' = newest
    BY <1>11 DEF Found, Moved, SameRows
  <2>2. Q(saved'.draft) => newest # 0
    BY <1>11, <1>w DEF SavedIsNewest, Quiet
  <2>3. Q(saved'.draft) => Fits(k)
    BY <1>11, <2>1, <2>2 DEF Found
  <2> QED
    BY <1>10, <1>11, <2>1, <2>3
<1>12. ASSUME NEW c \in calls, NEW k, Moved(c, k), SameRows, saved' = saved, k.draft = c.draft,
              k.op = "latest" => k.at # "done" \/ c.at = "done"
       PROVE  Row /\ All
  <2>1. k.op = c.op
    BY <1>12 DEF Moved
  <2>2. Q(saved'.draft) => Fits(c)
    BY <1>1, <1>12
  <2>3. Q(saved'.draft) => Fits(k)
    BY <1>12, <2>1, <2>2
  <2> QED
    BY <1>10, <1>12, <2>3
<1>13. ASSUME NEW c \in calls, NEW k, Read(c, k) \/ Refuses(c, k) \/ Failed(c, k), saved' = saved
       PROVE  Row /\ All
  <2>1. Moved(c, k) /\ SameRows /\ k.draft = c.draft /\ k.at # "done"
    BY <1>13 DEF Read, Refuses, Failed, Rest
  <2> QED
    BY <1>12, <1>13, <2>1
<1>14. ASSUME NEW c \in calls, NEW g, NEW k, Made(c, g, k), saved' = saved
       PROVE  Row /\ All
  <2>1. Moved(c, k) /\ SameRows /\ k.draft = c.draft /\ k.op # "latest"
    BY <1>14 DEF Made, Moved
  <2> QED
    BY <1>12, <1>14, <2>1
<1>15. ASSUME NEW c \in calls, NEW k, Written(c, k), saved' = saved
       PROVE  Row /\ All
  <2>1. CASE c.op = "save"
    BY <1>8, <1>15, <2>1
  <2>2. CASE c.op # "save"
    <3>1. /\ c.op = "create" /\ k.op = "create" /\ c.draft \in Drafts /\ draft' = [draft EXCEPT ![c.draft] = k.row]
          /\ newest' = c.draft /\ k.draft = c.draft /\ k.row.form = draft[c.draft].form
          /\ k.row.accepted = draft[c.draft].accepted /\ k.row.answers = draft[c.draft].answers
          /\ \A j \in calls' : j = k \/ j \in calls
      BY <1>15, <2>2, Others DEF Written, Moved
    <3>2. draft'[c.draft] = k.row
      BY <3>1 DEF Typing
    <3>3. ASSUME Q(saved'.draft)
          PROVE  c.draft = newest /\ newest' = newest
      BY <1>15, <1>w, <3>1, <3>3 DEF SavedIsNewest
    <3>4. Row
      BY <1>15, <1>w, <3>1, <3>2, <3>3 DEF SavedIsNewest
    <3>5. All
      BY <1>15, <1>w, <3>1, <3>3 DEF SavedIsNewest
    <3> QED
      BY <3>4, <3>5
  <2> QED
    BY <2>1, <2>2
<1>16. ASSUME NEW c \in calls, Gone(c)
       PROVE  Row /\ All
  BY <1>3, <1>16 DEF Gone, Rest
<1>17. ASSUME NEW c \in calls, Ended(c)
       PROVE  Row /\ All
  <2>0. SameRows /\ crossed' = crossed /\ c.at = "done"
    BY <1>17 DEF Ended, Rest
  <2>1. ASSUME saved' = saved, c.op # "save"
        PROVE  Row /\ All
    BY <1>3, <1>17, <2>0, <2>1 DEF Ended
  <2>2. ASSUME saved' = NoSave
        PROVE  Row /\ All
    BY <1>4, <2>2, NothingTyped
  <2>3. ASSUME c.op = "save", newest = c.draft, \A k \in calls \ {c} : k.op \notin {"save", "create"},
               saved'.draft = c.draft, saved'.form = c.form, saved'.answers = c.answers, saved'.accepted = c.accepted
        PROVE  Row /\ All
    <3>1. ASSUME Q(c.draft)
          PROVE  /\ draft[c.draft].accepted = c.accepted /\ draft[c.draft].answers = c.answers
                 /\ Holds(draft[c.draft].form, c.form)
                 /\ \A k \in calls \ {c} : k.op \notin {"analyze", "latest"}
      BY <1>w, <2>0, <2>3, <3>1 DEF Told, HoldsForm, Alone
    <3>2. Row
      BY <2>0, <2>3, <3>1 DEF SameRows
    <3>3. ASSUME Q(c.draft), NEW k \in calls'
          PROVE  Fits(k)
      <4>1. k \in calls \ {c} \/ (k.op = "create" /\ k.draft = c.draft)
        BY <1>17, <2>3, <3>3 DEF Ended
      <4> QED
        BY <2>0, <2>3, <3>1, <3>3, <4>1 DEF SameRows
    <3> QED
      BY <2>3, <3>2, <3>3
  <2> HIDE DEF Row, All
  <2> QED
    BY <1>17, <2>1, <2>2, <2>3 DEF Ended
<1>18. ASSUME Stays
       PROVE  saved' = saved
  BY <1>18 DEF Stays
<1> HIDE DEF Row, All
<1> QED
  BY <1>0, <1>2, <1>5, <1>6, <1>7, <1>9, <1>11, <1>13, <1>14, <1>15, <1>16, <1>17, <1>18 DEF Stepped, Reloaded, Failed

\* What a goal must hold, when its draft was never crossed.
GoalHoldsForm(g) ==
  made[g].status # "none" /\ made[g].draft \notin crossed =>
    \A f \in Fields : (f = "end" => made[g].wanted["end"] # "") =>
      made[g].form[f] = parseCreateGoalPayload(made[g].wanted)[f]

\* A goal is made of the form.
LEMMA GoalStep ==
  ASSUME Typing, FormsOK, Stepped, crossed \subseteq Drafts, \A j \in calls : Told(j), \A g \in GoalIds : GoalHoldsForm(g)
  PROVE  (\A g \in GoalIds : GoalHoldsForm(g))'
<1> DEFINE After(g) == made'[g].status # "none" /\ made'[g].draft \notin crossed' =>
             \A f \in Fields : (f = "end" => made'[g].wanted["end"] # "") =>
               made'[g].form[f] = parseCreateGoalPayload(made'[g].wanted)[f]
<1>0. (\A g \in GoalIds : After(g)) => (\A g \in GoalIds : GoalHoldsForm(g))'
  BY DEF GoalHoldsForm, parseCreateGoalPayload
<1>w. \A d \in Drafts \cup {0} : d \notin crossed' => d \notin crossed
  BY Widens DEF Quiet, Drafts
<1>1. \A g \in GoalIds : made'[g] = made[g] => After(g)
  BY <1>w DEF GoalHoldsForm, Typing, GoalRow
<1>2. ASSUME made' = made
      PROVE  \A g \in GoalIds : After(g)
  BY <1>1, <1>2
<1>3. ASSUME NEW c \in calls, NEW g, NEW k, Made(c, g, k), crossed' = crossed
      PROVE  \A h \in GoalIds : After(h)
  <2>1. /\ g \in GoalIds /\ \A h \in GoalIds : h # g => made'[h] = made[h]
        /\ made'[g].draft = c.draft /\ made'[g].wanted = c.form /\ made'[g].form = parseCreateGoalPayload(Payload(c))
        /\ ~Refused(Payload(c))
        /\ (c.op = "create" /\ c.at = "read") \/ c.op = "plain"
    BY <1>3 DEF Made
  <2>2. c.form \in FormTexts /\ Shape(c.form) /\ c.row.form \in FormTexts
    BY CallIs DEF Typing, FormsOK, FormsInv
  <2>3. ASSUME c.draft \notin crossed, NEW f \in Fields, f = "end" => c.form["end"] # ""
        PROVE  parseCreateGoalPayload(Payload(c))[f] = parseCreateGoalPayload(c.form)[f]
    <3>1. CASE c.op = "plain"
      <4>1. Payload(c) = buildGoalCreatePayload(c.form)
        BY <3>1 DEF Payload
      <4> QED
        BY <2>2, <4>1, PlainPayloadIs
    <3>2. CASE c.op = "create" /\ c.at = "read"
      <4>1. Quiet(c.draft)
        BY <2>3, <3>2 DEF FormsOK, Stage, Quiet
      <4>2. Holds(c.row.form, c.form)
        BY <3>2, <4>1 DEF Told, Reads, HoldsForm
      <4>3. Payload(c) = mergeGoalIntakeFormDraft(c.row.form, buildGoalCreatePayload(c.form))
        BY <3>2 DEF Payload
      <4> QED
        BY <2>1, <2>2, <2>3, <4>2, <4>3, PayloadIs
    <3> QED
      BY <2>1, <3>1, <3>2
  <2>4. After(g)
    BY <1>3, <2>1, <2>3
  <2> QED
    BY <1>1, <2>1, <2>4
<1>4. ASSUME UNCHANGED formVars \/ Rest
      PROVE  made' = made
  BY <1>4 DEF formVars, Rest
<1>5. ASSUME Stays
      PROVE  crossed' = crossed
  BY <1>5 DEF Stays
<1> HIDE DEF After
<1> QED
  BY <1>0, <1>2, <1>3, <1>4, <1>5, ZenonT(40) DEF Stepped, Sent, Reloaded, Analyzed, Found, Read, Written, Refuses, Failed, Gone, Ended

(***************************************************************************)
(* The invariant and what follows from it.                                 *)
(***************************************************************************)
Assisted == AssistantInv /\ \A g \in GoalIds : GoalHoldsForm(g)

\* A step of the page is counted.
LEMMA ActCounts ==
  ASSUME Act
  PROVE  acts < MaxActs /\ acts' = acts + 1 /\ failures' = failures
BY Zenon DEF Act, updateGoalField, updateGoalAssistantAnswer, Edit, handleAnalyzeGoalIntake, Send,
   loadLatestGoalIntakeDraft, Reload, handleSaveGoalAssistantState, saveGoalAssistantState,
   handleAcceptGoalAssistantField, handleCreateGoalFromAssistant, handleCreateGoal

\* The types of the bounds.
LEMMA BoundsStep ==
  ASSUME acts \in 0..MaxActs, failures \in 0..MaxFailures, [FormNext]_formVars
  PROVE  acts' \in 0..MaxActs /\ failures' \in 0..MaxFailures
<1>0. MaxActs \in Nat /\ MaxFailures \in Nat
  BY AssistantAssumption
<1>1. ASSUME acts < MaxActs, acts' = acts + 1, failures' = failures
      PROVE  acts' \in 0..MaxActs /\ failures' \in 0..MaxFailures
  BY <1>0, <1>1
<1>2. ASSUME NEW c, Serve(c) \/ Arrives(c)
      PROVE  acts' \in 0..MaxActs /\ failures' \in 0..MaxFailures
  BY <1>2 DEF Serve, Arrives
<1>3. ASSUME NEW c, Fails(c)
      PROVE  acts' \in 0..MaxActs /\ failures' \in 0..MaxFailures
  BY <1>0, <1>3 DEF Fails
<1>4. ASSUME Act
      PROVE  acts' \in 0..MaxActs /\ failures' \in 0..MaxFailures
  <2>1. acts < MaxActs /\ acts' = acts + 1 /\ failures' = failures
    BY <1>4, ActCounts
  <2> QED
    BY <1>1, <2>1
<1>5. CASE UNCHANGED formVars
  BY <1>5 DEF formVars
<1> QED
  BY <1>2, <1>3, <1>4, <1>5 DEF FormNext

\* The parts that the lemmas speak of.
LEMMA AssistedIs ==
  Assisted <=> /\ Typing /\ page \in Page /\ crossed \subseteq Drafts /\ saved \in Save
               /\ acts \in 0..MaxActs /\ failures \in 0..MaxFailures
               /\ FormsOK /\ Accepts /\ SavedIsNewest
               /\ (\A j \in calls : Alone(j)) /\ (\A j \in calls : Told(j))
               /\ \A g \in GoalIds : GoalHoldsForm(g)
BY DEF Assisted, AssistantInv, FormTypeOK, Typing, Page, Save, FormsOK, Told

\* It holds at first.
LEMMA AssistedInit == FormInit => Assisted
<1> SUFFICES ASSUME FormInit PROVE Assisted
  OBVIOUS
<1>1. PICK form \in Begun : page = [Blank EXCEPT !.form = form]
  BY DEF FormInit
<1>2. form \in FormTexts /\ Shape(form)
  <2>0. /\ form \in [Fields -> (UNION {Typed[f] : f \in Fields}) \cup {""}]
        /\ \A f \in Fields : form[f] \in Typed[f] \cup {""}
    BY AssistantAssumption, Zenon
  <2>1. form = [f \in Fields |-> form[f]]
    BY <2>0
  <2>2. \A f \in Fields : Typed[f] \subseteq Texts
    BY Zenon DEF Texts
  <2>3. \A f \in Fields : form[f] \in Texts
    BY <2>0, <2>2, SomeTexts
  <2>4. form \in FormTexts
    BY <2>1, <2>3 DEF FormTexts
  <2>5. \A f \in Fields : {"absent", "null"} \cap Typed[f] = {}
    BY AssistantAssumption
  <2>6. form["end"] \in Dates \cup {""}
    BY <2>0, AssistantAssumption DEF Fields
  <2>7. \A f \in Fields : form[f] \notin {"absent", "null"}
    BY <2>0, <2>5
  <2> QED
    BY <2>4, <2>6, <2>7 DEF Shape
<1>3. page \in Page /\ page.form = form /\ page.draft = 0
  BY <1>1, <1>2, NothingTyped DEF Page
<1>4. /\ draft = [d \in Drafts |-> NoDraft] /\ newest = 0 /\ made = [g \in GoalIds |-> NoGoal] /\ calls = {}
      /\ crossed = {} /\ saved = NoSave /\ acts = 0 /\ failures = 0
  BY DEF FormInit
<1>5. Typing /\ saved \in Save
  BY <1>4, NothingTyped DEF Typing, Save
<1>6. acts \in 0..MaxActs /\ failures \in 0..MaxFailures
  <2>1. MaxActs \in Nat /\ MaxFailures \in Nat
    BY AssistantAssumption
  <2> QED
    BY <1>4, <2>1
<1>7. FormsOK
  BY <1>2, <1>3, <1>4, NothingTyped DEF FormsOK, FormsInv, Known, Exists
<1>8. Accepts /\ SavedIsNewest
  BY <1>3, <1>4, NothingTyped DEF Accepts, SavedIsNewest, Quiet
<1>9. \A g \in GoalIds : GoalHoldsForm(g)
  BY <1>4, NothingTyped DEF GoalHoldsForm
<1> QED
  BY <1>3, <1>4, <1>5, <1>6, <1>7, <1>8, <1>9, AssistedIs

\* Every step keeps it.
LEMMA AssistedNext == Assisted /\ [FormNext]_formVars => Assisted'
<1> SUFFICES ASSUME Assisted, [FormNext]_formVars PROVE Assisted'
  OBVIOUS
<1>1. /\ Typing /\ page \in Page /\ crossed \subseteq Drafts /\ saved \in Save
      /\ acts \in 0..MaxActs /\ failures \in 0..MaxFailures
      /\ FormsOK /\ Accepts /\ SavedIsNewest
      /\ (\A j \in calls : Alone(j)) /\ (\A j \in calls : Told(j))
      /\ \A g \in GoalIds : GoalHoldsForm(g)
  BY AssistedIs
<1>2. Stepped
  BY <1>1, StepIs
<1>3. Typing' /\ (page \in Page)' /\ (crossed \subseteq Drafts)' /\ (saved \in Save)'
  BY <1>1, <1>2, TypingStep
<1>4. acts' \in 0..MaxActs /\ failures' \in 0..MaxFailures
  BY <1>1, BoundsStep
<1>5. FormsOK'
  BY <1>1, <1>2, FormsStep
<1>6. (\A j \in calls : Alone(j))'
  BY <1>1, <1>2, AloneStep
<1>7. (\A j \in calls : Told(j))'
  BY <1>1, <1>2, ToldStep DEF Told
<1>8. Accepts'
  BY <1>1, <1>2, AcceptsStep
<1>9. SavedIsNewest'
  BY <1>1, <1>2, SavedStep
<1>10. (\A g \in GoalIds : GoalHoldsForm(g))'
  BY <1>1, <1>2, GoalStep
<1>11. Assisted' <=> /\ Typing' /\ (page \in Page)' /\ (crossed \subseteq Drafts)' /\ (saved \in Save)'
               /\ (acts \in 0..MaxActs)' /\ (failures \in 0..MaxFailures)'
               /\ FormsOK' /\ Accepts' /\ SavedIsNewest'
               /\ (\A j \in calls : Alone(j))' /\ (\A j \in calls : Told(j))'
               /\ (\A g \in GoalIds : GoalHoldsForm(g))'
  BY AssistedIs, PTL
<1> QED
  BY <1>3, <1>4, <1>5, <1>6, <1>7, <1>8, <1>9, <1>10, <1>11

\* What an answer shows of what was typed before its request.
LEMMA ShowsTyped ==
  ASSUME Assisted, NEW c \in calls, c.at = "done", c.op # "latest", c.draft \notin crossed \cup {0}, c.form = page.form,
         NEW f \in Fields, page.form[f] # ""
  PROVE  applyGoalIntakeDraftToForm(page.form, c.row.form)[f] = page.form[f]
<1>1. Typing /\ FormsOK /\ page \in Page /\ Told(c)
  BY AssistedIs
<1>2. c.form \in FormTexts /\ Shape(c.form) /\ c.row.form \in FormTexts /\ c.op \in {"analyze", "save", "create", "plain"}
  BY <1>1, CallIs DEF Typing, FormsOK, FormsInv
<1>3. Quiet(c.draft) /\ c.op # "plain"
  BY <1>1 DEF Quiet, FormsOK, Stage
<1>4. CASE c.op = "analyze"
  <2>1. c.row.form[f] = c.form[f]
    BY <1>1, <1>4 DEF Told, HoldsForm
  <2> QED
    BY <1>2, <2>1, ApplyKeeps
<1>5. CASE c.op \in {"save", "create"}
  <2>1. Holds(c.row.form, c.form)
    BY <1>1, <1>3, <1>5 DEF Told, HoldsForm, Reads
  <2>2. c.row.form[f] = c.form[f]
    <3>1. c.form[f] # ""
      OBVIOUS
    <3> QED
      BY <1>2, <2>1, <3>1, HoldsKeeps, Zenon
  <2> QED
    BY <1>2, <2>2, ApplyKeeps
<1> QED
  BY <1>2, <1>3, <1>4, <1>5

\* What the three action properties say of one step.
KeepsAccepted == \A d \in Drafts : d \notin crossed' => draft[d].accepted \subseteq draft'[d].accepted
KeepsTyped ==
  \A f \in Fields : page.form[f] # "" /\ page'.form[f] # page.form[f] =>
       \/ acts' # acts
       \/ \E c \in calls \ calls' : c.op = "latest" \/ c.draft \in crossed \/ c.form # page.form
Restores ==
  \A c \in calls : c.op = "latest" /\ c.at = "done" /\ c.live /\ c \notin calls' /\ acts' = acts
                      /\ saved.draft \notin crossed \cup {0} =>
       /\ page'.draft = saved.draft /\ page'.answers = saved.answers /\ page'.accepted = saved.accepted
       /\ \A f \in Fields : page'.form[f] = Restored(f)
       /\ page'.form["end"] \in Dates

\* What is accepted stays accepted.
LEMMA AcceptedStep == Assisted /\ [FormNext]_formVars => KeepsAccepted
<1> SUFFICES ASSUME Assisted, [FormNext]_formVars PROVE KeepsAccepted
  OBVIOUS
<1>1. Typing /\ page \in Page /\ crossed \subseteq Drafts /\ FormsOK /\ Accepts
  BY AssistedIs
<1>2. Stepped
  BY <1>1, StepIs
<1>3. ASSUME Rest \/ SameRows \/ UNCHANGED formVars
      PROVE  KeepsAccepted
  BY <1>3 DEF Rest, SameRows, formVars, KeepsAccepted
<1>4. ASSUME NEW c \in calls, NEW d, NEW k, Analyzed(c, d, k)
      PROVE  KeepsAccepted
  <2>1. draft' = [draft EXCEPT ![d] = k.row] /\ d \in Drafts /\ draft[d].accepted = {}
    BY <1>1, <1>4, NothingTyped DEF Analyzed, FormsOK, Known
  <2> QED
    BY <1>1, <2>1 DEF KeepsAccepted, Typing
<1>5. ASSUME NEW c \in calls, NEW k, Written(c, k)
      PROVE  KeepsAccepted
  <2>1. draft' = [draft EXCEPT ![c.draft] = k.row] /\ c.draft \in Drafts
    BY <1>5 DEF Written
  <2>2. ASSUME c.draft \notin crossed'
        PROVE  draft[c.draft].accepted \subseteq k.row.accepted
    <3>1. Quiet(c.draft)
      BY <1>1, <1>2, <2>1, <2>2, Widens DEF Drafts
    <3> QED
      BY <1>1, <1>5, <3>1 DEF Written, Accepts
  <2> QED
    BY <1>1, <2>1, <2>2 DEF KeepsAccepted, Typing
<1> QED
  BY <1>2, <1>3, <1>4, <1>5 DEF Stepped, Sent, Reloaded, Found, Read, Made, Refuses, Failed, Gone, Ended

\* A step that is not the page's changes what is shown only by an answer.
LEMMA ShownBy ==
  ASSUME Assisted, [FormNext]_formVars
  PROVE  acts' # acts \/ page' = page \/ \E c \in calls : c \notin calls' /\ calls \ {c} \subseteq calls' /\ ((Gone(c) /\ Dropped(c)) \/ Ended(c))
<1>1. Typing /\ page \in Page /\ FormsOK /\ Shape(page.form) /\ acts \in 0..MaxActs
  BY AssistedIs DEF FormsOK, FormsInv
<1>2. CASE UNCHANGED formVars
  BY <1>2 DEF formVars
<1>3. CASE Act
  <2>1. acts' = acts + 1
    BY <1>3, ActCounts
  <2> QED
    BY <1>1, <2>1
<1>4. ASSUME NEW c \in calls, Serve(c) \/ Fails(c)
      PROVE  page' = page
  BY <1>4 DEF Serve, Fails
<1>5. ASSUME NEW c \in calls, Arrives(c)
      PROVE  c \notin calls' /\ calls \ {c} \subseteq calls' /\ ((Gone(c) /\ Dropped(c)) \/ Ended(c))
  <2>1. CASE Dropped(c)
    BY <1>1, <1>5, <2>1, GoneIs DEF Gone
  <2>2. CASE Answered(c)
    <3>1. Ended(c)
      BY <1>1, <1>5, <2>2, EndedIs
    <3> QED
      BY <3>1 DEF Ended
  <2> QED
    BY <1>5, <2>1, <2>2 DEF Arrives
<1> QED
  BY <1>2, <1>3, <1>4, <1>5 DEF FormNext

\* What is typed stays.
LEMMA TypedStep == Assisted /\ [FormNext]_formVars => KeepsTyped
<1> SUFFICES ASSUME Assisted, [FormNext]_formVars,
                    NEW f \in Fields, page.form[f] # "", page'.form[f] # page.form[f], acts' = acts
             PROVE  \E c \in calls \ calls' : c.op = "latest" \/ c.draft \in crossed \/ c.form # page.form
  BY DEF KeepsTyped
<1>1. PICK c \in calls : c \notin calls' /\ (Gone(c) \/ Ended(c))
  BY ShownBy
<1>2. Ended(c) /\ c.draft # 0 /\ page'.form = applyGoalIntakeDraftToForm(page.form, c.row.form) /\ c.at = "done"
  BY <1>1 DEF Gone, Ended
<1>3. SUFFICES ASSUME c.op # "latest", c.draft \notin crossed, c.form = page.form
               PROVE  FALSE
  BY <1>1
<1> QED
  BY <1>2, <1>3, ShowsTyped

\* What a page that showed one form shows of a row that holds another.
Shows(new, shown, form, row) ==
  /\ \A f \in Fields : form[f] # "" => new[f] = form[f]
  /\ form["budget"] = "" => new["budget"] = "0"
  /\ form["note"] = "" => new["note"] = ""
  /\ form["title"] = "" => new["title"] = shown["title"]
  /\ new["end"] = row["end"] /\ row["end"] \in Dates

\* It is what the answer's draft makes of the form.
LEMMA ShownOfHolds ==
  ASSUME NEW form \in FormTexts, Shape(form), NEW row \in FormTexts, RowShape(row), Holds(row, form), NEW shown
  PROVE  Shows(applyGoalIntakeDraftToForm(shown, row), shown, form, row)
<1> DEFINE new == applyGoalIntakeDraftToForm(shown, row)
<1>1. ASSUME NEW f \in Fields, form[f] # ""
      PROVE  new[f] = form[f]
  <2>1. row[f] = form[f]
    BY <1>1, HoldsKeeps
  <2>2. \A other : applyGoalIntakeDraftToForm(other, row)[f] = form[f]
    BY <1>1, <2>1, ApplyKeeps, Zenon
  <2> QED
    BY <2>2
<1>2. /\ row["title"] = form["title"] /\ row["note"] = form["note"]
      /\ row["budget"] = IF form["budget"] = "" THEN "0" ELSE form["budget"]
  BY HoldsIs
<1>3. /\ new["title"] = IF row["title"] = "" THEN shown["title"] ELSE row["title"]
      /\ new["budget"] = IF row["budget"] = "null" THEN shown["budget"] ELSE row["budget"]
      /\ new["note"] = IF row["note"] = "null" THEN shown["note"] ELSE row["note"]
      /\ new["end"] = IF row["end"] = "" THEN shown["end"] ELSE row["end"]
  BY AppliedIs
<1>4. row["end"] \in Dates /\ row["end"] # ""
  BY DEF RowShape, Dates
<1> HIDE DEF new
<1>5. Shows(new, shown, form, row)
  BY <1>1, <1>2, <1>3, <1>4 DEF Shows
<1> QED
  BY <1>5 DEF new

\* What is restored is what was saved last.
LEMMA RestoredStep == Assisted /\ [FormNext]_formVars => Restores \/ page' = page
<1> SUFFICES ASSUME Assisted, [FormNext]_formVars, page' # page, NEW c \in calls, c.op = "latest", c.at = "done", c.live,
                    c \notin calls', acts' = acts, saved.draft \notin crossed \cup {0}
             PROVE  /\ page'.draft = saved.draft /\ page'.answers = saved.answers /\ page'.accepted = saved.accepted
                    /\ \A f \in Fields : page'.form[f] = Restored(f)
                    /\ page'.form["end"] \in Dates
  BY DEF Restores
<1>1. Typing /\ FormsOK /\ saved \in Save /\ SavedIsNewest /\ Told(c)
  BY AssistedIs
<1>2. PICK k \in calls : k \notin calls' /\ calls \ {k} \subseteq calls' /\ ((Gone(k) /\ Dropped(k)) \/ Ended(k))
  BY ShownBy
<1>3. k = c /\ Ended(c)
  BY <1>2 DEF Dropped
<1>4. /\ c.draft = newest /\ newest = saved.draft /\ draft[newest].answers = saved.answers
      /\ draft[newest].accepted = saved.accepted /\ Holds(draft[newest].form, saved.form)
  BY <1>1 DEF SavedIsNewest, Quiet
<1>5. c.row = draft[c.draft] /\ c.draft # 0
  BY <1>1, <1>4 DEF Told, Reads, Quiet
<1>6. /\ page'.form = applyGoalIntakeDraftToForm(page.form, c.row.form)
      /\ page'.draft = c.draft /\ page'.accepted = c.row.accepted /\ page'.answers = c.row.answers
  BY <1>3, <1>5 DEF Ended
<1>7. saved.form \in FormTexts /\ Shape(saved.form) /\ c.row.form \in FormTexts /\ RowShape(c.row.form)
  BY <1>1, <1>4, <1>5, CallIs DEF Save, FormsOK, FormsInv, Typing, Told, Stage
<1>8. Holds(c.row.form, saved.form) /\ c.row.form = draft[saved.draft].form
  BY <1>4, <1>5
<1>9. Shows(page'.form, page.form, saved.form, draft[saved.draft].form)
  BY <1>6, <1>7, <1>8, ShownOfHolds
<1>10. ASSUME NEW f \in Fields
       PROVE  page'.form[f] = Restored(f)
  BY <1>9 DEF Shows, Restored, Fields
<1>11. page'.form["end"] \in Dates
  BY <1>9 DEF Shows
<1> QED
  BY <1>4, <1>5, <1>6, <1>10, <1>11

\* The invariant holds in every state.
THEOREM AssistedHolds == FormSpec => []Assisted
BY AssistedInit, AssistedNext, PTL DEF FormSpec

\* A goal holds what its form showed (goals.service.ts, App.tsx): for any number of drafts, goals,
\* requests under way, failures and reloads, unless two requests crossed on its draft.
THEOREM GoalIsFormHolds == FormSpec => []GoalIsForm
<1>1. Assisted => GoalIsForm
  BY DEF Assisted, AssistantInv, GoalHoldsForm, GoalIsForm
<1> QED
  BY <1>1, AssistedHolds, PTL

\* Neither what was accepted nor what was typed is lost to an answer, whatever is late or lost, in
\* a draft that two requests were never on at once.
THEOREM WorkKeptHolds == FormSpec => WorkKept
<1>1. Assisted /\ [FormNext]_formVars => [KeepsAccepted]_draft
  BY AcceptedStep
<1>2. Assisted /\ [FormNext]_formVars => [KeepsTyped]_page
  BY TypedStep
<1> QED
  BY <1>1, <1>2, AssistedHolds, PTL DEF FormSpec, WorkKept, AcceptedKept, TypedKept, KeepsAccepted, KeepsTyped

\* A draft restored is the one that was saved last, with what Restored makes of its form, for any
\* number of saves and reloads: of a save answered with no other save or creation under way, in a
\* draft that two requests were never on at once.
THEOREM RestoredIsSavedHolds == FormSpec => RestoredIsSaved
<1>1. Assisted /\ [FormNext]_formVars => [Restores]_page
  BY RestoredStep
<1> QED
  BY <1>1, AssistedHolds, PTL DEF FormSpec, RestoredIsSaved, Restores
=============================================================================
