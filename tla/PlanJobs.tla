------------------------------ MODULE PlanJobs ------------------------------
(***************************************************************************)
(* The plan of a goal and the AI jobs that write it                        *)
(* (ai-jobs/ai-jobs.service.ts) for the goals of one user.                 *)
(*                                                                         *)
(* A request creates a job QUEUED inside the quota transaction, hands it   *)
(* to BullMQ and then runs it itself; a worker that takes it from the      *)
(* queue runs it too.  Both are runners of the job: <<j, "api">> and       *)
(* <<j, "worker">>.  Cancellation, confirmation, settlement and the        *)
(* administrator's retry are requests that read, then write.  The service  *)
(* takes no lock: whatever is read may have changed when it is used.       *)
(*                                                                         *)
(* Left out: the contents of plans and tasks, the version number, the      *)
(* attempts column and the payload, which no guard of this module reads    *)
(* but for previousStatus; failure reports, which settlement hands to      *)
(* another component; deletion of a goal.  AT_RISK is a status no code     *)
(* ever writes.                                                            *)
(***************************************************************************)
EXTENDS Integers, FiniteSets

CONSTANTS
  Goals,
  Jobs,         \* ids of the jobs that can be requested; a request is its job
  Kind,         \* [Jobs -> {"generate", "replan"}]
  GoalOf,       \* [Jobs -> Goals]
  Cancels, Confirms, Settles, Admins,  \* requests that can be open at once
  MaxOpen,      \* bound: requests of the user open at the same time
  MaxAttempts,  \* MAX_AI_JOB_ATTEMPTS
  QueueEnabled, \* BULLMQ_ENABLED
  MaxFaults,    \* bound: processes that die, queues that are lost
  MaxRetries,   \* bound: administrator's retries
  Tiers, Limit, NoLimit, MaxPeriod     \* of the quota, see Quota

ASSUME PlanJobsAssumption ==
  /\ IsFiniteSet(Jobs) /\ IsFiniteSet(Goals)
  /\ IsFiniteSet(Cancels) /\ IsFiniteSet(Confirms) /\ IsFiniteSet(Settles)
  /\ Kind \in [Jobs -> {"generate", "replan"}]
  /\ GoalOf \in [Jobs -> Goals]
  /\ Jobs \cap Cancels = {}
  /\ MaxPeriod \in Nat
  /\ NoLimit \notin Nat
  /\ Limit \in [Tiers -> [{"PLAN_GENERATION", "GOAL_REPLAN", "ACTIVE_GOAL"}
                            -> Nat \cup {NoLimit}]]
  /\ MaxOpen \in Nat /\ MaxFaults \in Nat /\ MaxRetries \in Nat
  /\ MaxAttempts \in Nat \ {0}
  /\ QueueEnabled \in BOOLEAN

VARIABLES
  goal,     \* [Goals -> GoalStatus]
  plan,     \* [Goals -> [id : Nat, active : BOOLEAN]]; id 0: no row
  job,      \* [Jobs -> JobStatus]; "NONE": no row
  prev,     \* [Jobs -> GoalStatus]: the goal's status its request read
  run,      \* [Runners -> [at : RunStep, tries : Nat]]
  queue,    \* [Jobs -> QueueState]: the BullMQ entry of a job
  cancel,   \* [Cancels -> CancelType]
  confirm,  \* [Confirms -> ConfirmType]
  settle,   \* [Settles -> SettleType]
  admin,    \* [Admins -> AdminType]
  faults, retries,                    \* how much of the bounds is spent
  tier, period, bucket, record, tx, doubled  \* the ledger

service == <<goal, plan, job, prev, run, queue, cancel, confirm, settle, admin>>
ledger == <<tier, period, bucket, record, tx, doubled>>
vars == <<service, faults, retries, ledger>>

Callers == Jobs \cup Cancels
Metered == {"PLAN_GENERATION", "GOAL_REPLAN"}
PlanCapability == [j \in Jobs |->
  IF Kind[j] = "replan" THEN "GOAL_REPLAN" ELSE "PLAN_GENERATION"]

Ledger == INSTANCE Quota WITH
  Capabilities <- Metered \cup {"ACTIVE_GOAL"},
  Renewing <- Metered,
  Resources <- Jobs,
  Capability <- PlanCapability,
  Qty <- [j \in Jobs |-> 1],
  Consumes <- [c \in Callers |-> IF c \in Jobs THEN {c} ELSE {}],
  Releases <- [c \in Callers |-> IF c \in Cancels THEN Jobs ELSE {}]
-----------------------------------------------------------------------------
GoalStatus == {"DRAFT", "GENERATING_PLAN", "GENERATION_FAILED",
  "WAITING_CONFIRMATION", "ACTIVE", "REPLANNING", "COMPLETED", "FAILED"}
\* Mutant of Plannable: a failed goal may be planned again.
PlannableAgain == {"DRAFT", "GENERATION_FAILED", "WAITING_CONFIRMATION", "FAILED"}
Plannable == {"DRAFT", "GENERATION_FAILED", "WAITING_CONFIRMATION"}
Executing == {"ACTIVE", "REPLANNING"}   \* with AT_RISK, never written
Closed == {"COMPLETED", "FAILED"}

JobStatus == {"NONE", "QUEUED", "RUNNING", "RETRYING", "SUCCEEDED", "FAILED", "CANCELLED"}
Unfinished == {"QUEUED", "RUNNING", "RETRYING"}
Ended == {"SUCCEEDED", "FAILED", "CANCELLED"}

Runners == Jobs \X {"api", "worker"}
Working == {"mark", "try", "call", "save", "won", "lost", "lostJob"}
RunStep == {"idle", "submit", "enqueue", "done"} \cup Working
QueueState == {"absent", "waiting", "active", "done"}

CancelType == [at : {"idle"}] \cup [at : {"checked", "open"}, job : Jobs]
ConfirmType == [at : {"idle"}] \cup
  [at : {"reviewed", "counted"}, goal : Goals, id : Nat]
SettleType == [at : {"idle"}] \cup [at : {"read"}, goal : Goals, seen : GoalStatus]
AdminType == [at : {"idle"}] \cup [at : {"queued"}, job : Jobs]
Idle == [at |-> "idle"]

TypeOK ==
  /\ goal \in [Goals -> GoalStatus]
  /\ plan \in [Goals -> [id : Nat, active : BOOLEAN]]
  /\ job \in [Jobs -> JobStatus]
  /\ prev \in [Jobs -> GoalStatus]
  /\ run \in [Runners -> [at : RunStep, tries : 0..MaxAttempts]]
  /\ queue \in [Jobs -> QueueState]
  /\ cancel \in [Cancels -> CancelType]
  /\ confirm \in [Confirms -> ConfirmType]
  /\ settle \in [Settles -> SettleType]
  /\ admin \in [Admins -> AdminType]
  /\ faults \in 0..MaxFaults
  /\ retries \in 0..MaxRetries
  /\ Ledger!QuotaTypeOK

\* Goals start as drafts, or already executing a plan confirmed earlier.
Init ==
  /\ goal \in [Goals -> {"DRAFT", "ACTIVE"}]
  /\ \A t \in Tiers : Limit[t]["ACTIVE_GOAL"] # NoLimit =>
       Cardinality({g \in Goals : goal[g] = "ACTIVE"}) <= Limit[t]["ACTIVE_GOAL"]
  /\ plan = [g \in Goals |-> IF goal[g] = "ACTIVE" THEN [id |-> 1, active |-> TRUE]
                             ELSE [id |-> 0, active |-> FALSE]]
  /\ job = [j \in Jobs |-> "NONE"]
  /\ prev = [j \in Jobs |-> "DRAFT"]
  /\ run = [r \in Runners |-> [at |-> "idle", tries |-> 0]]
  /\ queue = [j \in Jobs |-> "absent"]
  /\ cancel = [c \in Cancels |-> Idle]
  /\ confirm = [c \in Confirms |-> Idle]
  /\ settle = [s \in Settles |-> Idle]
  /\ admin = [a \in Admins |-> Idle]
  /\ faults = 0
  /\ retries = 0
  /\ Ledger!QuotaInit

\* The user's requests that are open; a new one may come if there is room.
OpenRequests ==
  {j \in Jobs : run[<<j, "api">>].at \notin {"idle", "done"}} \cup
  {c \in Cancels : cancel[c] # Idle} \cup
  {c \in Confirms : confirm[c] # Idle} \cup
  {s \in Settles : settle[s] # Idle}
CanOpen == Cardinality(OpenRequests) < MaxOpen

Step(r, to) == run' = [run EXCEPT ![r] = [at |-> to, tries |-> @.tries]]
-----------------------------------------------------------------------------
(* generateGoalPlan and requestGoalReplan, up to the run of the job.        *)

\* Where a goal must stand: requestGoalReplan plans one that is executed anew.
Requestable(j) == IF Kind[j] = "replan" THEN Executing ELSE Plannable

\* The goal is read and its status checked; the quota transaction opens.
Request(j) ==
  /\ run[<<j, "api">>].at = "idle"
  /\ CanOpen
  /\ goal[GoalOf[j]] \in Requestable(j)
  /\ prev' = [prev EXCEPT ![j] = goal[GoalOf[j]]]
  /\ Step(<<j, "api">>, "submit")
  /\ Ledger!BeginConsume(j, j)
  /\ UNCHANGED <<goal, plan, job, queue, cancel, confirm, settle, admin, faults, retries>>

\* Mutant of Submit: the usage record is forgotten.
SubmitUnrecorded(j) ==
  /\ run[<<j, "api">>].at = "submit"
  /\ bucket' = [bucket EXCEPT ![<<PlanCapability[j], tx[j].period>>] = @ + 1]
  /\ tx' = [tx EXCEPT ![j] = Ledger!NoTx]
  /\ job' = [job EXCEPT ![j] = "QUEUED"]
  /\ Step(<<j, "api">>, "enqueue")
  /\ UNCHANGED <<goal, plan, prev, queue, cancel, confirm, settle, admin, faults, retries,
                 record, tier, period, doubled>>

\* The transaction of a replan writes the goal with the job.
SubmittedGoal(j) ==
  IF Kind[j] = "replan" THEN [goal EXCEPT ![GoalOf[j]] = "REPLANNING"] ELSE goal

\* The transaction commits: the charge, the job and, for a replan, the goal.
Submit(j) ==
  /\ run[<<j, "api">>].at = "submit"
  /\ Ledger!CommitConsume(j)
  /\ job' = [job EXCEPT ![j] = "QUEUED"]
  /\ goal' = SubmittedGoal(j)
  /\ Step(<<j, "api">>, "enqueue")
  /\ UNCHANGED <<plan, prev, queue, cancel, confirm, settle, admin, faults, retries>>

\* No quota is left: 429, nothing was written.
Refuse(j) ==
  /\ run[<<j, "api">>].at = "submit"
  /\ Ledger!AbandonConsume(j)
  /\ Step(<<j, "api">>, "done")
  /\ UNCHANGED <<goal, plan, job, prev, queue, cancel, confirm, settle, admin, faults, retries>>

\* QueueService.enqueue: the entry's id is the job's; one that waits or is
\* being processed is kept, a finished one is removed and added again.
Enqueued(j) ==
  [queue EXCEPT ![j] = IF QueueEnabled /\ @ \in {"absent", "done"} THEN "waiting" ELSE @]

\* attachQueueMetadata: an error of Redis is caught and the request goes on.
Enqueue(j) ==
  /\ run[<<j, "api">>].at = "enqueue"
  /\ queue' \in {queue, Enqueued(j)}
  /\ Step(<<j, "api">>, IF Kind[j] = "replan" THEN "try" ELSE "mark")
  /\ UNCHANGED <<goal, plan, job, prev, cancel, confirm, settle, admin, faults, retries, ledger>>

\* processQueuedAiJob reads the row: only a QUEUED job is run.
WorkerTake(j) ==
  /\ queue[j] = "waiting"
  /\ run[<<j, "worker">>].at = "idle"
  /\ IF job[j] = "QUEUED"
     THEN queue' = [queue EXCEPT ![j] = "active"] /\ Step(<<j, "worker">>, "mark")
     ELSE queue' = [queue EXCEPT ![j] = "done"] /\ UNCHANGED run
  /\ UNCHANGED <<goal, plan, job, prev, cancel, confirm, settle, admin, faults, retries, ledger>>
-----------------------------------------------------------------------------
(* The run of a job, the same code for the request and for the worker.      *)

OnlyRun == UNCHANGED <<prev, cancel, confirm, settle, admin, faults, retries, ledger>>

\* The runner is through with its job; BullMQ completes the worker's entry.
Finish(r) ==
  /\ run' = [run EXCEPT ![r] = [at |-> IF r[2] = "api" THEN "done" ELSE "idle", tries |-> 0]]
  /\ queue' = IF r[2] = "worker" THEN [queue EXCEPT ![r[1]] = "done"] ELSE queue

MarkGoal(r) ==
  /\ run[r].at = "mark"
  /\ goal' = [goal EXCEPT ![GoalOf[r[1]]] =
       IF Kind[r[1]] = "replan" THEN "REPLANNING" ELSE "GENERATING_PLAN"]
  /\ Step(r, "try")
  /\ UNCHANGED <<plan, job, queue>> /\ OnlyRun

\* generatePlanWithRetry: the job's row before each call of the provider.
StartAttempt(r) ==
  /\ run[r].at = "try"
  /\ job' = [job EXCEPT ![r[1]] = IF run[r].tries = 0 THEN "RUNNING" ELSE "RETRYING"]
  /\ run' = [run EXCEPT ![r] = [at |-> "call", tries |-> @.tries + 1]]
  /\ UNCHANGED <<goal, plan, queue>> /\ OnlyRun

AiAnswers(r) ==
  /\ run[r].at = "call"
  /\ Step(r, "save")
  /\ UNCHANGED <<goal, plan, job, queue>> /\ OnlyRun

AiFails(r) ==
  /\ run[r].at = "call"
  /\ IF run[r].tries < MaxAttempts
     THEN job' = [job EXCEPT ![r[1]] = "RETRYING"] /\ Step(r, "try")
     ELSE UNCHANGED job /\ Step(r, "lost")
  /\ UNCHANGED <<goal, plan, queue>> /\ OnlyRun

\* persistGeneratedPlan, one transaction: the plan row is replaced by a new,
\* inactive one and the goal waits for confirmation.
SavePlan(r) ==
  LET g == GoalOf[r[1]] IN
  /\ run[r].at = "save"
  /\ plan' = [plan EXCEPT ![g] = [id |-> @.id + 1, active |-> FALSE]]
  /\ goal' = [goal EXCEPT ![g] = "WAITING_CONFIRMATION"]
  /\ Step(r, "won")
  /\ UNCHANGED <<job, queue>> /\ OnlyRun

\* A statement inside the try block fails (a deadlock of two persists, a
\* timeout), the last one, after the plan is saved, included: caught.
WriteFails(r) ==
  /\ run[r].at \in {"mark", "try", "save", "won"}
  /\ Step(r, "lost")
  /\ UNCHANGED <<goal, plan, job, queue>> /\ OnlyRun

Succeed(r) ==
  /\ run[r].at = "won"
  /\ job' = [job EXCEPT ![r[1]] = "SUCCEEDED"]
  /\ Finish(r)
  /\ UNCHANGED <<goal, plan>> /\ OnlyRun

\* Mutant of FailGoal: the goal is left as the run marked it.
FailGoalForgotten(r) ==
  /\ run[r].at = "lost"
  /\ Step(r, "lostJob")
  /\ UNCHANGED <<goal, plan, job, queue>> /\ OnlyRun

FailGoal(r) ==
  /\ run[r].at = "lost"
  /\ goal' = [goal EXCEPT ![GoalOf[r[1]]] = "GENERATION_FAILED"]
  /\ Step(r, "lostJob")
  /\ UNCHANGED <<plan, job, queue>> /\ OnlyRun

FailJob(r) ==
  /\ run[r].at = "lostJob"
  /\ job' = [job EXCEPT ![r[1]] = "FAILED"]
  /\ Finish(r)
  /\ UNCHANGED <<goal, plan>> /\ OnlyRun

RunStepOf(r) ==
  \/ MarkGoal(r) \/ StartAttempt(r) \/ AiAnswers(r) \/ AiFails(r)
  \/ SavePlan(r) \/ WriteFails(r) \/ Succeed(r) \/ FailGoal(r) \/ FailJob(r)
-----------------------------------------------------------------------------
(* cancelJob.                                                               *)

\* Mutant of Restored: every cancelled job returns its goal to execution.
RestoredActive(j) == "ACTIVE"

\* getCancelledJobGoalStatus: payload.previousStatus of a replan.
Restored(j) == IF Kind[j] = "replan" THEN prev[j] ELSE "DRAFT"

\* The row is read; only a QUEUED job goes on.
CancelRead(c, j) ==
  /\ cancel[c] = Idle
  /\ CanOpen
  /\ job[j] = "QUEUED"
  /\ cancel' = [cancel EXCEPT ![c] = [at |-> "checked", job |-> j]]
  /\ UNCHANGED <<goal, plan, job, prev, run, queue, confirm, settle, admin,
                 faults, retries, ledger>>

\* Its transaction opens: the usage record is read from this snapshot.
CancelOpen(c) ==
  /\ cancel[c].at = "checked"
  /\ Ledger!BeginRelease(c, cancel[c].job)
  /\ cancel' = [cancel EXCEPT ![c] = [at |-> "open", job |-> @.job]]
  /\ UNCHANGED <<goal, plan, job, prev, run, queue, confirm, settle, admin, faults, retries>>

\* Mutant of CancelCommit: the quota is not released.
CancelWithoutRefund(c) ==
  /\ cancel[c].at = "open"
  /\ Ledger!Rollback(c)
  /\ goal' = [goal EXCEPT ![GoalOf[cancel[c].job]] = Restored(cancel[c].job)]
  /\ job' = [job EXCEPT ![cancel[c].job] = "CANCELLED"]
  /\ cancel' = [cancel EXCEPT ![c] = Idle]
  /\ UNCHANGED <<plan, prev, run, queue, confirm, settle, admin, faults, retries>>

\* It commits: the goal, the quota and the job, none of them read again.
CancelCommit(c) ==
  /\ cancel[c].at = "open"
  /\ Ledger!CommitRelease(c)
  /\ goal' = [goal EXCEPT ![GoalOf[cancel[c].job]] = Restored(cancel[c].job)]
  /\ job' = [job EXCEPT ![cancel[c].job] = "CANCELLED"]
  /\ cancel' = [cancel EXCEPT ![c] = Idle]
  /\ UNCHANGED <<plan, prev, run, queue, confirm, settle, admin, faults, retries>>
-----------------------------------------------------------------------------
(* confirmGoalPlan.                                                         *)

OnlyConfirm == UNCHANGED <<job, prev, run, queue, cancel, settle, admin,
                           faults, retries, ledger>>

\* The plan and its goal are read and the goal's status is checked.
ConfirmRead(c, g) ==
  /\ confirm[c] = Idle
  /\ CanOpen
  /\ plan[g].id # 0
  /\ goal[g] = "WAITING_CONFIRMATION"
  /\ confirm' = [confirm EXCEPT ![c] = [at |-> "reviewed", goal |-> g, id |-> plan[g].id]]
  /\ UNCHANGED <<goal, plan>> /\ OnlyConfirm

InProgress == {g \in Goals : goal[g] \in Executing}
GoalLimit == Limit[tier]["ACTIVE_GOAL"]

\* assertActiveGoalLimit counts the user's other goals in progress.
ConfirmCount(c) ==
  /\ confirm[c].at = "reviewed"
  /\ confirm' = [confirm EXCEPT ![c] =
       IF GoalLimit = NoLimit \/ Cardinality(InProgress \ {confirm[c].goal}) < GoalLimit
       THEN [at |-> "counted", goal |-> @.goal, id |-> @.id] ELSE Idle]
  /\ UNCHANGED <<goal, plan>> /\ OnlyConfirm

\* Mutants of ConfirmCommit: the plan is found by its goal, not by the id that
\* was read; the goal becomes active and the plan row is forgotten.
ConfirmAnyPlan(c) ==
  LET g == confirm[c].goal IN
  /\ confirm[c].at = "counted"
  /\ goal' = [goal EXCEPT ![g] = "ACTIVE"]
  /\ plan' = [plan EXCEPT ![g] = [id |-> @.id, active |-> TRUE]]
  /\ confirm' = [confirm EXCEPT ![c] = Idle]
  /\ OnlyConfirm

ConfirmGoalOnly(c) ==
  /\ confirm[c].at = "counted"
  /\ goal' = [goal EXCEPT ![confirm[c].goal] = "ACTIVE"]
  /\ confirm' = [confirm EXCEPT ![c] = Idle]
  /\ UNCHANGED plan /\ OnlyConfirm

\* The goal and the plan row of that id; without the row it is rolled back.
ConfirmCommit(c) ==
  LET g == confirm[c].goal IN
  /\ confirm[c].at = "counted"
  /\ IF plan[g].id = confirm[c].id
     THEN /\ goal' = [goal EXCEPT ![g] = "ACTIVE"]
          /\ plan' = [plan EXCEPT ![g] = [id |-> @.id, active |-> TRUE]]
     ELSE UNCHANGED <<goal, plan>>
  /\ confirm' = [confirm EXCEPT ![c] = Idle]
  /\ OnlyConfirm
-----------------------------------------------------------------------------
(* GoalsService.settleGoal, as far as the goal's row goes.                  *)

OnlySettle == UNCHANGED <<plan, job, prev, run, queue, cancel, confirm, admin,
                          faults, retries, ledger>>

SettleRead(s, g) ==
  /\ settle[s] = Idle
  /\ CanOpen
  /\ settle' = [settle EXCEPT ![s] = [at |-> "read", goal |-> g, seen |-> goal[g]]]
  /\ UNCHANGED goal /\ OnlySettle

\* The new status follows from the one read and from the dates of the tasks;
\* it is written even when settlement leaves it as it was read.
SettleWrite(s) ==
  /\ settle[s].at = "read"
  /\ \E next \in {settle[s].seen} \cup (IF settle[s].seen \in Executing THEN Closed ELSE {}) :
       goal' = [goal EXCEPT ![settle[s].goal] = next]
  /\ settle' = [settle EXCEPT ![s] = Idle]
  /\ OnlySettle
-----------------------------------------------------------------------------
(* AdminService.retryAiJob, QueueReconciliationService.reconcile, faults.   *)

\* A FAILED job is read and handed to the queue ...
AdminEnqueue(a, j) ==
  /\ admin[a] = Idle
  /\ retries < MaxRetries
  /\ job[j] = "FAILED"
  /\ retries' = retries + 1
  /\ queue' \in {queue, Enqueued(j)}
  /\ admin' = [admin EXCEPT ![a] = [at |-> "queued", job |-> j]]
  /\ UNCHANGED <<goal, plan, job, prev, run, cancel, confirm, settle, faults, ledger>>

\* ... and only then marked QUEUED.
AdminRequeue(a) ==
  /\ admin[a].at = "queued"
  /\ job' = [job EXCEPT ![admin[a].job] = "QUEUED"]
  /\ admin' = [admin EXCEPT ![a] = Idle]
  /\ UNCHANGED <<goal, plan, prev, run, queue, cancel, confirm, settle,
                 faults, retries, ledger>>

\* Mutant of Reconcile: an entry that is through is taken for one that waits.
ReconcileMissing(j) ==
  /\ job[j] = "QUEUED"
  /\ queue[j] = "absent"
  /\ queue' = Enqueued(j)
  /\ UNCHANGED <<goal, plan, job, prev, run, cancel, confirm, settle, admin,
                 faults, retries, ledger>>

\* A persisted QUEUED job without a live entry is enqueued again.
Reconcile(j) ==
  /\ job[j] = "QUEUED"
  /\ Enqueued(j) # queue
  /\ queue' = Enqueued(j)
  /\ UNCHANGED <<goal, plan, job, prev, run, cancel, confirm, settle, admin,
                 faults, retries, ledger>>

\* The server dies in a request, or a statement outside of the try block fails:
\* an open transaction is rolled back, the rest stays.
ApiDies(j) ==
  /\ run[<<j, "api">>].at \notin {"idle", "done"}
  /\ faults < MaxFaults
  /\ faults' = faults + 1
  /\ run' = [run EXCEPT ![<<j, "api">>] = [at |-> "done", tries |-> 0]]
  /\ IF run[<<j, "api">>].at = "submit" THEN Ledger!Rollback(j) ELSE UNCHANGED ledger
  /\ UNCHANGED <<goal, plan, job, prev, queue, cancel, confirm, settle, admin, retries>>

\* The worker dies: BullMQ finds the entry stalled, and makes it wait again or,
\* when it stalled before, fails it (an entry that is through: "done").
WorkerDies(j) ==
  /\ run[<<j, "worker">>].at # "idle"
  /\ faults < MaxFaults
  /\ faults' = faults + 1
  /\ run' = [run EXCEPT ![<<j, "worker">>] = [at |-> "idle", tries |-> 0]]
  /\ \E q \in {"waiting", "done"} : queue' = [queue EXCEPT ![j] = q]
  /\ UNCHANGED <<goal, plan, job, prev, cancel, confirm, settle, admin, retries, ledger>>

\* Redis loses the entry of a job that waits.
QueueLoses(j) ==
  /\ queue[j] = "waiting"
  /\ faults < MaxFaults
  /\ faults' = faults + 1
  /\ queue' = [queue EXCEPT ![j] = "absent"]
  /\ UNCHANGED <<goal, plan, job, prev, run, cancel, confirm, settle, admin, retries, ledger>>

Clock ==
  /\ \E p \in Metered : Ledger!NextPeriod(p)
  /\ UNCHANGED <<service, faults, retries>>

Next ==
  \/ \E j \in Jobs : \/ Request(j) \/ Submit(j) \/ Refuse(j) \/ Enqueue(j)
                     \/ WorkerTake(j) \/ Reconcile(j)
                     \/ ApiDies(j) \/ WorkerDies(j) \/ QueueLoses(j)
  \/ \E r \in Runners : RunStepOf(r)
  \/ \E c \in Cancels : (\E j \in Jobs : CancelRead(c, j)) \/ CancelOpen(c) \/ CancelCommit(c)
  \/ \E c \in Confirms : (\E g \in Goals : ConfirmRead(c, g)) \/ ConfirmCount(c)
                                                            \/ ConfirmCommit(c)
  \/ \E s \in Settles : (\E g \in Goals : SettleRead(s, g)) \/ SettleWrite(s)
  \/ \E a \in Admins : (\E j \in Jobs : AdminEnqueue(a, j)) \/ AdminRequeue(a)
  \/ Clock

Spec == Init /\ [][Next]_vars

\* A process that is alive runs on, a provider answers or fails, workers take
\* what waits and reconciliation, when the queue is on, comes round again.
Fairness ==
  /\ \A j \in Jobs :
       /\ WF_vars(Submit(j) \/ Refuse(j) \/ Enqueue(j))
       /\ WF_vars(WorkerTake(j))
       /\ WF_vars(Reconcile(j))
  /\ \A r \in Runners : WF_vars(RunStepOf(r))
  /\ \A c \in Cancels : WF_vars(CancelOpen(c) \/ CancelCommit(c))
  /\ \A a \in Admins : WF_vars(AdminRequeue(a))

FairSpec == Spec /\ Fairness
-----------------------------------------------------------------------------
(* Under every interleaving, with faults.                                   *)

(***************************************************************************)
(* A goal that waits for confirmation, executes a plan or is settled has a *)
(* plan row: no order of generation, cancellation, retry and settlement    *)
(* leaves the user before a plan that is not there.                        *)
(***************************************************************************)
PlanBehindStatus ==
  \A g \in Goals : goal[g] \in {"WAITING_CONFIRMATION"} \cup Executing \cup Closed =>
                     plan[g].id # 0

(***************************************************************************)
(* What cancelJob cancels has its quota back: the usage record of a        *)
(* CANCELLED job is released (SPEC.md:670).                                *)
(***************************************************************************)
CancelRefunds == \A j \in Jobs : job[j] = "CANCELLED" => record[j].st = "released"

(***************************************************************************)
(* The counter of a quota bucket never exceeds what is held in it, however *)
(* the cancellations of one job overlap.                                   *)
(***************************************************************************)
NeverOvercharged == Ledger!NeverOvercharged

(***************************************************************************)
(* No job without its charge: a job that has a row has a usage record, and *)
(* the counters say what the records hold, whatever runs, dies, is tried   *)
(* again or cancelled at the same time, but for a bucket to which two      *)
(* cancellations of one job returned it twice (ai-jobs.service.ts:497).    *)
(***************************************************************************)
JobsAreCharged ==
  /\ \A j \in Jobs : job[j] # "NONE" => record[j].st # "none"
  /\ Ledger!LedgerExact

(***************************************************************************)
(* A plan becomes active only by the confirmation of a request that read   *)
(* this very row: a plan regenerated in between is never activated unseen. *)
(***************************************************************************)
ConfirmActivatesReviewed ==
  [][\A g \in Goals : plan'[g].active /\ ~plan[g].active =>
       \E c \in Confirms : /\ confirm[c].at = "counted"
                           /\ confirm[c].goal = g
                           /\ confirm[c].id = plan'[g].id]_vars

(***************************************************************************)
(* With the queue and its reconciliation on, a persisted QUEUED job is     *)
(* taken up or cancelled, whatever requests, workers and queue entries die *)
(* (docs/operations/observability-and-recovery.md:21).                     *)
(***************************************************************************)
QueuedJobIsTaken == \A j \in Jobs : job[j] = "QUEUED" ~> job[j] # "QUEUED"

(***************************************************************************)
(* Until a process dies, a job that was created ends: generatePlanWith-    *)
(* Retry gives up after MaxAttempts and its callers close the job.         *)
(***************************************************************************)
JobEnds ==
  \A j \in Jobs : job[j] \in Unfinished ~> (job[j] \in Ended \/ faults > 0)

(***************************************************************************)
(* Until a process dies, and while nothing is settled, a goal leaves       *)
(* GENERATING_PLAN, a status from which no request of the user leads out.  *)
(***************************************************************************)
GoalLeavesGenerating ==
  \A g \in Goals :
    goal[g] = "GENERATING_PLAN" ~> (goal[g] # "GENERATING_PLAN" \/ faults > 0)

(***************************************************************************)
(* The three together: work that was asked for goes on to its end.         *)
(***************************************************************************)
JobsGoOn == QueuedJobIsTaken /\ JobEnds /\ GoalLeavesGenerating
-----------------------------------------------------------------------------
(* What the documents say and what holds while requests do not overlap.     *)

(***************************************************************************)
(* A user has no more goals in progress than the plan allows (SPEC.md:666, *)
(* "verified by the backend when a plan is confirmed").                    *)
(***************************************************************************)
ActiveGoalLimit == GoalLimit # NoLimit => Cardinality(InProgress) <= GoalLimit

(***************************************************************************)
(* A goal executes only a plan its user confirmed (SPEC.md 5.3, 5.11: a    *)
(* new plan takes effect after confirmation).                              *)
(***************************************************************************)
ActivePlanConfirmed == \A g \in Goals : goal[g] = "ACTIVE" => plan[g].active

(***************************************************************************)
(* A completed or failed goal stays so (SPEC.md 14.1: both are final).     *)
(***************************************************************************)
ClosedGoalStays == [][\A g \in Goals : goal[g] \in Closed => goal'[g] = goal[g]]_vars

(***************************************************************************)
(* While requests do not overlap, the goals in progress are as many as the *)
(* plan allows and execute plans their user confirmed.                     *)
(***************************************************************************)
GoalsInProgress == ActiveGoalLimit /\ ActivePlanConfirmed
=============================================================================
