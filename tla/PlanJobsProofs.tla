--------------------------- MODULE PlanJobsProofs ---------------------------
(***************************************************************************)
(* Proofs about plans and AI jobs, for any number of goals, jobs and       *)
(* requests that overlap, and any number of faults.                        *)
(***************************************************************************)
EXTENDS PlanJobs, FiniteSetTheorems, TLAPS

L == INSTANCE QuotaProofs WITH
  Capabilities <- Metered \cup {"ACTIVE_GOAL"},
  Renewing <- Metered,
  Resources <- Jobs,
  Capability <- PlanCapability,
  Qty <- [j \in Jobs |-> 1],
  Consumes <- [c \in Callers |-> IF c \in Jobs THEN {c} ELSE {}],
  Releases <- [c \in Callers |-> IF c \in Cancels THEN Jobs ELSE {}]

(***************************************************************************)
(* The constants the service gives the ledger meet the ledger's assumption.*)
(***************************************************************************)
LEMMA LedgerAssumption == L!QuotaAssumption
<1>1. Kind \in [Jobs -> {"generate", "replan"}]
  BY PlanJobsAssumption
<1>2. PlanCapability \in [Jobs -> Metered \cup {"ACTIVE_GOAL"}]
  BY <1>1 DEF PlanCapability, Metered
<1>3. Metered \cup {"ACTIVE_GOAL"} = {"PLAN_GENERATION", "GOAL_REPLAN", "ACTIVE_GOAL"}
  BY DEF Metered
<1> DEFINE consumes == [c \in Callers |-> IF c \in Jobs THEN {c} ELSE {}]
           releases == [c \in Callers |-> IF c \in Cancels THEN Jobs ELSE {}]
<1>4. consumes \in [Callers -> SUBSET Jobs] /\ releases \in [Callers -> SUBSET Jobs]
  OBVIOUS
<1>5. [j \in Jobs |-> 1] \in [Jobs -> Nat \ {0}]
  OBVIOUS
<1>6. Limit \in [Tiers -> [Metered \cup {"ACTIVE_GOAL"} -> Nat \cup {NoLimit}]]
  BY <1>3, PlanJobsAssumption
<1>7. MaxPeriod \in Nat /\ NoLimit \notin Nat /\ IsFiniteSet(Jobs)
  BY PlanJobsAssumption
<1> QED
  <2>1. L!QuotaConstants
    BY <1>2, <1>4, <1>5, <1>6, <1>7 DEF L!QuotaConstants, L!IsFiniteSet, IsFiniteSet
  <2> QED
    BY <2>1

(***************************************************************************)
(* Initial states of the service are initial states of the ledger.         *)
(***************************************************************************)
LEMMA LedgerInit == Init => Ledger!QuotaInit
BY DEF Init

(***************************************************************************)
(* The steps that leave the ledger alone, and those that are a step of it. *)
(***************************************************************************)
LEMMA LedgerStep == [Next]_vars => [Ledger!QuotaNext]_(Ledger!quotaVars)
<1> SUFFICES ASSUME [Next]_vars
             PROVE  Ledger!QuotaNext \/ UNCHANGED ledger
  BY DEF Ledger!quotaVars, ledger
<1> USE DEF Ledger!QuotaNext, Callers
<1>1. ASSUME NEW j \in Jobs, Request(j) PROVE Ledger!QuotaNext
  BY <1>1 DEF Request
<1>2. ASSUME NEW j \in Jobs, Submit(j) PROVE Ledger!QuotaNext
  BY <1>2 DEF Submit
<1>3. ASSUME NEW j \in Jobs, Refuse(j) PROVE Ledger!QuotaNext
  BY <1>3 DEF Refuse
<1>4. ASSUME NEW j \in Jobs, ApiDies(j) PROVE Ledger!QuotaNext \/ UNCHANGED ledger
  BY <1>4 DEF ApiDies
<1>5. ASSUME NEW c \in Cancels, CancelOpen(c) PROVE Ledger!QuotaNext
  <2>1. cancel[c].job \in Jobs
    BY <1>5 DEF CancelOpen, Ledger!BeginRelease
  <2> QED
    BY <1>5, <2>1 DEF CancelOpen
<1>6. ASSUME NEW c \in Cancels, CancelCommit(c) PROVE Ledger!QuotaNext
  BY <1>6 DEF CancelCommit
<1>7. CASE Clock
  BY <1>7 DEF Clock, Metered
<1>8. ASSUME NEW r \in Runners, RunStepOf(r) PROVE UNCHANGED ledger
  BY <1>8 DEF RunStepOf, MarkGoal, StartAttempt, AiAnswers, AiFails, SavePlan,
     WriteFails, Succeed, FailGoal, FailJob, OnlyRun
<1>9. ASSUME NEW j \in Jobs, Enqueue(j) \/ WorkerTake(j) \/ Reconcile(j) \/ WorkerDies(j)
                             \/ QueueLoses(j)
      PROVE  UNCHANGED ledger
  BY <1>9 DEF Enqueue, WorkerTake, Reconcile, WorkerDies, QueueLoses
<1>10. ASSUME NEW c \in Cancels, NEW j \in Jobs, CancelRead(c, j)
       PROVE  UNCHANGED ledger
  BY <1>10 DEF CancelRead
<1>11. ASSUME NEW c \in Confirms,
              (\E g \in Goals : ConfirmRead(c, g)) \/ ConfirmCount(c) \/ ConfirmCommit(c)
       PROVE  UNCHANGED ledger
  BY <1>11 DEF ConfirmRead, ConfirmCount, ConfirmCommit, OnlyConfirm
<1>12. ASSUME NEW s \in Settles, (\E g \in Goals : SettleRead(s, g)) \/ SettleWrite(s)
       PROVE  UNCHANGED ledger
  BY <1>12 DEF SettleRead, SettleWrite, OnlySettle
<1>13. ASSUME NEW a \in Admins, (\E j \in Jobs : AdminEnqueue(a, j)) \/ AdminRequeue(a)
       PROVE  UNCHANGED ledger
  BY <1>13 DEF AdminEnqueue, AdminRequeue
<1>14. CASE UNCHANGED vars
  BY <1>14 DEF vars, ledger
<1> HIDE DEF Ledger!QuotaNext
<1> QED
  BY <1>1, <1>2, <1>3, <1>4, <1>5, <1>6, <1>7, <1>8, <1>9, <1>10, <1>11, <1>12, <1>13,
     <1>14 DEF Next

(***************************************************************************)
(* The ledger the service instantiates is the one the theorems are about.  *)
(***************************************************************************)
LEMMA SameLedger ==
  /\ Ledger!QuotaInit <=> L!QuotaInit
  /\ [Ledger!QuotaNext]_(Ledger!quotaVars) <=> [L!QuotaNext]_(L!quotaVars)
  /\ Ledger!QuotaTypeOK <=> L!QuotaTypeOK
  /\ NeverOvercharged <=> L!NeverOvercharged
  /\ Ledger!LedgerExact <=> L!LedgerExact
<1>1. Ledger!QuotaInit <=> L!QuotaInit
  BY DEF Ledger!QuotaInit, L!QuotaInit, Ledger!Buckets, L!Buckets, Ledger!Periods, L!Periods,
     Ledger!NoRecord, L!NoRecord, Ledger!NoTx, L!NoTx
<1>2. [Ledger!QuotaNext]_(Ledger!quotaVars) <=> [L!QuotaNext]_(L!quotaVars)
  <2>1. \A c, r : /\ Ledger!BeginConsume(c, r) <=> L!BeginConsume(c, r)
                  /\ Ledger!BeginRelease(c, r) <=> L!BeginRelease(c, r)
    BY DEF Ledger!BeginConsume, L!BeginConsume, Ledger!BeginRelease, L!BeginRelease,
       Ledger!NoTx, L!NoTx
  <2>2. \A c : Ledger!CommitConsume(c) <=> L!CommitConsume(c)
    BY DEF Ledger!CommitConsume, L!CommitConsume, Ledger!Fits, L!Fits, Ledger!NoTx, L!NoTx
  <2>3. \A c : Ledger!AbandonConsume(c) <=> L!AbandonConsume(c)
    BY DEF Ledger!AbandonConsume, L!AbandonConsume, Ledger!Fits, L!Fits, Ledger!NoTx, L!NoTx
  <2>4. \A c : Ledger!CommitRelease(c) <=> L!CommitRelease(c)
    BY DEF Ledger!CommitRelease, L!CommitRelease, Ledger!BucketOf, L!BucketOf,
       Ledger!Doubled, L!Doubled, Ledger!NoTx, L!NoTx
  <2>5. \A c : Ledger!Rollback(c) <=> L!Rollback(c)
    BY DEF Ledger!Rollback, L!Rollback, Ledger!NoTx, L!NoTx
  <2>6. /\ \A p : Ledger!NextPeriod(p) <=> L!NextPeriod(p)
        /\ Ledger!ChangeTier <=> L!ChangeTier
    BY DEF Ledger!NextPeriod, L!NextPeriod, Ledger!ChangeTier, L!ChangeTier
  <2> QED
    BY <2>1, <2>2, <2>3, <2>4, <2>5, <2>6
       DEF Ledger!QuotaNext, L!QuotaNext, Ledger!quotaVars, L!quotaVars
<1>3. (NeverOvercharged <=> L!NeverOvercharged) /\ (Ledger!LedgerExact <=> L!LedgerExact)
  <2>1. \A S : L!Cardinality(S) = Ledger!Cardinality(S)
    BY DEF L!Cardinality, Ledger!Cardinality
  <2>2. \A S : L!UnitsOf(S) = Ledger!UnitsOf(S)
    BY DEF L!UnitsOf, Ledger!UnitsOf, L!Units, Ledger!Units
  <2>3. \A b : L!HeldIn(b) = Ledger!HeldIn(b)
    BY DEF L!HeldIn, Ledger!HeldIn, L!BucketOf, Ledger!BucketOf
  <2>4. L!Buckets = Ledger!Buckets
    BY DEF L!Buckets, Ledger!Buckets, L!Periods, Ledger!Periods
  <2>5. \A b : L!Held(b) = Ledger!Held(b)
    BY <2>1, <2>2, <2>3 DEF L!Held, Ledger!Held
  <2> QED
    BY <2>4, <2>5 DEF L!NeverOvercharged, Ledger!NeverOvercharged, NeverOvercharged,
       L!LedgerExact, Ledger!LedgerExact
<1>4. Ledger!QuotaTypeOK <=> L!QuotaTypeOK
  BY DEF Ledger!QuotaTypeOK, L!QuotaTypeOK, Ledger!Periods, L!Periods, Ledger!Buckets, L!Buckets,
     Ledger!RecordType, L!RecordType, Ledger!TxType, L!TxType, Ledger!Limits, L!Limits
<1> QED
  BY <1>1, <1>2, <1>3, <1>4

(***************************************************************************)
(* What is proved of the ledger therefore holds of the service: here, that *)
(* overlapping cancellations never leave a bucket above what is held.      *)
(***************************************************************************)
THEOREM NeverOverchargedHolds == Spec => []NeverOvercharged
<1>1. L!UnitQuantities
  BY DEF L!UnitQuantities
<1>2. L!QuotaSpec => []L!NeverOvercharged
  BY <1>1, LedgerAssumption, L!NeverOverchargedHolds
<1> QED
  BY <1>2, SameLedger, LedgerInit, LedgerStep, PTL DEF Spec, L!QuotaSpec

(***************************************************************************)
(* The ledger's part of the type invariant.                                *)
(***************************************************************************)
LEMMA LedgerType == Spec => []Ledger!QuotaTypeOK
<1>1. L!QuotaSpec => []L!QuotaTypeOK
  BY LedgerAssumption, L!QuotaTypeCorrect
<1> QED
  BY <1>1, SameLedger, LedgerInit, LedgerStep, PTL DEF Spec, L!QuotaSpec
-----------------------------------------------------------------------------
(***************************************************************************)
(* Type correctness.  That a run never counts more than MaxAttempts calls  *)
(* of the provider needs AttemptsLeft: it starts a call only with one left.*)
(***************************************************************************)
ServiceTypeOK ==
  /\ goal \in [Goals -> GoalStatus]
  /\ plan \in [Goals -> [id : Nat, active : BOOLEAN]]
  /\ job \in [Jobs -> JobStatus]
  /\ prev \in [Jobs -> GoalStatus]
  /\ run \in [Runners -> [at : RunStep, tries : 0..MaxAttempts]]
  /\ queue \in [Jobs -> QueueState]
  /\ cancel \in [Cancels -> CancelType]
  /\ confirm \in [Confirms -> ConfirmType]
  /\ settle \in [Settles -> SettleType]
  /\ admin \in [Admins -> AdminType]
  /\ faults \in 0..MaxFaults
  /\ retries \in 0..MaxRetries

AttemptsLeft == \A r \in Runners :
  /\ run[r].at \in {"idle", "submit", "enqueue", "mark"} => run[r].tries = 0
  /\ run[r].at = "try" => run[r].tries < MaxAttempts

TypeInv == ServiceTypeOK /\ AttemptsLeft

\* No request has come and no provider was called at first.
LEMMA TypeInvInit == Init => TypeInv
<1> SUFFICES ASSUME Init PROVE TypeInv
  OBVIOUS
<1> USE PlanJobsAssumption DEF Init
<1>1. goal \in [Goals -> GoalStatus]
  BY DEF GoalStatus
<1>2. plan \in [Goals -> [id : Nat, active : BOOLEAN]]
  OBVIOUS
<1>3. job \in [Jobs -> JobStatus] /\ prev \in [Jobs -> GoalStatus] /\ queue \in [Jobs -> QueueState]
  BY DEF JobStatus, GoalStatus, QueueState
<1>4. run \in [Runners -> [at : RunStep, tries : 0..MaxAttempts]] /\ AttemptsLeft
  BY DEF RunStep, AttemptsLeft
<1>5. cancel \in [Cancels -> CancelType] /\ confirm \in [Confirms -> ConfirmType]
  BY DEF CancelType, ConfirmType, Idle
<1>6. settle \in [Settles -> SettleType] /\ admin \in [Admins -> AdminType]
  BY DEF SettleType, AdminType, Idle
<1>7. faults \in 0..MaxFaults /\ retries \in 0..MaxRetries
  OBVIOUS
<1> QED
  BY <1>1, <1>2, <1>3, <1>4, <1>5, <1>6, <1>7 DEF TypeInv, ServiceTypeOK

(***************************************************************************)
(* A runner's next step, with the calls of the provider it has made.       *)
(***************************************************************************)
LEMMA RunUpdate ==
  ASSUME TypeInv, NEW r \in Runners, NEW to \in RunStep, NEW n \in 0..MaxAttempts,
         run' = [run EXCEPT ![r] = [at |-> to, tries |-> n]],
         to \in {"idle", "submit", "enqueue", "mark"} => n = 0,
         to = "try" => n < MaxAttempts
  PROVE  run' \in [Runners -> [at : RunStep, tries : 0..MaxAttempts]] /\ AttemptsLeft'
BY DEF TypeInv, ServiceTypeOK, AttemptsLeft

(***************************************************************************)
(* The steps of a run, by request and worker alike.                        *)
(***************************************************************************)
LEMMA RunType ==
  ASSUME TypeInv, NEW r \in Runners, RunStepOf(r)
  PROVE  TypeInv'
<1>1. r[1] \in Jobs /\ r[2] \in {"api", "worker"} /\ GoalOf[r[1]] \in Goals
  BY PlanJobsAssumption DEF Runners
<1>2. UNCHANGED <<prev, cancel, confirm, settle, admin, faults, retries>>
  BY DEF RunStepOf, MarkGoal, StartAttempt, AiAnswers, AiFails, SavePlan, WriteFails,
     Succeed, FailGoal, FailJob, OnlyRun
<1>3. goal' \in [Goals -> GoalStatus]
  BY <1>1 DEF TypeInv, ServiceTypeOK, GoalStatus, RunStepOf, MarkGoal, StartAttempt, AiAnswers,
     AiFails, SavePlan, WriteFails, Succeed, FailGoal, FailJob
<1>4. plan' \in [Goals -> [id : Nat, active : BOOLEAN]]
  <2>1. CASE SavePlan(r)
    <3> DEFINE g == GoalOf[r[1]]
               saved == [id |-> plan[g].id + 1, active |-> FALSE]
    <3>1. plan' = [plan EXCEPT ![g] = saved]
      BY <2>1 DEF SavePlan
    <3>2. saved \in [id : Nat, active : BOOLEAN]
      BY <1>1 DEF TypeInv, ServiceTypeOK
    <3> HIDE DEF saved
    <3> QED
      BY <3>1, <3>2 DEF TypeInv, ServiceTypeOK
  <2>2. CASE ~SavePlan(r)
    BY <2>2 DEF TypeInv, ServiceTypeOK, RunStepOf, MarkGoal, StartAttempt, AiAnswers,
       AiFails, WriteFails, Succeed, FailGoal, FailJob
  <2> QED
    BY <2>1, <2>2
<1>5. job' \in [Jobs -> JobStatus]
  BY <1>1 DEF TypeInv, ServiceTypeOK, JobStatus, RunStepOf, MarkGoal, StartAttempt, AiAnswers,
     AiFails, SavePlan, WriteFails, Succeed, FailGoal, FailJob
<1>6. queue' \in [Jobs -> QueueState]
  BY <1>1 DEF TypeInv, ServiceTypeOK, QueueState, RunStepOf, MarkGoal, StartAttempt, AiAnswers,
     AiFails, SavePlan, WriteFails, Succeed, FailGoal, FailJob, Finish
<1>7. run' \in [Runners -> [at : RunStep, tries : 0..MaxAttempts]] /\ AttemptsLeft'
  <2>0. /\ run[r] \in [at : RunStep, tries : 0..MaxAttempts]
        /\ run[r].at = "mark" => run[r].tries = 0
        /\ run[r].at = "try" => run[r].tries < MaxAttempts
    BY DEF TypeInv, ServiceTypeOK, AttemptsLeft
  <2> USE <2>0, PlanJobsAssumption, RunUpdate DEF RunStep, Working
  <2>1. CASE MarkGoal(r)
    <3>1. run[r].tries = 0
      BY <2>1 DEF MarkGoal
    <3>2. run' = [run EXCEPT ![r] = [at |-> "try", tries |-> 0]]
      BY <2>1, <3>1 DEF MarkGoal, Step
    <3> QED
      BY <3>2 DEF TypeInv, ServiceTypeOK, AttemptsLeft
  <2>2. CASE StartAttempt(r)
    <3> DEFINE n == run[r].tries + 1
    <3>1. run' = [run EXCEPT ![r] = [at |-> "call", tries |-> n]]
      BY <2>2 DEF StartAttempt
    <3>2. n \in 0..MaxAttempts
      BY <2>2 DEF StartAttempt
    <3>3. "call" \in RunStep
      OBVIOUS
    <3> HIDE DEF n, RunStep
    <3> QED
      BY <3>1, <3>2, <3>3 DEF TypeInv, ServiceTypeOK, AttemptsLeft
  <2>3. CASE AiAnswers(r)
    BY <2>3 DEF AiAnswers, Step
  <2>4. CASE AiFails(r)
    BY <2>4 DEF AiFails, Step
  <2>5. CASE SavePlan(r) \/ WriteFails(r)
    BY <2>5 DEF SavePlan, WriteFails, Step
  <2>6. CASE Succeed(r) \/ FailJob(r)
    BY <2>6 DEF Succeed, FailJob, Finish
  <2>7. CASE FailGoal(r)
    BY <2>7 DEF FailGoal, Step
  <2> QED
    BY <2>1, <2>2, <2>3, <2>4, <2>5, <2>6, <2>7 DEF RunStepOf
<1> QED
  BY <1>2, <1>3, <1>4, <1>5, <1>6, <1>7 DEF TypeInv, ServiceTypeOK

(***************************************************************************)
(* The steps that request a job, take it from the queue and lose it.       *)
(***************************************************************************)
LEMMA JobType ==
  ASSUME TypeInv, NEW j \in Jobs,
         \/ Request(j) \/ Submit(j) \/ Refuse(j) \/ Enqueue(j) \/ WorkerTake(j)
         \/ Reconcile(j) \/ ApiDies(j) \/ WorkerDies(j) \/ QueueLoses(j)
  PROVE  TypeInv'
<1>1. /\ <<j, "api">> \in Runners /\ <<j, "worker">> \in Runners
      /\ GoalOf[j] \in Goals
  BY PlanJobsAssumption DEF Runners
<1>2. UNCHANGED <<plan, cancel, confirm, settle, admin, retries>>
  BY DEF Request, Submit, Refuse, Enqueue, WorkerTake, Reconcile, ApiDies, WorkerDies, QueueLoses
<1>3. goal' \in [Goals -> GoalStatus] /\ prev' \in [Jobs -> GoalStatus]
  BY <1>1 DEF TypeInv, ServiceTypeOK, GoalStatus, Request, Submit, SubmittedGoal, Refuse, Enqueue, WorkerTake,
     Reconcile, ApiDies, WorkerDies, QueueLoses
<1>4. job' \in [Jobs -> JobStatus]
  BY DEF TypeInv, ServiceTypeOK, JobStatus, Request, Submit, Refuse, Enqueue, WorkerTake,
     Reconcile, ApiDies, WorkerDies, QueueLoses
<1>5. queue' \in [Jobs -> QueueState]
  <2>1. Enqueued(j) \in [Jobs -> QueueState]
    BY DEF TypeInv, ServiceTypeOK, QueueState, Enqueued
  <2> QED
    BY <2>1 DEF TypeInv, ServiceTypeOK, QueueState, Request, Submit, Refuse, Enqueue, WorkerTake,
       Reconcile, ApiDies, WorkerDies, QueueLoses
<1>6. faults' \in 0..MaxFaults
  BY PlanJobsAssumption DEF TypeInv, ServiceTypeOK, Request, Submit, Refuse, Enqueue, WorkerTake,
     Reconcile, ApiDies, WorkerDies, QueueLoses
<1>7. run' \in [Runners -> [at : RunStep, tries : 0..MaxAttempts]] /\ AttemptsLeft'
  <2>0. \A r \in Runners :
          /\ run[r] \in [at : RunStep, tries : 0..MaxAttempts]
          /\ run[r].at \in {"idle", "submit", "enqueue", "mark"} => run[r].tries = 0
    BY DEF TypeInv, ServiceTypeOK, AttemptsLeft
  <2> USE <2>0, <1>1, PlanJobsAssumption, RunUpdate DEF RunStep, Working
  <2>1. CASE Request(j) \/ Submit(j) \/ Refuse(j)
    BY <2>1 DEF Request, Submit, Refuse, Step
  <2>2. CASE Enqueue(j)
    <3>1. run[<<j, "api">>].tries = 0
      BY <2>2 DEF Enqueue
    <3>2. \/ run' = [run EXCEPT ![<<j, "api">>] = [at |-> "try", tries |-> 0]]
          \/ run' = [run EXCEPT ![<<j, "api">>] = [at |-> "mark", tries |-> 0]]
      BY <2>2, <3>1 DEF Enqueue, Step
    <3> QED
      BY <3>2
  <2>3. CASE WorkerTake(j)
    BY <2>3, ZenonT(40) DEF WorkerTake, Step, TypeInv, ServiceTypeOK, AttemptsLeft
  <2>4. CASE ApiDies(j) \/ WorkerDies(j)
    BY <2>4 DEF ApiDies, WorkerDies
  <2>5. CASE Reconcile(j) \/ QueueLoses(j)
    BY <2>5 DEF Reconcile, QueueLoses, TypeInv, ServiceTypeOK, AttemptsLeft
  <2> QED
    BY <2>1, <2>2, <2>3, <2>4, <2>5
<1> QED
  BY <1>2, <1>3, <1>4, <1>5, <1>6, <1>7 DEF TypeInv, ServiceTypeOK

(***************************************************************************)
(* Cancellation, confirmation, settlement and the administrator's retry.   *)
(***************************************************************************)
LEMMA RequestType ==
  ASSUME TypeInv,
         \/ \E c \in Cancels :
              (\E j \in Jobs : CancelRead(c, j)) \/ CancelOpen(c) \/ CancelCommit(c)
         \/ \E c \in Confirms :
              (\E g \in Goals : ConfirmRead(c, g)) \/ ConfirmCount(c) \/ ConfirmCommit(c)
         \/ \E s \in Settles : (\E g \in Goals : SettleRead(s, g)) \/ SettleWrite(s)
         \/ \E a \in Admins : (\E j \in Jobs : AdminEnqueue(a, j)) \/ AdminRequeue(a)
  PROVE  TypeInv'
<1> USE DEF TypeInv, ServiceTypeOK
<1>1. ASSUME NEW c \in Cancels, NEW j \in Jobs, CancelRead(c, j) PROVE TypeInv'
  BY <1>1 DEF CancelRead, CancelType, AttemptsLeft
<1>2. ASSUME NEW c \in Cancels, CancelOpen(c) PROVE TypeInv'
  BY <1>2 DEF CancelOpen, CancelType, AttemptsLeft
<1>3. ASSUME NEW c \in Cancels, CancelCommit(c) PROVE TypeInv'
  <2>1. cancel[c].job \in Jobs
    BY <1>3 DEF CancelCommit, CancelType
  <2>2. Restored(cancel[c].job) \in GoalStatus
    BY <2>1 DEF Restored, GoalStatus
  <2>3. goal' \in [Goals -> GoalStatus] /\ job' \in [Jobs -> JobStatus]
    BY <1>3, <2>1, <2>2 DEF CancelCommit, JobStatus
  <2>4. cancel' \in [Cancels -> CancelType]
    BY <1>3 DEF CancelCommit, CancelType, Idle
  <2> QED
    BY <1>3, <2>3, <2>4 DEF CancelCommit, AttemptsLeft
<1>4. ASSUME NEW c \in Confirms, NEW g \in Goals, ConfirmRead(c, g) PROVE TypeInv'
  BY <1>4 DEF ConfirmRead, OnlyConfirm, ConfirmType, AttemptsLeft
<1>5. ASSUME NEW c \in Confirms, ConfirmCount(c) PROVE TypeInv'
  <2>1. confirm' \in [Confirms -> ConfirmType]
    BY <1>5 DEF ConfirmCount, ConfirmType, Idle
  <2> QED
    BY <1>5, <2>1 DEF ConfirmCount, OnlyConfirm, AttemptsLeft
<1>6. ASSUME NEW c \in Confirms, ConfirmCommit(c) PROVE TypeInv'
  <2>1. confirm[c].goal \in Goals
    BY <1>6 DEF ConfirmCommit, ConfirmType
  <2>2. goal' \in [Goals -> GoalStatus]
    BY <1>6, <2>1 DEF ConfirmCommit, GoalStatus
  <2>3. plan' \in [Goals -> [id : Nat, active : BOOLEAN]]
    <3> DEFINE g == confirm[c].goal
               confirmed == [id |-> plan[g].id, active |-> TRUE]
    <3>1. plan' = plan \/ plan' = [plan EXCEPT ![g] = confirmed]
      BY <1>6 DEF ConfirmCommit
    <3>2. confirmed \in [id : Nat, active : BOOLEAN]
      BY <2>1
    <3> HIDE DEF confirmed
    <3> QED
      BY <2>1, <3>1, <3>2
  <2>4. confirm' \in [Confirms -> ConfirmType]
    BY <1>6 DEF ConfirmCommit, ConfirmType, Idle
  <2> QED
    BY <1>6, <2>2, <2>3, <2>4 DEF ConfirmCommit, OnlyConfirm, AttemptsLeft
<1>7. ASSUME NEW s \in Settles, NEW g \in Goals, SettleRead(s, g) PROVE TypeInv'
  BY <1>7 DEF SettleRead, OnlySettle, SettleType, AttemptsLeft
<1>8. ASSUME NEW s \in Settles, SettleWrite(s) PROVE TypeInv'
  <2>1. settle[s].goal \in Goals /\ settle[s].seen \in GoalStatus
    BY <1>8 DEF SettleWrite, SettleType
  <2>2. goal' \in [Goals -> GoalStatus]
    BY <1>8, <2>1 DEF SettleWrite, Closed, GoalStatus
  <2>3. settle' \in [Settles -> SettleType]
    BY <1>8 DEF SettleWrite, SettleType, Idle
  <2> QED
    BY <1>8, <2>2, <2>3 DEF SettleWrite, OnlySettle, AttemptsLeft
<1>9. ASSUME NEW a \in Admins, NEW j \in Jobs, AdminEnqueue(a, j) PROVE TypeInv'
  <2>1. queue' \in [Jobs -> QueueState]
    BY <1>9 DEF AdminEnqueue, Enqueued, QueueState
  <2>2. retries' \in 0..MaxRetries
    BY <1>9, PlanJobsAssumption DEF AdminEnqueue
  <2> QED
    BY <1>9, <2>1, <2>2 DEF AdminEnqueue, AdminType, AttemptsLeft
<1>10. ASSUME NEW a \in Admins, AdminRequeue(a) PROVE TypeInv'
  <2>1. admin[a].job \in Jobs
    BY <1>10 DEF AdminRequeue, AdminType
  <2>2. job' \in [Jobs -> JobStatus] /\ admin' \in [Admins -> AdminType]
    BY <1>10, <2>1 DEF AdminRequeue, AdminType, Idle, JobStatus
  <2> QED
    BY <1>10, <2>2 DEF AdminRequeue, AttemptsLeft
<1> QED
  BY <1>1, <1>2, <1>3, <1>4, <1>5, <1>6, <1>7, <1>8, <1>9, <1>10

\* Every step of the service keeps the types and the bound on attempts.
LEMMA TypeStep == TypeInv /\ [Next]_vars => TypeInv'
<1> SUFFICES ASSUME TypeInv, [Next]_vars PROVE TypeInv'
  OBVIOUS
<1>1. CASE Clock
  BY <1>1 DEF Clock, service, TypeInv, ServiceTypeOK, AttemptsLeft
<1>2. CASE UNCHANGED vars
  BY <1>2 DEF vars, service, TypeInv, ServiceTypeOK, AttemptsLeft
<1> QED
  BY <1>1, <1>2, RunType, JobType, RequestType DEF Next

\* The types of the service, with the attempts a run has left.
LEMMA TypeInvariant == Spec => []TypeInv
BY TypeInvInit, TypeStep, PTL DEF Spec

(***************************************************************************)
(* The types, the ledger's included.                                       *)
(***************************************************************************)
THEOREM TypeCorrect == Spec => []TypeOK
<1>1. TypeInv /\ Ledger!QuotaTypeOK => TypeOK
  BY DEF TypeInv, ServiceTypeOK, TypeOK
<1> QED
  BY <1>1, TypeInvariant, LedgerType, PTL
-----------------------------------------------------------------------------
(***************************************************************************)
(* The strengthening.  A row, a plan or a charge, once there, is there for *)
(* good; what a request read of it still holds when the request writes.    *)
(***************************************************************************)
HasPlan(g) == plan[g].id # 0
Standing == {"WAITING_CONFIRMATION"} \cup Executing \cup Closed

\* Before its request there is no row of a job and no worker that runs it.
Requested == \A j \in Jobs :
  run[<<j, "api">>].at = "idle" => job[j] = "NONE" /\ run[<<j, "worker">>].at = "idle"

\* Cancellations and retries stand for a row they read.
RowRead ==
  /\ \A c \in Cancels : cancel[c].at # "idle" => job[cancel[c].job] # "NONE"
  /\ \A a \in Admins : admin[a].at # "idle" => job[admin[a].job] # "NONE"

\* A replan was asked for a goal in progress, a confirmation read a plan's row,
\* a settlement keeps the status it read.
ReplanHasPlan == \A j \in Jobs :
  Kind[j] = "replan" /\ run[<<j, "api">>].at # "idle" => HasPlan(GoalOf[j])
ConfirmHasPlan == \A c \in Confirms : confirm[c].at # "idle" => confirm[c].id # 0
SettleHasPlan == \A s \in Settles :
  settle[s].at # "idle" /\ settle[s].seen \in Standing => HasPlan(settle[s].goal)

PlanInv ==
  Requested /\ RowRead /\ ReplanHasPlan /\ ConfirmHasPlan /\ SettleHasPlan /\ PlanBehindStatus

(***************************************************************************)
(* No step takes a plan's row, or the row of a job, away.                  *)
(***************************************************************************)
LEMMA RowsStay ==
  ASSUME TypeInv, [Next]_vars
  PROVE  /\ \A g \in Goals : HasPlan(g) => HasPlan(g)'
         /\ \A j \in Jobs : job[j] # "NONE" => job'[j] # "NONE"
<1> USE DEF TypeInv, ServiceTypeOK, HasPlan
<1>1. ASSUME NEW r \in Runners, SavePlan(r)
      PROVE  \A g \in Goals : HasPlan(g) => HasPlan(g)'
  <2> DEFINE h == GoalOf[r[1]]
             n == plan[h].id + 1
  <2>1. h \in Goals /\ n # 0
    BY PlanJobsAssumption DEF Runners
  <2>2. plan' = [plan EXCEPT ![h] = [id |-> n, active |-> FALSE]]
    BY <1>1 DEF SavePlan
  <2> HIDE DEF n
  <2> QED
    BY <2>1, <2>2
<1>2. ASSUME NEW c \in Confirms, ConfirmCommit(c)
      PROVE  \A g \in Goals : HasPlan(g) => HasPlan(g)'
  BY <1>2 DEF ConfirmCommit
<1>3. ASSUME UNCHANGED plan
      PROVE  \A g \in Goals : HasPlan(g) => HasPlan(g)'
  BY <1>3
<1>4. \/ UNCHANGED plan
      \/ \E r \in Runners : SavePlan(r)
      \/ \E c \in Confirms : ConfirmCommit(c)
  BY DEF Next, Request, Submit, Refuse, Enqueue, WorkerTake, Reconcile, ApiDies, WorkerDies,
     QueueLoses, RunStepOf, MarkGoal, StartAttempt, AiAnswers, AiFails, WriteFails, Succeed,
     FailGoal, FailJob, CancelRead, CancelOpen, CancelCommit, ConfirmRead, ConfirmCount,
     SettleRead, SettleWrite, OnlySettle, AdminEnqueue, AdminRequeue, Clock, vars, service
<1>5. \/ UNCHANGED job
      \/ \E j \in Jobs : job' = [job EXCEPT ![j] = "QUEUED"]
      \/ \E r \in Runners : Succeed(r) \/ FailJob(r) \/ StartAttempt(r) \/ AiFails(r)
      \/ \E c \in Cancels : CancelCommit(c)
      \/ \E a \in Admins : AdminRequeue(a)
  BY DEF Next, Request, Submit, Refuse, Enqueue, WorkerTake, Reconcile, ApiDies, WorkerDies,
     QueueLoses, RunStepOf, MarkGoal, AiAnswers, SavePlan, WriteFails,
     FailGoal, CancelRead, CancelOpen, ConfirmRead, ConfirmCount, ConfirmCommit, OnlyConfirm,
     SettleRead, SettleWrite, OnlySettle, AdminEnqueue, Clock, vars, service
<1>6. \A j \in Jobs : job[j] # "NONE" => job'[j] # "NONE"
  BY <1>5 DEF Succeed, FailJob, StartAttempt, AiFails, CancelCommit, AdminRequeue
<1> QED
  BY <1>1, <1>2, <1>3, <1>4, <1>6

(***************************************************************************)
(* A request of a job leaves idle by Request and never returns to it.      *)
(***************************************************************************)
LEMMA RequestOnce ==
  ASSUME TypeInv, [Next]_vars, NEW j \in Jobs
  PROVE  \/ run[<<j, "api">>].at = "idle" <=> run'[<<j, "api">>].at = "idle"
         \/ Request(j)
<1> DEFINE same == run[<<j, "api">>].at = "idle" <=> run'[<<j, "api">>].at = "idle"
<1> USE DEF TypeInv, ServiceTypeOK
<1>0. <<j, "api">> \in Runners
  BY DEF Runners
<1>1. ASSUME NEW k \in Jobs, Request(k) PROVE same \/ Request(j)
  <2>1. CASE k = j
    BY <1>1, <2>1
  <2>2. CASE k # j
    <3>1. run'[<<j, "api">>] = run[<<j, "api">>]
      BY <1>0, <1>1, <2>2 DEF Request, Step
    <3> QED
      BY <3>1
  <2> QED
    BY <2>1, <2>2
<1>2. ASSUME NEW k \in Jobs, Submit(k) \/ Refuse(k) \/ Enqueue(k) \/ ApiDies(k) PROVE same
  <2>1. CASE k = j
    BY <1>0, <1>2, <2>1 DEF Submit, Refuse, Enqueue, ApiDies, Step
  <2>2. CASE k # j
    <3>1. run'[<<j, "api">>] = run[<<j, "api">>]
      BY <1>0, <1>2, <2>2 DEF Submit, Refuse, Enqueue, ApiDies, Step
    <3> QED
      BY <3>1
  <2> QED
    BY <2>1, <2>2
<1>3. ASSUME NEW k \in Jobs, WorkerTake(k) \/ WorkerDies(k) PROVE same
  BY <1>0, <1>3 DEF WorkerTake, WorkerDies, Step
<1>4. ASSUME NEW r \in Runners, RunStepOf(r) PROVE same
  <2>1. CASE r = <<j, "api">>
    BY <1>0, <1>4, <2>1 DEF RunStepOf, MarkGoal, StartAttempt, AiAnswers, AiFails, SavePlan,
       WriteFails, Succeed, FailGoal, FailJob, Step, Finish
  <2>2. CASE r # <<j, "api">>
    BY <1>0, <1>4, <2>2 DEF RunStepOf, MarkGoal, StartAttempt, AiAnswers, AiFails, SavePlan,
       WriteFails, Succeed, FailGoal, FailJob, Step, Finish
  <2> QED
    BY <2>1, <2>2
<1>5. ASSUME UNCHANGED run PROVE same
  BY <1>5
<1> HIDE DEF same
<1>6. \/ UNCHANGED run
      \/ \E k \in Jobs : \/ Request(k) \/ Submit(k) \/ Refuse(k) \/ Enqueue(k) \/ ApiDies(k)
                         \/ WorkerTake(k) \/ WorkerDies(k)
      \/ \E r \in Runners : RunStepOf(r)
  BY DEF Next, Reconcile, QueueLoses, CancelRead, CancelOpen, CancelCommit,
     ConfirmRead, ConfirmCount, ConfirmCommit, OnlyConfirm,
     SettleRead, SettleWrite, OnlySettle, AdminEnqueue, AdminRequeue, Clock, vars, service
<1>7. same \/ Request(j)
  BY <1>1, <1>2, <1>3, <1>4, <1>5, <1>6
<1> QED
  BY <1>7 DEF same

(***************************************************************************)
(* Each part of the strengthening, over every step.                        *)
(***************************************************************************)
LEMMA RequestedStep ==
  ASSUME TypeInv, PlanInv, [Next]_vars PROVE Requested'
<1> SUFFICES ASSUME NEW j \in Jobs, run'[<<j, "api">>].at = "idle"
             PROVE  job'[j] = "NONE" /\ run'[<<j, "worker">>].at = "idle"
  BY DEF Requested
<1> USE DEF TypeInv, ServiceTypeOK, PlanInv
<1>1. <<j, "api">> \in Runners /\ <<j, "worker">> \in Runners
  BY DEF Runners
<1>2. ~Request(j)
  BY <1>1 DEF Request, Step
<1>3. run[<<j, "api">>].at = "idle"
  BY <1>2, RequestOnce
<1>4. job[j] = "NONE" /\ run[<<j, "worker">>].at = "idle"
  BY <1>3 DEF Requested
<1>5. job'[j] = job[j]
  <2>1. ASSUME NEW r \in Runners, RunStepOf(r) PROVE job'[j] = job[j]
    <3>1. r[1] \in Jobs /\ (r = <<r[1], "api">> \/ r = <<r[1], "worker">>)
      BY DEF Runners
    <3>2. r[1] # j
      BY <1>3, <1>4, <2>1, <3>1 DEF RunStepOf, MarkGoal, StartAttempt, AiAnswers, AiFails,
         SavePlan, WriteFails, Succeed, FailGoal, FailJob
    <3> QED
      BY <2>1, <3>2 DEF RunStepOf, MarkGoal, StartAttempt, AiAnswers, AiFails,
         SavePlan, WriteFails, Succeed, FailGoal, FailJob
  <2>2. ASSUME NEW k \in Jobs, Submit(k) PROVE job'[j] = job[j]
    BY <1>3, <2>2 DEF Submit
  <2>3. ASSUME NEW c \in Cancels, CancelCommit(c) PROVE job'[j] = job[j]
    BY <1>4, <2>3 DEF CancelCommit, RowRead
  <2>4. ASSUME NEW a \in Admins, AdminRequeue(a) PROVE job'[j] = job[j]
    BY <1>4, <2>4 DEF AdminRequeue, RowRead
  <2> QED
    BY <2>1, <2>2, <2>3, <2>4 DEF Next, Request, Refuse, Enqueue, WorkerTake, Reconcile, ApiDies,
     WorkerDies, QueueLoses, CancelRead, CancelOpen, ConfirmRead, ConfirmCount, ConfirmCommit,
     OnlyConfirm, SettleRead, SettleWrite, OnlySettle, AdminEnqueue, Clock, vars, service
<1>6. run'[<<j, "worker">>].at = "idle"
  <2>1. ASSUME NEW r \in Runners, RunStepOf(r) PROVE run'[<<j, "worker">>].at = "idle"
    <3>1. r # <<j, "worker">>
      BY <1>4, <2>1 DEF RunStepOf, MarkGoal, StartAttempt, AiAnswers, AiFails,
         SavePlan, WriteFails, Succeed, FailGoal, FailJob
    <3> QED
      BY <1>1, <1>4, <2>1, <3>1 DEF RunStepOf, MarkGoal, StartAttempt, AiAnswers, AiFails,
         SavePlan, WriteFails, Succeed, FailGoal, FailJob, Step, Finish
  <2>2. ASSUME NEW k \in Jobs, WorkerTake(k) PROVE run'[<<j, "worker">>].at = "idle"
    BY <1>1, <1>4, <2>2 DEF WorkerTake, Step
  <2>3. ASSUME NEW k \in Jobs, WorkerDies(k) PROVE run'[<<j, "worker">>].at = "idle"
    BY <1>1, <1>4, <2>3 DEF WorkerDies
  <2>4. ASSUME NEW k \in Jobs,
               Request(k) \/ Submit(k) \/ Refuse(k) \/ Enqueue(k) \/ ApiDies(k)
        PROVE  run'[<<j, "worker">>].at = "idle"
    BY <1>1, <1>4, <2>4 DEF Request, Submit, Refuse, Enqueue, ApiDies, Step
  <2> QED
    BY <1>4, <2>1, <2>2, <2>3, <2>4 DEF Next, Reconcile, QueueLoses,
     CancelRead, CancelOpen, CancelCommit, ConfirmRead, ConfirmCount, ConfirmCommit,
     OnlyConfirm, SettleRead, SettleWrite, OnlySettle, AdminEnqueue, AdminRequeue, Clock,
     vars, service
<1> QED
  BY <1>4, <1>5, <1>6

\* What a cancellation or a retry stands for was read from an existing row.
LEMMA RowReadStep ==
  ASSUME TypeInv, RowRead, [Next]_vars PROVE RowRead'
<1> USE DEF TypeInv, ServiceTypeOK
<1>1. ASSUME NEW c \in Cancels, cancel'[c].at # "idle"
      PROVE  job'[cancel'[c].job] # "NONE"
  <2>1. CASE cancel'[c] = cancel[c]
    <3>1. cancel[c].job \in Jobs
      BY <1>1, <2>1 DEF CancelType
    <3> QED
      BY <1>1, <2>1, <3>1, RowsStay DEF RowRead
  <2>2. CASE \E j \in Jobs : CancelRead(c, j)
    BY <2>2 DEF CancelRead
  <2>3. CASE CancelOpen(c)
    <3>1. cancel'[c].job = cancel[c].job /\ cancel[c].at # "idle" /\ cancel[c].job \in Jobs
      BY <2>3 DEF CancelOpen, CancelType
    <3> QED
      BY <3>1, RowsStay DEF RowRead
  <2>4. CASE CancelCommit(c)
    BY <1>1, <2>4 DEF CancelCommit, Idle
  <2> QED
    BY <2>1, <2>2, <2>3, <2>4 DEF Next, Request, Submit, Refuse, Enqueue, WorkerTake, Reconcile,
     ApiDies, WorkerDies, QueueLoses, RunStepOf, MarkGoal, StartAttempt, AiAnswers, AiFails,
     SavePlan, WriteFails, Succeed, FailGoal, FailJob, OnlyRun, CancelRead, CancelOpen,
     CancelCommit, ConfirmRead, ConfirmCount, ConfirmCommit, OnlyConfirm, SettleRead,
     SettleWrite, OnlySettle, AdminEnqueue, AdminRequeue, Clock, vars, service
<1>2. ASSUME NEW a \in Admins, admin'[a].at # "idle"
      PROVE  job'[admin'[a].job] # "NONE"
  <2>1. CASE admin'[a] = admin[a]
    <3>1. admin[a].job \in Jobs
      BY <1>2, <2>1 DEF AdminType
    <3> QED
      BY <1>2, <2>1, <3>1, RowsStay DEF RowRead
  <2>2. CASE \E j \in Jobs : AdminEnqueue(a, j)
    BY <2>2 DEF AdminEnqueue
  <2>3. CASE AdminRequeue(a)
    BY <1>2, <2>3 DEF AdminRequeue, Idle
  <2> QED
    BY <2>1, <2>2, <2>3 DEF Next, Request, Submit, Refuse, Enqueue, WorkerTake, Reconcile,
     ApiDies, WorkerDies, QueueLoses, RunStepOf, MarkGoal, StartAttempt, AiAnswers, AiFails,
     SavePlan, WriteFails, Succeed, FailGoal, FailJob, OnlyRun, CancelRead, CancelOpen,
     CancelCommit, ConfirmRead, ConfirmCount, ConfirmCommit, OnlyConfirm, SettleRead,
     SettleWrite, OnlySettle, AdminEnqueue, AdminRequeue, Clock, vars, service
<1> QED
  BY <1>1, <1>2 DEF RowRead

\* requestGoalReplan checks a goal in progress, which has a plan.
LEMMA ReplanStep ==
  ASSUME TypeInv, PlanInv, [Next]_vars PROVE ReplanHasPlan'
<1> SUFFICES ASSUME NEW j \in Jobs, Kind[j] = "replan", run'[<<j, "api">>].at # "idle"
             PROVE  HasPlan(GoalOf[j])'
  BY DEF ReplanHasPlan
<1>1. GoalOf[j] \in Goals
  BY PlanJobsAssumption
<1>2. HasPlan(GoalOf[j])
  <2>1. CASE Request(j)
    BY <1>1, <2>1 DEF Request, Requestable, PlanInv, PlanBehindStatus, HasPlan
  <2>2. CASE ~Request(j)
    BY <2>2, RequestOnce DEF PlanInv, ReplanHasPlan
  <2> QED
    BY <2>1, <2>2
<1> QED
  BY <1>1, <1>2, RowsStay

\* confirmGoalPlan finds the plan's row before it goes on.
LEMMA ConfirmStep ==
  ASSUME TypeInv, ConfirmHasPlan, [Next]_vars PROVE ConfirmHasPlan'
<1> SUFFICES ASSUME NEW c \in Confirms, confirm'[c].at # "idle"
             PROVE  confirm'[c].id # 0
  BY DEF ConfirmHasPlan
<1> USE DEF TypeInv, ServiceTypeOK
<1>1. CASE confirm'[c] = confirm[c]
  BY <1>1 DEF ConfirmHasPlan
<1>2. ASSUME NEW g \in Goals, ConfirmRead(c, g) PROVE confirm'[c].id # 0
  BY <1>2 DEF ConfirmRead
<1>3. CASE ConfirmCount(c)
  <2>1. confirm'[c].id = confirm[c].id /\ confirm[c].at # "idle"
    BY <1>3 DEF ConfirmCount, Idle
  <2> QED
    BY <2>1 DEF ConfirmHasPlan
<1>4. CASE ConfirmCommit(c)
  BY <1>4 DEF ConfirmCommit, Idle
<1> QED
  BY <1>1, <1>2, <1>3, <1>4 DEF Next, Request, Submit, Refuse, Enqueue, WorkerTake, Reconcile,
     ApiDies, WorkerDies, QueueLoses, RunStepOf, MarkGoal, StartAttempt, AiAnswers, AiFails,
     SavePlan, WriteFails, Succeed, FailGoal, FailJob, OnlyRun, CancelRead, CancelOpen,
     CancelCommit, ConfirmRead, ConfirmCount, ConfirmCommit, OnlyConfirm, SettleRead,
     SettleWrite, OnlySettle, AdminEnqueue, AdminRequeue, Clock, vars, service

\* The status settleGoal keeps was that of a goal with a plan, if it needs one.
LEMMA SettleStep ==
  ASSUME TypeInv, PlanInv, [Next]_vars PROVE SettleHasPlan'
<1> SUFFICES ASSUME NEW s \in Settles, settle'[s].at # "idle", settle'[s].seen \in Standing
             PROVE  plan'[settle'[s].goal].id # 0
  BY DEF SettleHasPlan, HasPlan, Standing, Executing, Closed
<1> USE DEF TypeInv, ServiceTypeOK
<1>1. CASE settle'[s] = settle[s]
  <2>1. settle[s].goal \in Goals /\ HasPlan(settle[s].goal)
    BY <1>1 DEF SettleType, PlanInv, SettleHasPlan
  <2>2. plan'[settle[s].goal].id # 0
    BY <2>1, RowsStay DEF HasPlan
  <2> QED
    BY <1>1, <2>2
<1>2. ASSUME NEW g \in Goals, SettleRead(s, g) PROVE plan'[settle'[s].goal].id # 0
  <2>1. settle'[s].goal = g /\ settle'[s].seen = goal[g] /\ UNCHANGED plan
    BY <1>2 DEF SettleRead, OnlySettle
  <2>2. HasPlan(g)
    BY <2>1 DEF PlanInv, PlanBehindStatus, Standing, HasPlan
  <2> QED
    BY <2>1, <2>2 DEF HasPlan
<1>3. CASE SettleWrite(s)
  BY <1>3 DEF SettleWrite, Idle
<1> QED
  BY <1>1, <1>2, <1>3 DEF Next, Request, Submit, Refuse, Enqueue, WorkerTake, Reconcile,
     ApiDies, WorkerDies, QueueLoses, RunStepOf, MarkGoal, StartAttempt, AiAnswers, AiFails,
     SavePlan, WriteFails, Succeed, FailGoal, FailJob, OnlyRun, CancelRead, CancelOpen,
     CancelCommit, ConfirmRead, ConfirmCount, ConfirmCommit, OnlyConfirm, SettleRead,
     SettleWrite, AdminEnqueue, AdminRequeue, Clock, vars, service

\* Whichever step moves a goal's status to one that needs a plan finds the
\* plan's row there, by what its request read before.
LEMMA StandingStep ==
  ASSUME TypeInv, PlanInv, [Next]_vars PROVE PlanBehindStatus'
<1> SUFFICES ASSUME NEW g \in Goals, goal'[g] \in Standing
             PROVE  HasPlan(g)'
  BY DEF PlanBehindStatus, Standing, HasPlan
<1> USE DEF TypeInv, ServiceTypeOK
<1>1. CASE goal'[g] = goal[g]
  BY <1>1, RowsStay DEF PlanInv, PlanBehindStatus, Standing, HasPlan
<1>2. CASE HasPlan(g)
  BY <1>2, RowsStay
<1>3. ASSUME goal'[g] # goal[g] PROVE HasPlan(g)'
  <2>1. ASSUME NEW j \in Jobs, Submit(j) PROVE HasPlan(g)
    <3>1. Kind[j] = "replan" /\ GoalOf[j] = g /\ run[<<j, "api">>].at # "idle"
      BY <1>3, <2>1 DEF Submit, SubmittedGoal
    <3> QED
      BY <3>1 DEF PlanInv, ReplanHasPlan
  <2>2. ASSUME NEW r \in Runners, MarkGoal(r) PROVE HasPlan(g)
    <3>1. r[1] \in Jobs /\ (r = <<r[1], "api">> \/ r = <<r[1], "worker">>)
      BY DEF Runners
    <3>2. GoalOf[r[1]] = g /\ Kind[r[1]] = "replan" /\ run[r].at # "idle"
      BY <1>3, <2>2 DEF MarkGoal, Standing, Executing, Closed
    <3>3. run[<<r[1], "api">>].at # "idle"
      BY <3>1, <3>2 DEF PlanInv, Requested
    <3> QED
      BY <3>1, <3>2, <3>3 DEF PlanInv, ReplanHasPlan
  <2>3. ASSUME NEW r \in Runners, SavePlan(r) PROVE HasPlan(g)'
    <3> DEFINE n == plan[g].id + 1
    <3>1. GoalOf[r[1]] = g
      BY <1>3, <2>3 DEF SavePlan
    <3>2. plan' = [plan EXCEPT ![g] = [id |-> n, active |-> FALSE]]
      BY <2>3, <3>1 DEF SavePlan
    <3>3. n # 0
      OBVIOUS
    <3> HIDE DEF n
    <3>4. plan'[g].id = n
      BY <3>2
    <3> QED
      BY <3>3, <3>4 DEF HasPlan
  <2>4. ASSUME NEW r \in Runners, FailGoal(r) PROVE FALSE
    BY <1>3, <2>4 DEF FailGoal, Standing, Executing, Closed
  <2>5. ASSUME NEW c \in Cancels, CancelCommit(c) PROVE HasPlan(g)
    <3> DEFINE j == cancel[c].job
    <3>1. j \in Jobs /\ job[j] # "NONE"
      BY <2>5 DEF CancelCommit, CancelType, PlanInv, RowRead
    <3>2. GoalOf[j] = g /\ Kind[j] = "replan"
      BY <1>3, <2>5, <3>1 DEF CancelCommit, Restored, Standing, Executing, Closed
    <3>3. run[<<j, "api">>].at # "idle"
      BY <3>1 DEF PlanInv, Requested
    <3> QED
      BY <3>1, <3>2, <3>3 DEF PlanInv, ReplanHasPlan
  <2>6. ASSUME NEW c \in Confirms, ConfirmCommit(c) PROVE HasPlan(g)
    <3>1. confirm[c].goal = g /\ plan[g].id = confirm[c].id /\ confirm[c].at # "idle"
      BY <1>3, <2>6 DEF ConfirmCommit
    <3> QED
      BY <3>1 DEF PlanInv, ConfirmHasPlan, HasPlan
  <2>7. ASSUME NEW s \in Settles, SettleWrite(s) PROVE HasPlan(g)
    <3>1. settle[s].goal = g /\ settle[s].at # "idle"
      BY <1>3, <2>7 DEF SettleWrite
    <3>2. settle[s].seen \in Standing
      BY <1>3, <2>7, <3>1 DEF SettleWrite, Standing
    <3> QED
      BY <3>1, <3>2 DEF PlanInv, SettleHasPlan
  <2> QED
    BY <1>2, <1>3, <2>1, <2>2, <2>3, <2>4, <2>5, <2>6, <2>7 DEF Next, Request, Refuse, Enqueue,
     WorkerTake, Reconcile, ApiDies, WorkerDies, QueueLoses, RunStepOf, StartAttempt, AiAnswers,
     AiFails, WriteFails, Succeed, FailJob, CancelRead, CancelOpen, ConfirmRead, ConfirmCount,
     SettleRead, AdminEnqueue, AdminRequeue, Clock, vars, service
<1> QED
  BY <1>1, <1>3

(***************************************************************************)
(* No order of generation, cancellation, retry, settlement and faults      *)
(* leaves a goal in a status that shows a plan that is not there.          *)
(***************************************************************************)
THEOREM PlanBehindStatusHolds == Spec => []PlanBehindStatus
<1>1. Init => PlanInv
  BY DEF Init, Idle, PlanInv, Requested, RowRead, ReplanHasPlan, ConfirmHasPlan, SettleHasPlan,
     PlanBehindStatus, Executing, Closed, Runners
<1>2. TypeInv /\ PlanInv /\ [Next]_vars => PlanInv'
  BY RequestedStep, RowReadStep, ReplanStep, ConfirmStep, SettleStep, StandingStep DEF PlanInv
<1>3. PlanInv => PlanBehindStatus
  BY DEF PlanInv
<1> QED
  BY <1>1, <1>2, <1>3, TypeInvariant, PTL DEF Spec

(***************************************************************************)
(* Refunds.  Whoever runs a job has its row, a consumption is for its own  *)
(* job, a job has a usage record, and a release that found none held found *)
(* it released: with the types, that makes CancelRefunds inductive.        *)
(***************************************************************************)
Submitted == \A r \in Runners :
  run[r].at \in {"enqueue"} \cup Working => job[r[1]] # "NONE"
OwnKey == \A c \in Callers : tx[c].op = "consume" => tx[c].res = c
Charged == \A j \in Jobs : job[j] # "NONE" => record[j].st # "none"
OpenCancel == \A c \in Cancels : cancel[c].at = "open" =>
  /\ tx[c].op = "release"
  /\ tx[c].res = cancel[c].job
  /\ ~tx[c].found => record[tx[c].res].st = "released"

RefundInv ==
  RowRead /\ Submitted /\ OwnKey /\ Charged /\ OpenCancel /\ CancelRefunds

RefundType == TypeInv /\ Ledger!QuotaTypeOK

(***************************************************************************)
(* A usage record is never taken away, and a released one stays released.  *)
(***************************************************************************)
LEMMA RecordsStay ==
  ASSUME RefundType, RefundInv, [Next]_vars, NEW j \in Jobs
  PROVE  /\ record[j].st # "none" => record'[j].st # "none"
         /\ record[j].st = "released" => record'[j].st = "released"
<1> USE DEF RefundType, TypeInv, ServiceTypeOK, Ledger!QuotaTypeOK
<1>1. ASSUME NEW k \in Jobs, Submit(k)
      PROVE  record'[j] = record[j] \/ (record[j].st = "none" /\ record'[j].st = "held")
  <2> DEFINE charged == [st |-> "held", period |-> tx[k].period]
  <2>1. record[tx[k].res].st = "none" /\ record' = [record EXCEPT ![tx[k].res] = charged]
    BY <1>1 DEF Submit, Ledger!CommitConsume
  <2>2. charged.st = "held"
    OBVIOUS
  <2> HIDE DEF charged
  <2> QED
    BY <2>1, <2>2
<1>2. ASSUME NEW c \in Cancels, CancelCommit(c)
      PROVE  record'[j] = record[j] \/ record'[j].st = "released"
  <2>1. \/ record' = record
        \/ record' = [record EXCEPT ![tx[c].res] =
                        [st |-> "released", period |-> record[tx[c].res].period]]
    BY <1>2 DEF CancelCommit, Ledger!CommitRelease
  <2>2. CASE tx[c].res = j
    BY <2>1, <2>2
  <2>3. CASE tx[c].res # j
    BY <2>1, <2>3
  <2> QED
    BY <2>2, <2>3
<1>3. ASSUME UNCHANGED record PROVE record'[j] = record[j]
  BY <1>3
<1>4. \/ UNCHANGED record
      \/ \E k \in Jobs : Submit(k)
      \/ \E c \in Cancels : CancelCommit(c)
  BY DEF Next, Request, Refuse, Enqueue, WorkerTake, Reconcile, ApiDies, WorkerDies,
     QueueLoses, RunStepOf, MarkGoal, StartAttempt, AiAnswers, AiFails, SavePlan, WriteFails,
     Succeed, FailGoal, FailJob, OnlyRun, CancelRead, CancelOpen, ConfirmRead, ConfirmCount,
     ConfirmCommit, OnlyConfirm, SettleRead, SettleWrite, OnlySettle, AdminEnqueue,
     AdminRequeue, Clock, vars, ledger, Ledger!BeginConsume, Ledger!AbandonConsume,
     Ledger!Rollback, Ledger!BeginRelease, Ledger!NextPeriod
<1> QED
  BY <1>1, <1>2, <1>3, <1>4

\* A job is run only after the transaction that wrote its row.
LEMMA SubmittedStep ==
  ASSUME RefundType, RefundInv, [Next]_vars PROVE Submitted'
<1> SUFFICES ASSUME NEW q \in Runners, run'[q].at \in {"enqueue"} \cup Working
             PROVE  job'[q[1]] # "NONE"
  BY DEF Submitted
<1> USE DEF RefundType, TypeInv, ServiceTypeOK
<1>0. q[1] \in Jobs /\ (q = <<q[1], "api">> \/ q = <<q[1], "worker">>)
  BY DEF Runners
<1>1. CASE job[q[1]] # "NONE"
  BY <1>0, <1>1, RowsStay
<1>2. ASSUME job[q[1]] = "NONE" PROVE job'[q[1]] # "NONE"
  <2>1. run[q].at \notin {"enqueue"} \cup Working
    BY <1>2 DEF RefundInv, Submitted
  <2>2. ASSUME NEW j \in Jobs, Submit(j) PROVE job'[q[1]] # "NONE"
    <3>1. q = <<j, "api">>
      BY <2>1, <2>2 DEF Submit, Step
    <3> QED
      BY <2>2, <3>1 DEF Submit
  <2>3. ASSUME NEW j \in Jobs, Request(j) \/ Refuse(j) \/ Enqueue(j) \/ ApiDies(j)
        PROVE  FALSE
    <3>1. CASE q = <<j, "api">>
      BY <2>1, <2>3, <3>1 DEF Request, Refuse, Enqueue, ApiDies, Step, Working
    <3>2. CASE q # <<j, "api">>
      <4>1. run'[q] = run[q]
        BY <2>3, <3>2 DEF Request, Refuse, Enqueue, ApiDies, Step
      <4> QED
        BY <2>1, <4>1
    <3> QED
      BY <3>1, <3>2
  <2>4. ASSUME NEW j \in Jobs, WorkerTake(j) \/ WorkerDies(j)
        PROVE  FALSE
    <3>1. CASE q = <<j, "worker">>
      <4>1. CASE WorkerTake(j)
        BY <1>2, <2>1, <3>1, <4>1 DEF WorkerTake
      <4>2. CASE WorkerDies(j)
        BY <3>1, <4>2 DEF WorkerDies, Working
      <4> QED
        BY <2>4, <4>1, <4>2
    <3>2. CASE q # <<j, "worker">>
      <4>1. run'[q] = run[q]
        BY <2>4, <3>2 DEF WorkerTake, WorkerDies, Step
      <4> QED
        BY <2>1, <4>1
    <3> QED
      BY <3>1, <3>2
  <2>5. ASSUME NEW r \in Runners, RunStepOf(r) PROVE FALSE
    <3>1. r # q
      BY <2>1, <2>5 DEF RunStepOf, MarkGoal, StartAttempt, AiAnswers, AiFails, SavePlan,
         WriteFails, Succeed, FailGoal, FailJob, Working
    <3>2. run'[q] = run[q]
      BY <2>5, <3>1 DEF RunStepOf, MarkGoal, StartAttempt, AiAnswers, AiFails, SavePlan,
         WriteFails, Succeed, FailGoal, FailJob, Step, Finish
    <3> QED
      BY <2>1, <3>2
  <2>6. ASSUME UNCHANGED run PROVE FALSE
    BY <2>1, <2>6
  <2> QED
    BY <2>2, <2>3, <2>4, <2>5, <2>6 DEF Next, Reconcile, QueueLoses,
     CancelRead, CancelOpen, CancelCommit, ConfirmRead, ConfirmCount, ConfirmCommit,
     OnlyConfirm, SettleRead, SettleWrite, OnlySettle, AdminEnqueue, AdminRequeue, Clock,
     vars, service
<1> QED
  BY <1>1, <1>2

\* The row of a job and its usage record are written in one transaction.
LEMMA ChargedStep ==
  ASSUME RefundType, RefundInv, [Next]_vars PROVE Charged'
<1> SUFFICES ASSUME NEW j \in Jobs, job'[j] # "NONE"
             PROVE  record'[j].st # "none"
  BY DEF Charged
<1> USE DEF RefundType, TypeInv, ServiceTypeOK
<1>1. CASE job[j] # "NONE"
  BY <1>1, RecordsStay DEF RefundInv, Charged
<1>2. CASE Submit(j)
  <2>1. tx[j].op = "consume" /\ j \in Callers
    BY <1>2 DEF Submit, Ledger!CommitConsume, Callers
  <2>2. tx[j].res = j
    BY <2>1 DEF RefundInv, OwnKey
  <2>3. record' = [record EXCEPT ![j] = [st |-> "held", period |-> tx[j].period]]
    BY <1>2, <2>2 DEF Submit, Ledger!CommitConsume
  <2> QED
    BY <2>3 DEF Ledger!QuotaTypeOK
<1>3. ASSUME job[j] = "NONE", ~Submit(j) PROVE FALSE
  <2>1. ASSUME NEW k \in Jobs, Submit(k) PROVE FALSE
    BY <1>3, <2>1 DEF Submit
  <2>2. ASSUME NEW r \in Runners, RunStepOf(r) PROVE FALSE
    <3>1. run[r].at \in Working /\ r[1] \in Jobs
      BY <2>2 DEF RunStepOf, MarkGoal, StartAttempt, AiAnswers, AiFails, SavePlan,
         WriteFails, Succeed, FailGoal, FailJob, Working, Runners
    <3>2. r[1] # j
      BY <1>3, <3>1 DEF RefundInv, Submitted
    <3>3. job'[j] = job[j]
      BY <2>2, <3>1, <3>2 DEF RunStepOf, MarkGoal, StartAttempt, AiAnswers, AiFails, SavePlan,
         WriteFails, Succeed, FailGoal, FailJob
    <3> QED
      BY <1>3, <3>3
  <2>3. ASSUME NEW c \in Cancels, CancelCommit(c) PROVE FALSE
    BY <1>3, <2>3 DEF CancelCommit, RefundInv, RowRead
  <2>4. ASSUME NEW a \in Admins, AdminRequeue(a) PROVE FALSE
    BY <1>3, <2>4 DEF AdminRequeue, RefundInv, RowRead
  <2>5. ASSUME UNCHANGED job PROVE FALSE
    BY <1>3, <2>5
  <2> QED
    BY <2>1, <2>2, <2>3, <2>4, <2>5 DEF Next, Request, Refuse, Enqueue, WorkerTake, Reconcile,
     ApiDies, WorkerDies, QueueLoses, CancelRead, CancelOpen, ConfirmRead, ConfirmCount,
     ConfirmCommit, OnlyConfirm, SettleRead, SettleWrite, OnlySettle, AdminEnqueue, Clock,
     vars, service
<1> QED
  BY <1>1, <1>2, <1>3

\* A request charges the key of its own job.
LEMMA OwnKeyStep ==
  ASSUME RefundType, RefundInv, [Next]_vars PROVE OwnKey'
<1> SUFFICES ASSUME NEW d \in Callers, tx'[d].op = "consume"
             PROVE  tx'[d].res = d
  BY DEF OwnKey, Callers
<1> USE DEF RefundType, Ledger!QuotaTypeOK
<1>1. CASE tx'[d] = tx[d]
  BY <1>1 DEF RefundInv, OwnKey
<1>2. ASSUME NEW j \in Jobs, Request(j) PROVE tx'[d].res = d
  <2>1. CASE d = j
    BY <1>2, <2>1 DEF Request, Ledger!BeginConsume
  <2>2. CASE d # j
    BY <1>1, <1>2, <2>2 DEF Request, Ledger!BeginConsume
  <2> QED
    BY <2>1, <2>2
<1>3. ASSUME NEW j \in Jobs, tx' = [tx EXCEPT ![j] = Ledger!NoTx] PROVE tx'[d].res = d
  <2>1. d # j
    BY <1>3 DEF Ledger!NoTx
  <2> QED
    BY <1>1, <1>3, <2>1
<1>4. ASSUME NEW c \in Cancels, CancelOpen(c) PROVE tx'[d].res = d
  <2>1. d # c
    BY <1>4 DEF CancelOpen, Ledger!BeginRelease
  <2> QED
    BY <1>1, <1>4, <2>1 DEF CancelOpen, Ledger!BeginRelease
<1>5. ASSUME NEW c \in Cancels, CancelCommit(c) PROVE tx'[d].res = d
  <2>1. tx' = [tx EXCEPT ![c] = Ledger!NoTx]
    BY <1>5 DEF CancelCommit, Ledger!CommitRelease
  <2>2. d # c
    BY <2>1 DEF Ledger!NoTx
  <2> QED
    BY <1>1, <2>1, <2>2
<1>6. \/ UNCHANGED tx
      \/ \E j \in Jobs : Request(j) \/ tx' = [tx EXCEPT ![j] = Ledger!NoTx]
      \/ \E c \in Cancels : CancelOpen(c) \/ CancelCommit(c)
  BY DEF Next, Submit, Refuse, Enqueue, WorkerTake, Reconcile, ApiDies, WorkerDies,
     QueueLoses, RunStepOf, MarkGoal, StartAttempt, AiAnswers, AiFails, SavePlan, WriteFails,
     Succeed, FailGoal, FailJob, OnlyRun, CancelRead, ConfirmRead, ConfirmCount,
     ConfirmCommit, OnlyConfirm, SettleRead, SettleWrite, OnlySettle, AdminEnqueue,
     AdminRequeue, Clock, vars, ledger, Ledger!CommitConsume, Ledger!AbandonConsume,
     Ledger!Rollback, Ledger!NextPeriod
<1> QED
  BY <1>1, <1>2, <1>3, <1>4, <1>5, <1>6

\* The release of a cancellation is for the job that it cancels, and if its
\* snapshot had no unreleased record then the job's record is released.
LEMMA OpenCancelStep ==
  ASSUME RefundType, RefundInv, [Next]_vars PROVE OpenCancel'
<1> SUFFICES ASSUME NEW c \in Cancels, cancel'[c].at = "open"
             PROVE  /\ tx'[c].op = "release"
                    /\ tx'[c].res = cancel'[c].job
                    /\ ~tx'[c].found => record'[tx'[c].res].st = "released"
  BY DEF OpenCancel
<1> USE DEF RefundType, TypeInv, ServiceTypeOK
<1>0. c \notin Jobs /\ c \in Callers
  BY PlanJobsAssumption DEF Callers
<1>1. CASE CancelOpen(c)
  <2> DEFINE j == cancel[c].job
             snapshot == [op |-> "release", res |-> j, found |-> record[j].st = "held"]
  <2>1. j \in Jobs /\ job[j] # "NONE"
    BY <1>1 DEF CancelOpen, CancelType, RefundInv, RowRead
  <2>2. record[j].st \in {"held", "released"}
    BY <2>1 DEF RefundInv, Charged, Ledger!QuotaTypeOK, Ledger!RecordType
  <2>3. tx'[c] = snapshot /\ UNCHANGED record
    BY <1>0, <1>1 DEF CancelOpen, Ledger!BeginRelease, Ledger!QuotaTypeOK
  <2>4. cancel'[c].job = j
    BY <1>1 DEF CancelOpen
  <2>5. tx'[c].op = "release" /\ tx'[c].res = j
    BY <2>3
  <2>6. tx'[c].found = (record[j].st = "held")
    BY <2>3
  <2>7. record'[j].st = record[j].st
    BY <2>3
  <2> QED
    BY <2>2, <2>4, <2>5, <2>6, <2>7
<1>2. CASE ~CancelOpen(c)
  <2>1. ~CancelCommit(c) /\ \A j \in Jobs : ~CancelRead(c, j)
    BY DEF CancelCommit, CancelRead, Idle
  <2>2. cancel'[c] = cancel[c]
    BY <1>2, <2>1 DEF Next, Request, Submit, Refuse, Enqueue, WorkerTake, Reconcile, ApiDies,
     WorkerDies, QueueLoses, RunStepOf, MarkGoal, StartAttempt, AiAnswers, AiFails, SavePlan,
     WriteFails, Succeed, FailGoal, FailJob, OnlyRun, CancelRead, CancelOpen, CancelCommit,
     ConfirmRead, ConfirmCount, ConfirmCommit, OnlyConfirm, SettleRead, SettleWrite, OnlySettle,
     AdminEnqueue, AdminRequeue, Clock, vars, service
  <2>3. tx'[c] = tx[c]
    <3>1. \/ UNCHANGED tx
          \/ \E d \in Callers : d # c /\ \E t : tx' = [tx EXCEPT ![d] = t]
      <4>1. ASSUME NEW j \in Jobs, Request(j) \/ Submit(j) \/ Refuse(j) \/ ApiDies(j)
            PROVE  UNCHANGED tx \/ \E t : tx' = [tx EXCEPT ![j] = t]
        BY <4>1 DEF Request, Submit, Refuse, ApiDies, ledger, Ledger!BeginConsume,
           Ledger!CommitConsume, Ledger!AbandonConsume, Ledger!Rollback
      <4>2. ASSUME NEW d \in Cancels, CancelOpen(d) \/ CancelCommit(d)
            PROVE  \E t : tx' = [tx EXCEPT ![d] = t]
        BY <4>2 DEF CancelOpen, CancelCommit, Ledger!BeginRelease, Ledger!CommitRelease
      <4>3. \/ UNCHANGED tx
            \/ \E j \in Jobs : Request(j) \/ Submit(j) \/ Refuse(j) \/ ApiDies(j)
            \/ \E d \in Cancels : CancelOpen(d) \/ CancelCommit(d)
        BY DEF Next, Enqueue, WorkerTake, Reconcile, WorkerDies, QueueLoses, RunStepOf, MarkGoal,
           StartAttempt, AiAnswers, AiFails, SavePlan, WriteFails, Succeed, FailGoal, FailJob,
           OnlyRun, CancelRead, ConfirmRead, ConfirmCount, ConfirmCommit, OnlyConfirm,
           SettleRead, SettleWrite, OnlySettle, AdminEnqueue, AdminRequeue, Clock, vars, ledger,
           Ledger!NextPeriod
      <4> QED
        BY <1>0, <1>2, <2>1, <4>1, <4>2, <4>3 DEF Callers
    <3> QED
      BY <1>0, <3>1 DEF Ledger!QuotaTypeOK
  <2>4. /\ tx[c].op = "release" /\ tx[c].res = cancel[c].job /\ cancel[c].job \in Jobs
        /\ ~tx[c].found => record[tx[c].res].st = "released"
    BY <2>2 DEF RefundInv, OpenCancel, CancelType
  <2> QED
    BY <2>2, <2>3, <2>4, RecordsStay
<1> QED
  BY <1>1, <1>2

\* The job's status and its usage record change in one transaction.
LEMMA CancelRefundsStep ==
  ASSUME RefundType, RefundInv, [Next]_vars PROVE CancelRefunds'
<1> SUFFICES ASSUME NEW j \in Jobs, job'[j] = "CANCELLED"
             PROVE  record'[j].st = "released"
  BY DEF CancelRefunds
<1> USE DEF RefundType, TypeInv, ServiceTypeOK
<1>1. CASE job[j] = "CANCELLED"
  BY <1>1, RecordsStay DEF RefundInv, CancelRefunds
<1>2. ASSUME NEW c \in Cancels, CancelCommit(c), job[j] # "CANCELLED"
      PROVE  record'[j].st = "released"
  <2>1. cancel[c].job = j /\ cancel[c].at = "open"
    BY <1>2 DEF CancelCommit
  <2>2. tx[c].res = j /\ (~tx[c].found => record[j].st = "released")
    BY <2>1 DEF RefundInv, OpenCancel
  <2>3. CASE tx[c].found
    <3>1. record' = [record EXCEPT ![j] = [st |-> "released", period |-> record[j].period]]
      BY <1>2, <2>2, <2>3 DEF CancelCommit, Ledger!CommitRelease
    <3> QED
      BY <3>1 DEF Ledger!QuotaTypeOK
  <2>4. CASE ~tx[c].found
    BY <2>2, <2>4, RecordsStay
  <2> QED
    BY <2>3, <2>4
<1>3. CASE job[j] # "CANCELLED" /\ \A c \in Cancels : ~CancelCommit(c)
  BY <1>3 DEF Next, Request, Submit, Refuse, Enqueue, WorkerTake, Reconcile,
     ApiDies, WorkerDies, QueueLoses, RunStepOf, MarkGoal, StartAttempt, AiAnswers, AiFails,
     SavePlan, WriteFails, Succeed, FailGoal, FailJob, CancelRead, CancelOpen, ConfirmRead,
     ConfirmCount, ConfirmCommit, OnlyConfirm, SettleRead, SettleWrite, OnlySettle,
     AdminEnqueue, AdminRequeue, Clock, vars, service
<1> QED
  BY <1>1, <1>2, <1>3

\* Every step keeps the invariant of refunds.
LEMMA RefundInvariant == Spec => []RefundInv
<1>1. Init => RefundInv
  BY DEF Init, Idle, RefundInv, RowRead, Submitted, OwnKey, Charged, OpenCancel, CancelRefunds,
     Runners, Working, Ledger!QuotaInit, Ledger!NoTx
<1>2. RefundType /\ RefundInv /\ [Next]_vars => RefundInv'
  BY RowReadStep, SubmittedStep, OwnKeyStep, ChargedStep, OpenCancelStep, CancelRefundsStep
     DEF RefundInv, RefundType
<1>3. Spec => []RefundType
  BY TypeInvariant, LedgerType, PTL DEF RefundType
<1> QED
  BY <1>1, <1>2, <1>3, PTL DEF Spec

(***************************************************************************)
(* A cancelled job has its quota back, however cancellations, runs and     *)
(* retries of the job overlap.                                             *)
(***************************************************************************)
THEOREM CancelRefundsHolds == Spec => []CancelRefunds
<1>1. RefundInv => CancelRefunds
  BY DEF RefundInv
<1> QED
  BY <1>1, RefundInvariant, PTL

(***************************************************************************)
(* Where the limits of planning are numbers, a job with a row has a usage  *)
(* record and the counters say what the records hold, but for a bucket to  *)
(* which overlapping cancellations returned one job twice.                 *)
(***************************************************************************)
PlansAreLimited == \A t \in Tiers, p \in Metered : Limit[t][p] # NoLimit

THEOREM JobsAreChargedHolds == ASSUME PlansAreLimited PROVE Spec => []JobsAreCharged
<1>1. L!Metered
  BY PlanJobsAssumption DEF L!Metered, PlansAreLimited, Metered, PlanCapability
<1>2. L!QuotaSpec => []L!LedgerExact
  BY <1>1, LedgerAssumption, L!LedgerExactHolds
<1>3. Spec => []Ledger!LedgerExact
  BY <1>2, SameLedger, LedgerInit, LedgerStep, PTL DEF Spec, L!QuotaSpec
<1>4. RefundInv /\ Ledger!LedgerExact => JobsAreCharged
  BY DEF RefundInv, Charged, JobsAreCharged
<1> QED
  BY <1>3, <1>4, RefundInvariant, PTL

(***************************************************************************)
(* A plan is activated only by the confirmation that read this very row.   *)
(***************************************************************************)
THEOREM ConfirmActivatesReviewedHolds == Spec => ConfirmActivatesReviewed
<1> DEFINE reviewed(g) == \E c \in Confirms : /\ confirm[c].at = "counted"
                                              /\ confirm[c].goal = g
                                              /\ confirm[c].id = plan'[g].id
<1>1. TypeInv /\ [Next]_vars =>
        [\A g \in Goals : plan'[g].active /\ ~plan[g].active => reviewed(g)]_vars
  <2> SUFFICES ASSUME TypeInv, Next, NEW g \in Goals, plan'[g].active, ~plan[g].active
               PROVE  reviewed(g)
    BY DEF vars, service
  <2> USE DEF TypeInv, ServiceTypeOK
  <2>1. ASSUME NEW c \in Confirms, ConfirmCommit(c) PROVE reviewed(g)
    <3>1. confirm[c].at = "counted"
      BY <2>1 DEF ConfirmCommit
    <3>2. /\ plan[confirm[c].goal].id = confirm[c].id
          /\ plan' = [plan EXCEPT ![confirm[c].goal] =
                        [id |-> plan[confirm[c].goal].id, active |-> TRUE]]
      BY <2>1 DEF ConfirmCommit
    <3>3. confirm[c].goal = g
      BY <3>2
    <3>4. plan'[g].id = confirm[c].id
      BY <3>2, <3>3
    <3> QED
      BY <3>1, <3>3, <3>4
  <2>2. ASSUME NEW r \in Runners, SavePlan(r) PROVE FALSE
    BY <2>2 DEF SavePlan
  <2>3. ASSUME UNCHANGED plan PROVE FALSE
    BY <2>3
  <2> QED
    BY <2>1, <2>2, <2>3 DEF Next, Request, Submit, Refuse, Enqueue, WorkerTake, Reconcile,
     ApiDies, WorkerDies, QueueLoses, RunStepOf, MarkGoal, StartAttempt, AiAnswers, AiFails,
     WriteFails, Succeed, FailGoal, FailJob, CancelRead, CancelOpen, CancelCommit, ConfirmRead,
     ConfirmCount, SettleRead, SettleWrite, OnlySettle, AdminEnqueue, AdminRequeue, Clock,
     service
<1> QED
  BY <1>1, TypeInvariant, PTL DEF Spec, ConfirmActivatesReviewed

-----------------------------------------------------------------------------
(***************************************************************************)
(* What holds while requests do not overlap: one at a time, without queue, *)
(* faults and retries of the administrator.  What a request read is then   *)
(* so when it writes.                                                      *)
(***************************************************************************)
Serial == MaxOpen = 1 /\ ~QueueEnabled /\ MaxFaults = 0 /\ MaxRetries = 0

Api(j) == run[<<j, "api">>].at
Busy(j) == Api(j) \notin {"idle", "done"}

\* One request is open, of any kind.
OneOpen ==
  /\ \A j, k \in Jobs : Busy(j) /\ Busy(k) => j = k
  /\ \A c, d \in Confirms : confirm[c] # Idle /\ confirm[d] # Idle => c = d
  /\ \A s, t \in Settles : settle[s] # Idle /\ settle[t] # Idle => s = t
  /\ \A j \in Jobs, c \in Confirms : ~(Busy(j) /\ confirm[c] # Idle)
  /\ \A j \in Jobs, s \in Settles : ~(Busy(j) /\ settle[s] # Idle)
  /\ \A c \in Confirms, s \in Settles : ~(confirm[c] # Idle /\ settle[s] # Idle)

\* Only requests run jobs; a job is queued while its request is open, which leaves
\* nothing to cancel.
OnlyRequests ==
  /\ \A j \in Jobs : run[<<j, "worker">>].at = "idle" /\ queue[j] = "absent"
  /\ \A c \in Cancels : cancel[c] = Idle
  /\ \A a \in Admins : admin[a] = Idle
QueuedIsBusy ==
  \A j \in Jobs : /\ job[j] = "QUEUED" => Busy(j)
                  /\ Api(j) \in {"idle", "submit"} => job[j] = "NONE"

\* What an open request may rely on.
Planned(j) ==
  LET status == goal[GoalOf[j]] IN
  /\ Api(j) = "submit" => status \in Requestable(j)
  /\ Api(j) \in {"enqueue", "mark", "try", "call", "save", "won", "lost"} =>
       status \notin Closed \cup {"ACTIVE"}
  /\ Api(j) = "mark" => Kind[j] # "replan"
HasRoom(g) == GoalLimit # NoLimit => Cardinality(InProgress \ {g}) < GoalLimit
Reviewed(c) ==
  /\ confirm[c] # Idle => goal[confirm[c].goal] = "WAITING_CONFIRMATION"
  /\ confirm[c].at = "counted" => HasRoom(confirm[c].goal)
Seen(s) == settle[s] # Idle => settle[s].seen = goal[settle[s].goal]

SerialShape == tier \in Tiers /\ OneOpen /\ OnlyRequests /\ QueuedIsBusy
SerialReads == /\ \A j \in Jobs : Planned(j)
               /\ \A c \in Confirms : Reviewed(c)
               /\ \A s \in Settles : Seen(s)
SerialInv == TypeInv /\ SerialShape /\ SerialReads /\ GoalsInProgress


\* A request opens when none is open.
LEMMA NoneOpen ==
  ASSUME Serial, CanOpen
  PROVE  /\ \A j \in Jobs : ~Busy(j)
         /\ \A c \in Confirms : confirm[c] = Idle
         /\ \A s \in Settles : settle[s] = Idle
<1> DEFINE J == {j \in Jobs : Busy(j)}
           C == {c \in Cancels : cancel[c] # Idle}
           F == {c \in Confirms : confirm[c] # Idle}
           S == {s \in Settles : settle[s] # Idle}
<1>1. IsFiniteSet(J) /\ IsFiniteSet(C) /\ IsFiniteSet(F) /\ IsFiniteSet(S)
  BY PlanJobsAssumption, FS_Subset
<1>2. OpenRequests = (J \cup C) \cup (F \cup S)
  BY DEF OpenRequests, Busy, Api
<1> HIDE DEF J, C, F, S
<1>3. IsFiniteSet(J \cup C) /\ IsFiniteSet(F \cup S)
  BY <1>1, FS_Union
<1>4. IsFiniteSet(OpenRequests)
  BY <1>2, <1>3, FS_Union
<1>5. Cardinality(OpenRequests) \in Nat /\ Cardinality(OpenRequests) < 1
  BY <1>4, FS_CardinalityType DEF CanOpen, Serial
<1>6. OpenRequests = {}
  BY <1>4, <1>5, FS_EmptySet
<1>7. J = {} /\ F = {} /\ S = {}
  BY <1>2, <1>6
<1> QED
  BY <1>7 DEF J, F, S

\* The tier is the ledger's, and no step of the service changes it.
LEMMA TierStays == [Next]_vars => tier' = tier
<1> SUFFICES ASSUME [Next]_vars PROVE tier' = tier
  OBVIOUS
<1>1. ASSUME UNCHANGED ledger PROVE tier' = tier
  BY <1>1 DEF ledger
<1>2. ASSUME NEW p, Ledger!NextPeriod(p) PROVE tier' = tier
  BY <1>2 DEF Ledger!NextPeriod
<1> QED
  BY <1>1, <1>2
     DEF Next, Request, Submit, Refuse, Enqueue, WorkerTake, Reconcile, ApiDies, WorkerDies, QueueLoses,
       RunStepOf, MarkGoal, StartAttempt, AiAnswers, AiFails, SavePlan, WriteFails, Succeed, FailGoal, FailJob,
       OnlyRun, CancelRead, CancelOpen, CancelCommit, ConfirmRead, ConfirmCount, ConfirmCommit, OnlyConfirm,
       SettleRead, SettleWrite, OnlySettle, AdminEnqueue, AdminRequeue, Clock, vars, ledger,
       Ledger!BeginConsume, Ledger!CommitConsume, Ledger!AbandonConsume, Ledger!BeginRelease,
       Ledger!CommitRelease, Ledger!Rollback

\* Only the steps of requests are left: no worker, no cancellation, no retry, no fault.
JobStep(j) == Request(j) \/ Submit(j) \/ Refuse(j) \/ Enqueue(j) \/ RunStepOf(<<j, "api">>)
LEMMA SerialNext ==
  ASSUME Serial, SerialInv, [Next]_vars
  PROVE  \/ \E j \in Jobs : JobStep(j)
         \/ \E c \in Confirms : (\E g \in Goals : ConfirmRead(c, g)) \/ ConfirmCount(c) \/ ConfirmCommit(c)
         \/ \E s \in Settles : (\E g \in Goals : SettleRead(s, g)) \/ SettleWrite(s)
         \/ UNCHANGED service
<1>0. /\ TypeInv /\ OnlyRequests /\ QueuedIsBusy
      /\ queue \in [Jobs -> QueueState] /\ faults = 0 /\ retries = 0
  BY DEF SerialInv, SerialShape, TypeInv, ServiceTypeOK, Serial
<1>1. ASSUME NEW j \in Jobs PROVE Enqueued(j) = queue
  BY <1>0 DEF Enqueued, Serial
<1>2. ASSUME NEW j \in Jobs, WorkerTake(j) \/ Reconcile(j) \/ ApiDies(j) \/ WorkerDies(j) \/ QueueLoses(j)
      PROVE  FALSE
  BY <1>0, <1>1, <1>2 DEF WorkerTake, Reconcile, ApiDies, WorkerDies, QueueLoses, OnlyRequests, Serial
<1>3. ASSUME NEW r \in Runners, RunStepOf(r) PROVE \E j \in Jobs : JobStep(j)
  <2>1. PICK j \in Jobs : r = <<j, "api">> \/ r = <<j, "worker">>
    BY DEF Runners
  <2>2. r # <<j, "worker">>
    BY <1>0, <1>3 DEF OnlyRequests, RunStepOf, MarkGoal, StartAttempt, AiAnswers, AiFails, SavePlan,
       WriteFails, Succeed, FailGoal, FailJob
  <2> QED
    BY <1>3, <2>1, <2>2 DEF JobStep
<1>4. ASSUME NEW c \in Cancels, (\E j \in Jobs : CancelRead(c, j)) \/ CancelOpen(c) \/ CancelCommit(c)
      PROVE  FALSE
  <2>1. cancel[c].at = "idle"
    BY <1>0 DEF OnlyRequests, Idle
  <2>2. ASSUME NEW j \in Jobs, CancelRead(c, j) PROVE FALSE
    BY <1>0, <2>2, NoneOpen DEF CancelRead, QueuedIsBusy
  <2> QED
    BY <1>4, <2>1, <2>2 DEF CancelOpen, CancelCommit
<1>5. ASSUME NEW a \in Admins, (\E j \in Jobs : AdminEnqueue(a, j)) \/ AdminRequeue(a) PROVE FALSE
  <2>1. admin[a].at = "idle"
    BY <1>0 DEF OnlyRequests, Idle
  <2> QED
    BY <1>0, <1>5, <2>1 DEF AdminEnqueue, AdminRequeue, Serial
<1>6. ASSUME Clock \/ UNCHANGED vars PROVE UNCHANGED service
  BY <1>6 DEF Clock, vars
<1> QED
  BY <1>2, <1>3, <1>4, <1>5, <1>6 DEF Next, JobStep

\* What a request does that plans a goal: the others are not open, and their goals stay.
JobEffect(j) ==
  /\ UNCHANGED <<queue, cancel, confirm, settle, admin>>
  /\ \A k \in Jobs \ {j} : ~Busy(k) /\ run'[<<k, "api">>] = run[<<k, "api">>] /\ job'[k] = job[k]
  /\ \A k \in Jobs : run'[<<k, "worker">>] = run[<<k, "worker">>]
  /\ \A c \in Confirms : confirm[c] = Idle
  /\ \A s \in Settles : settle[s] = Idle
  /\ \A g \in Goals \ {GoalOf[j]} : goal'[g] = goal[g] /\ plan'[g] = plan[g]
LEMMA JobEffects ==
  ASSUME Serial, SerialInv, NEW j \in Jobs, JobStep(j)
  PROVE  JobEffect(j)
<1>0. /\ run \in [Runners -> [at : RunStep, tries : 0..MaxAttempts]] /\ job \in [Jobs -> JobStatus]
      /\ goal \in [Goals -> GoalStatus] /\ plan \in [Goals -> [id : Nat, active : BOOLEAN]]
      /\ queue \in [Jobs -> QueueState] /\ GoalOf[j] \in Goals
  BY PlanJobsAssumption DEF SerialInv, TypeInv, ServiceTypeOK
<1>1. /\ \A k \in Jobs \ {j} : ~Busy(k)
      /\ \A c \in Confirms : confirm[c] = Idle
      /\ \A s \in Settles : settle[s] = Idle
  <2>1. CASE CanOpen
    BY <2>1, NoneOpen
  <2>2. CASE Busy(j)
    BY <2>2 DEF SerialInv, SerialShape, OneOpen
  <2>3. CanOpen \/ Busy(j)
    BY DEF JobStep, Request, Submit, Refuse, Enqueue, RunStepOf, MarkGoal, StartAttempt, AiAnswers, AiFails,
       SavePlan, WriteFails, Succeed, FailGoal, FailJob, Busy, Api
  <2> QED
    BY <2>1, <2>2, <2>3
<1>2. Enqueued(j) = queue
  BY <1>0 DEF Enqueued, Serial
<1>3. UNCHANGED <<queue, cancel, confirm, settle, admin>>
  BY <1>2 DEF JobStep, Request, Submit, Refuse, Enqueue, RunStepOf, MarkGoal, StartAttempt, AiAnswers, AiFails,
     SavePlan, WriteFails, Succeed, FailGoal, FailJob, OnlyRun, Finish
<1>4. \E x : run' = [run EXCEPT ![<<j, "api">>] = x]
  BY DEF JobStep, Request, Submit, Refuse, Enqueue, RunStepOf, MarkGoal, StartAttempt, AiAnswers, AiFails,
     SavePlan, WriteFails, Succeed, FailGoal, FailJob, Step, Finish
<1>5. /\ \A k \in Jobs \ {j} : run'[<<k, "api">>] = run[<<k, "api">>]
      /\ \A k \in Jobs : run'[<<k, "worker">>] = run[<<k, "worker">>]
  BY <1>0, <1>4 DEF Runners
<1>6. \A k \in Jobs \ {j} : job'[k] = job[k]
  BY <1>0 DEF JobStep, Request, Submit, Refuse, Enqueue, RunStepOf, MarkGoal, StartAttempt, AiAnswers, AiFails,
     SavePlan, WriteFails, Succeed, FailGoal, FailJob
<1>7. \A g \in Goals \ {GoalOf[j]} : goal'[g] = goal[g]
  BY <1>0 DEF JobStep, Request, Submit, SubmittedGoal, Refuse, Enqueue, RunStepOf, MarkGoal, StartAttempt,
     AiAnswers, AiFails, SavePlan, WriteFails, Succeed, FailGoal, FailJob
<1>8. \A g \in Goals \ {GoalOf[j]} : plan'[g] = plan[g]
  BY <1>0 DEF JobStep, Request, Submit, Refuse, Enqueue, RunStepOf, MarkGoal, StartAttempt,
     AiAnswers, AiFails, SavePlan, WriteFails, Succeed, FailGoal, FailJob
<1> QED
  BY <1>1, <1>3, <1>5, <1>6, <1>7, <1>8 DEF JobEffect


\* The goal of a request that plans it, with the request's next place: it is never closed,
\* and it does not come to be in progress.
PlansOn(j) ==
  LET g == GoalOf[j] IN
  /\ goal[g] \in Closed => goal'[g] = goal[g]
  /\ goal'[g] \in Executing => goal[g] \in Executing
  /\ goal'[g] = "ACTIVE" => goal[g] = "ACTIVE" /\ plan'[g] = plan[g]
  /\ job'[j] = "QUEUED" => Busy(j)'
  /\ Api(j)' = "submit" => job'[j] = "NONE"
  /\ Api(j)' # "idle"
  /\ Planned(j)'
LEMMA JobPlans ==
  ASSUME Serial, SerialInv, NEW j \in Jobs, JobStep(j)
  PROVE  PlansOn(j)
<1> DEFINE g == GoalOf[j]
           r == <<j, "api">>
<1>0. /\ run \in [Runners -> [at : RunStep, tries : 0..MaxAttempts]] /\ job \in [Jobs -> JobStatus]
      /\ goal \in [Goals -> GoalStatus] /\ plan \in [Goals -> [id : Nat, active : BOOLEAN]]
      /\ g \in Goals /\ r \in Runners /\ Api(j) = run[r].at /\ Api(j)' = run'[r].at
      /\ r[1] = j /\ r[2] = "api"
  BY PlanJobsAssumption DEF SerialInv, TypeInv, ServiceTypeOK, Runners, Api
<1>1. /\ job[j] = "QUEUED" => Busy(j)
      /\ Api(j) \in {"idle", "submit"} => job[j] = "NONE"
      /\ Planned(j)
  BY DEF SerialInv, SerialShape, QueuedIsBusy, SerialReads
<1>s. \A to : Step(r, to) => run'[r].at = to
  BY <1>0 DEF Step
<1>a. CASE Request(j)
  <2>1. Api(j)' = "submit" /\ Api(j) = "idle" /\ UNCHANGED <<goal, plan, job>> /\ goal[g] \in Requestable(j)
    BY <1>0, <1>s, <1>a DEF Request
  <2> QED
    BY <1>1, <2>1 DEF PlansOn, Planned, Busy, Requestable
<1>b. CASE Submit(j)
  <2>1. /\ Api(j)' = "enqueue" /\ Api(j) = "submit" /\ UNCHANGED plan
        /\ goal' = SubmittedGoal(j) /\ job'[j] = "QUEUED"
    BY <1>0, <1>s, <1>b DEF Submit
  <2>2. goal[g] \in Requestable(j)
    BY <1>1, <2>1 DEF Planned
  <2>3. CASE Kind[j] = "replan"
    <3>1. goal'[g] = "REPLANNING" /\ goal[g] \in Executing
      BY <1>0, <2>1, <2>2, <2>3 DEF SubmittedGoal, Requestable
    <3> QED
      BY <2>1, <3>1 DEF PlansOn, Planned, Busy, Closed, Executing
  <2>4. CASE Kind[j] # "replan"
    <3>1. goal'[g] = goal[g] /\ goal[g] \in Plannable
      BY <2>1, <2>2, <2>4 DEF SubmittedGoal, Requestable
    <3> QED
      BY <2>1, <3>1 DEF PlansOn, Planned, Busy, Closed, Executing, Plannable
  <2> QED
    BY <2>3, <2>4
<1>c. CASE Refuse(j)
  <2>1. Api(j)' = "done" /\ Api(j) = "submit" /\ UNCHANGED <<goal, plan, job>>
    BY <1>0, <1>s, <1>c DEF Refuse
  <2> QED
    BY <1>1, <2>1 DEF PlansOn, Planned
<1>d. CASE Enqueue(j)
  <2>1. /\ Api(j)' = (IF Kind[j] = "replan" THEN "try" ELSE "mark") /\ Api(j) = "enqueue"
        /\ UNCHANGED <<goal, plan, job>>
    BY <1>0, <1>s, <1>d DEF Enqueue
  <2> QED
    BY <1>1, <2>1 DEF PlansOn, Planned, Busy
<1>e. CASE MarkGoal(r)
  <2>1. Api(j)' = "try" /\ Api(j) = "mark" /\ UNCHANGED <<plan, job>>
    BY <1>0, <1>s, <1>e DEF MarkGoal
  <2>2. goal'[g] = "GENERATING_PLAN" /\ goal[g] \notin Closed
    BY <1>0, <1>1, <1>e, <2>1 DEF MarkGoal, Planned
  <2> QED
    BY <1>1, <2>1, <2>2 DEF PlansOn, Planned, Busy, Closed, Executing
<1>f. CASE StartAttempt(r)
  <2>1. run' = [run EXCEPT ![r] = [at |-> "call", tries |-> run[r].tries + 1]]
    BY <1>f DEF StartAttempt
  <2>2. Api(j)' = "call" /\ Api(j) = "try" /\ UNCHANGED <<goal, plan>>
    BY <1>0, <1>f, <2>1 DEF StartAttempt
  <2> QED
    BY <1>1, <2>2 DEF PlansOn, Planned, Busy
<1>g. CASE AiAnswers(r)
  <2>1. Api(j)' = "save" /\ Api(j) = "call" /\ UNCHANGED <<goal, plan, job>>
    BY <1>0, <1>s, <1>g DEF AiAnswers
  <2> QED
    BY <1>1, <2>1 DEF PlansOn, Planned, Busy
<1>h. CASE AiFails(r)
  <2>1. Api(j)' \in {"try", "lost"} /\ Api(j) = "call" /\ UNCHANGED <<goal, plan>>
    BY <1>0, <1>s, <1>h DEF AiFails
  <2> QED
    BY <1>1, <2>1 DEF PlansOn, Planned, Busy
<1>i. CASE SavePlan(r)
  <2>1. Api(j)' = "won" /\ Api(j) = "save" /\ UNCHANGED job
    BY <1>0, <1>s, <1>i DEF SavePlan
  <2>2. goal'[g] = "WAITING_CONFIRMATION"
    BY <1>0, <1>i DEF SavePlan
  <2> QED
    BY <1>1, <2>1, <2>2 DEF PlansOn, Planned, Busy, Closed, Executing
<1>j. CASE WriteFails(r)
  <2>1. Api(j)' = "lost" /\ Api(j) \in {"mark", "try", "save", "won"} /\ UNCHANGED <<goal, plan, job>>
    BY <1>0, <1>s, <1>j DEF WriteFails
  <2> QED
    BY <1>1, <2>1 DEF PlansOn, Planned, Busy
<1>k. CASE Succeed(r) \/ FailJob(r)
  <2>1. run' = [run EXCEPT ![r] = [at |-> "done", tries |-> 0]]
    BY <1>0, <1>k DEF Succeed, FailJob, Finish
  <2>2. Api(j)' = "done" /\ UNCHANGED <<goal, plan>>
    BY <1>0, <1>k, <2>1 DEF Succeed, FailJob
  <2>3. job'[j] \in {"SUCCEEDED", "FAILED"}
    BY <1>0, <1>k DEF Succeed, FailJob
  <2> QED
    BY <1>1, <2>2, <2>3 DEF PlansOn, Planned
<1>l. CASE FailGoal(r)
  <2>1. Api(j)' = "lostJob" /\ Api(j) = "lost" /\ UNCHANGED <<plan, job>>
    BY <1>0, <1>s, <1>l DEF FailGoal
  <2>2. goal'[g] = "GENERATION_FAILED" /\ goal[g] \notin Closed
    BY <1>0, <1>1, <1>l, <2>1 DEF FailGoal, Planned
  <2> QED
    BY <1>1, <2>1, <2>2 DEF PlansOn, Planned, Busy, Closed, Executing
<1> QED
  BY <1>a, <1>b, <1>c, <1>d, <1>e, <1>f, <1>g, <1>h, <1>i, <1>j, <1>k, <1>l DEF JobStep, RunStepOf

\* Fewer goals in progress are as many as the plan allows.
LEMMA FewerInProgress ==
  ASSUME SerialInv, tier' = tier, InProgress' \subseteq InProgress
  PROVE  ActiveGoalLimit'
<1>1. IsFiniteSet(InProgress)
  BY PlanJobsAssumption, FS_Subset DEF InProgress
<1>2. IsFiniteSet(InProgress') /\ Cardinality(InProgress') <= Cardinality(InProgress)
  BY <1>1, FS_Subset
<1>3. Cardinality(InProgress) \in Nat /\ Cardinality(InProgress') \in Nat
  BY <1>1, <1>2, FS_CardinalityType
<1>4. GoalLimit' = GoalLimit /\ GoalLimit \in Nat \cup {NoLimit}
  BY PlanJobsAssumption DEF GoalLimit, SerialInv, SerialShape
<1>5. ActiveGoalLimit
  BY DEF SerialInv, GoalsInProgress
<1> QED
  BY <1>2, <1>3, <1>4, <1>5 DEF ActiveGoalLimit

LEMMA JobSerial ==
  ASSUME Serial, SerialInv, TypeInv', tier' = tier, NEW j \in Jobs, JobStep(j)
  PROVE  SerialInv' /\ \A g \in Goals : goal[g] \in Closed => goal'[g] = goal[g]
<1>0. JobEffect(j) /\ PlansOn(j) /\ GoalOf[j] \in Goals
  BY JobEffects, JobPlans, PlanJobsAssumption
<1>1. \A k \in Jobs \ {j} : ~Busy(k) /\ ~Busy(k)' /\ Api(k)' = Api(k)
  BY <1>0 DEF JobEffect, Busy, Api
<1>2. /\ \A c \in Confirms : confirm[c] = Idle /\ confirm'[c] = Idle
      /\ \A s \in Settles : settle[s] = Idle /\ settle'[s] = Idle
  BY <1>0 DEF JobEffect
<1>3. OneOpen'
  BY <1>1, <1>2 DEF OneOpen
<1>4. OnlyRequests'
  BY <1>0 DEF JobEffect, OnlyRequests, SerialInv, SerialShape
<1>5. QueuedIsBusy'
  BY <1>0, <1>1, ZenonT(40) DEF JobEffect, PlansOn, QueuedIsBusy, SerialInv, SerialShape
<1>6. \A k \in Jobs : Planned(k)'
  BY <1>0, <1>1 DEF PlansOn, Planned, Busy
<1>7. \A c \in Confirms : Reviewed(c)'
  BY <1>2 DEF Reviewed, Idle
<1>8. \A s \in Settles : Seen(s)'
  BY <1>2 DEF Seen
<1>9. InProgress' \subseteq InProgress
  BY <1>0 DEF JobEffect, PlansOn, InProgress
<1>10. ActiveGoalLimit'
  BY <1>9, FewerInProgress
<1>11. ActivePlanConfirmed'
  BY <1>0 DEF JobEffect, PlansOn, ActivePlanConfirmed, SerialInv, GoalsInProgress
<1>12. \A g \in Goals : goal[g] \in Closed => goal'[g] = goal[g]
  BY <1>0 DEF JobEffect, PlansOn
<1>13. tier' \in Tiers
  BY DEF SerialInv, SerialShape
<1>14. SerialShape' /\ SerialReads' /\ GoalsInProgress'
  BY <1>3, <1>4, <1>5, <1>6, <1>7, <1>8, <1>10, <1>11, <1>13 DEF SerialShape, SerialReads, GoalsInProgress
<1> QED
  BY <1>12, <1>14 DEF SerialInv


\* What a confirmation and a settlement remember, by where they are.
LEMMA ConfirmIs ==
  ASSUME TypeInv, NEW c \in Confirms
  PROVE  /\ confirm[c] # Idle <=> confirm[c].at \in {"reviewed", "counted"}
         /\ confirm[c] # Idle => confirm[c].goal \in Goals
<1>1. confirm[c] \in ConfirmType
  BY DEF TypeInv, ServiceTypeOK
<1> QED
  BY <1>1 DEF ConfirmType, Idle
LEMMA SettleIs ==
  ASSUME TypeInv, NEW s \in Settles
  PROVE  /\ settle[s] # Idle <=> settle[s].at = "read"
         /\ settle[s] # Idle => settle[s].goal \in Goals
<1>1. settle[s] \in SettleType
  BY DEF TypeInv, ServiceTypeOK
<1> QED
  BY <1>1 DEF SettleType, Idle

\* While the confirmation c or the settlement s is open or opens, no other request is.
LEMMA ConfirmAlone ==
  ASSUME Serial, SerialInv, NEW c \in Confirms, CanOpen \/ confirm[c] # Idle
  PROVE  /\ \A j \in Jobs : ~Busy(j)
         /\ \A d \in Confirms \ {c} : confirm[d] = Idle
         /\ \A s \in Settles : settle[s] = Idle
BY NoneOpen DEF SerialInv, SerialShape, OneOpen
LEMMA SettleAlone ==
  ASSUME Serial, SerialInv, NEW s \in Settles, CanOpen \/ settle[s] # Idle
  PROVE  /\ \A j \in Jobs : ~Busy(j)
         /\ \A c \in Confirms : confirm[c] = Idle
         /\ \A t \in Settles \ {s} : settle[t] = Idle
BY NoneOpen DEF SerialInv, SerialShape, OneOpen

\* Jobs at rest rely on nothing, whatever becomes of the goals.
LEMMA JobsRest ==
  ASSUME SerialInv, UNCHANGED <<job, run, queue, cancel, admin>>, \A j \in Jobs : ~Busy(j)
  PROVE  /\ OnlyRequests' /\ QueuedIsBusy'
         /\ \A j \in Jobs : ~Busy(j)' /\ Planned(j)'
<1>1. OnlyRequests /\ QueuedIsBusy
  BY DEF SerialInv, SerialShape
<1>2. OnlyRequests'
  BY <1>1 DEF OnlyRequests
<1>3. \A j \in Jobs : Api(j)' = Api(j) /\ (Busy(j)' <=> Busy(j))
  BY DEF Api, Busy
<1>4. QueuedIsBusy'
  BY <1>1, <1>3 DEF QueuedIsBusy
<1>5. \A j \in Jobs : Planned(j)'
  BY <1>3 DEF Planned, Busy
<1> QED
  BY <1>2, <1>3, <1>4, <1>5

LEMMA ConfirmSerial ==
  ASSUME Serial, SerialInv, TypeInv', tier' = tier, NEW c \in Confirms,
         (\E g \in Goals : ConfirmRead(c, g)) \/ ConfirmCount(c) \/ ConfirmCommit(c)
  PROVE  SerialInv' /\ \A g \in Goals : goal[g] \in Closed => goal'[g] = goal[g]
<1> DEFINE g == confirm[c].goal
<1>0. /\ TypeInv /\ confirm \in [Confirms -> ConfirmType] /\ goal \in [Goals -> GoalStatus]
      /\ plan \in [Goals -> [id : Nat, active : BOOLEAN]] /\ tier \in Tiers /\ GoalsInProgress
  BY DEF SerialInv, SerialShape, TypeInv, ServiceTypeOK
<1>1. UNCHANGED <<job, run, queue, cancel, admin, settle>>
  BY DEF ConfirmRead, ConfirmCount, ConfirmCommit, OnlyConfirm
<1>2. CanOpen \/ confirm[c] # Idle
  BY DEF ConfirmRead, ConfirmCount, ConfirmCommit, Idle
<1>3. /\ \A j \in Jobs : ~Busy(j)
      /\ \A d \in Confirms \ {c} : confirm[d] = Idle
      /\ \A s \in Settles : settle[s] = Idle
  BY <1>2, ConfirmAlone
<1>4. \A d \in Confirms \ {c} : confirm'[d] = Idle
  <2>1. \E x : confirm' = [confirm EXCEPT ![c] = x]
    BY DEF ConfirmRead, ConfirmCount, ConfirmCommit
  <2> QED
    BY <1>0, <1>3, <2>1
<1>5. OnlyRequests' /\ QueuedIsBusy' /\ \A j \in Jobs : ~Busy(j)' /\ Planned(j)'
  BY <1>1, <1>3, JobsRest
<1>6. OneOpen'
  BY <1>1, <1>3, <1>4, <1>5 DEF OneOpen
<1>7. \A s \in Settles : Seen(s)'
  BY <1>1, <1>3 DEF Seen
<1>8. \A d \in Confirms \ {c} : Reviewed(d)'
  BY <1>4 DEF Reviewed, Idle
<1>9. Reviewed(c)
  BY DEF SerialInv, SerialReads
<1>10. ASSUME UNCHANGED <<goal, plan>>
       PROVE  GoalsInProgress' /\ InProgress' = InProgress /\ GoalLimit' = GoalLimit
  BY <1>0, <1>10 DEF GoalsInProgress, ActiveGoalLimit, ActivePlanConfirmed, InProgress, GoalLimit
<1>a. ASSUME NEW h \in Goals, ConfirmRead(c, h)
      PROVE  Reviewed(c)' /\ GoalsInProgress' /\ UNCHANGED goal
  <2>1. confirm'[c] = [at |-> "reviewed", goal |-> h, id |-> plan[h].id] /\ UNCHANGED <<goal, plan>>
        /\ goal[h] = "WAITING_CONFIRMATION"
    BY <1>0, <1>a DEF ConfirmRead
  <2>2. confirm'[c].goal = h /\ confirm'[c].at # "counted"
    BY <2>1
  <2> QED
    BY <1>10, <2>1, <2>2 DEF Reviewed
<1>b. ASSUME ConfirmCount(c)
      PROVE  Reviewed(c)' /\ GoalsInProgress' /\ UNCHANGED goal
  <2>1. UNCHANGED <<goal, plan>> /\ confirm[c] # Idle
    BY <1>b DEF ConfirmCount, Idle
  <2>2. goal[g] = "WAITING_CONFIRMATION"
    BY <1>9, <2>1 DEF Reviewed
  <2>3. CASE GoalLimit = NoLimit \/ Cardinality(InProgress \ {g}) < GoalLimit
    <3>1. confirm'[c] = [at |-> "counted", goal |-> g, id |-> confirm[c].id]
      BY <1>0, <1>b, <2>3 DEF ConfirmCount
    <3>2. confirm'[c].goal = g
      BY <3>1
    <3>3. HasRoom(g)
      BY <2>3 DEF HasRoom
    <3>4. InProgress' = InProgress /\ GoalLimit' = GoalLimit /\ GoalsInProgress'
      BY <1>10, <2>1
    <3>5. GoalLimit' # NoLimit => Cardinality(InProgress' \ {confirm'[c].goal}) < GoalLimit'
      BY <3>2, <3>3, <3>4 DEF HasRoom
    <3> QED
      BY <2>1, <2>2, <3>2, <3>4, <3>5 DEF Reviewed, HasRoom
  <2>4. CASE ~(GoalLimit = NoLimit \/ Cardinality(InProgress \ {g}) < GoalLimit)
    <3>1. confirm'[c] = Idle
      BY <1>0, <1>b, <2>4 DEF ConfirmCount
    <3>2. Reviewed(c)'
      BY <3>1 DEF Reviewed, Idle
    <3> QED
      BY <1>10, <2>1, <3>2
  <2> QED
    BY <2>3, <2>4
<1>c. ASSUME ConfirmCommit(c)
      PROVE  Reviewed(c)' /\ GoalsInProgress' /\ \A h \in Goals : goal[h] \in Closed => goal'[h] = goal[h]
  <2>1. confirm[c].at = "counted" /\ confirm'[c] = Idle /\ confirm[c] # Idle
    BY <1>0, <1>c DEF ConfirmCommit, Idle
  <2>2. Reviewed(c)'
    BY <2>1 DEF Reviewed, Idle
  <2>3. g \in Goals /\ goal[g] = "WAITING_CONFIRMATION" /\ HasRoom(g)
    BY <1>0, <1>9, <2>1, ConfirmIs DEF Reviewed
  <2>4. CASE plan[g].id = confirm[c].id
    <3>1. /\ goal' = [goal EXCEPT ![g] = "ACTIVE"]
          /\ plan' = [plan EXCEPT ![g] = [id |-> plan[g].id, active |-> TRUE]]
      BY <1>c, <2>4 DEF ConfirmCommit
    <3>2. \A h \in Goals : goal[h] \in Closed => goal'[h] = goal[h]
      BY <1>0, <2>3, <3>1 DEF Closed
    <3>3. ActivePlanConfirmed'
      BY <1>0, <2>3, <3>1 DEF GoalsInProgress, ActivePlanConfirmed
    <3>4. InProgress' = (InProgress \ {g}) \cup {g} /\ g \notin InProgress \ {g}
      BY <1>0, <2>3, <3>1 DEF InProgress, Executing
    <3>5. IsFiniteSet(InProgress \ {g})
      BY PlanJobsAssumption, FS_Subset DEF InProgress
    <3>6. /\ Cardinality(InProgress') = Cardinality(InProgress \ {g}) + 1
          /\ Cardinality(InProgress \ {g}) \in Nat
      BY <3>4, <3>5, FS_AddElement, FS_CardinalityType
    <3>7. GoalLimit' = GoalLimit /\ GoalLimit \in Nat \cup {NoLimit}
      BY <1>0, PlanJobsAssumption DEF GoalLimit
    <3>8. ActiveGoalLimit'
      BY <2>3, <3>6, <3>7 DEF HasRoom, ActiveGoalLimit
    <3> QED
      BY <2>2, <3>2, <3>3, <3>8 DEF GoalsInProgress
  <2>5. CASE plan[g].id # confirm[c].id
    <3>1. UNCHANGED <<goal, plan>>
      BY <1>c, <2>5 DEF ConfirmCommit
    <3> QED
      BY <1>10, <2>2, <3>1
  <2> QED
    BY <2>4, <2>5
<1>11. Reviewed(c)' /\ GoalsInProgress' /\ \A h \in Goals : goal[h] \in Closed => goal'[h] = goal[h]
  BY <1>a, <1>b, <1>c
<1>12. SerialShape' /\ SerialReads'
  BY <1>0, <1>5, <1>6, <1>7, <1>8, <1>11 DEF SerialShape, SerialReads
<1> QED
  BY <1>11, <1>12 DEF SerialInv

LEMMA SettleSerial ==
  ASSUME Serial, SerialInv, TypeInv', tier' = tier, NEW s \in Settles,
         (\E g \in Goals : SettleRead(s, g)) \/ SettleWrite(s)
  PROVE  SerialInv' /\ \A g \in Goals : goal[g] \in Closed => goal'[g] = goal[g]
<1> DEFINE g == settle[s].goal
<1>0. /\ TypeInv /\ settle \in [Settles -> SettleType] /\ goal \in [Goals -> GoalStatus]
      /\ tier \in Tiers /\ GoalsInProgress
  BY DEF SerialInv, SerialShape, TypeInv, ServiceTypeOK
<1>1. UNCHANGED <<job, run, queue, cancel, admin, confirm, plan>>
  BY DEF SettleRead, SettleWrite, OnlySettle
<1>2. CanOpen \/ settle[s] # Idle
  BY DEF SettleRead, SettleWrite, Idle
<1>3. /\ \A j \in Jobs : ~Busy(j)
      /\ \A c \in Confirms : confirm[c] = Idle
      /\ \A t \in Settles \ {s} : settle[t] = Idle
  BY <1>2, SettleAlone
<1>4. \A t \in Settles \ {s} : settle'[t] = Idle
  <2>1. \E x : settle' = [settle EXCEPT ![s] = x]
    BY DEF SettleRead, SettleWrite
  <2> QED
    BY <1>0, <1>3, <2>1
<1>5. OnlyRequests' /\ QueuedIsBusy' /\ \A j \in Jobs : ~Busy(j)' /\ Planned(j)'
  BY <1>1, <1>3, JobsRest
<1>6. OneOpen'
  BY <1>1, <1>3, <1>4, <1>5 DEF OneOpen
<1>7. \A t \in Settles \ {s} : Seen(t)'
  BY <1>4 DEF Seen
<1>8. \A c \in Confirms : Reviewed(c)'
  BY <1>1, <1>3 DEF Reviewed, Idle
<1>a. ASSUME NEW h \in Goals, SettleRead(s, h)
      PROVE  /\ Seen(s)' /\ InProgress' \subseteq InProgress /\ ActivePlanConfirmed'
             /\ \A k \in Goals : goal[k] \in Closed => goal'[k] = goal[k]
  <2>1. settle'[s] = [at |-> "read", goal |-> h, seen |-> goal[h]] /\ UNCHANGED goal
    BY <1>0, <1>a DEF SettleRead
  <2>2. settle'[s].goal = h /\ settle'[s].seen = goal[h]
    BY <2>1
  <2>3. Seen(s)'
    BY <2>1, <2>2 DEF Seen
  <2> QED
    BY <1>0, <1>1, <2>1, <2>3 DEF InProgress, ActivePlanConfirmed, GoalsInProgress
<1>b. ASSUME SettleWrite(s)
      PROVE  /\ Seen(s)' /\ InProgress' \subseteq InProgress /\ ActivePlanConfirmed'
             /\ \A k \in Goals : goal[k] \in Closed => goal'[k] = goal[k]
  <2>1. settle[s] # Idle /\ settle'[s] = Idle
    BY <1>0, <1>b DEF SettleWrite, Idle
  <2>2. g \in Goals /\ settle[s].seen = goal[g]
    BY <1>0, <2>1, SettleIs DEF SerialInv, SerialReads, Seen
  <2>3. PICK next \in {settle[s].seen} \cup (IF settle[s].seen \in Executing THEN Closed ELSE {}) :
          goal' = [goal EXCEPT ![g] = next]
    BY <1>b DEF SettleWrite
  <2>4. next = goal[g] \/ (goal[g] \in Executing /\ next \in Closed)
    BY <2>2, <2>3
  <2>5. \A k \in Goals : goal'[k] = goal[k] \/ (goal[k] \in Executing /\ goal'[k] \in Closed)
    BY <1>0, <2>2, <2>3, <2>4
  <2>6. Seen(s)'
    BY <2>1 DEF Seen
  <2> QED
    BY <1>0, <1>1, <2>5, <2>6 DEF InProgress, ActivePlanConfirmed, GoalsInProgress, Executing, Closed
<1>9. /\ Seen(s)' /\ InProgress' \subseteq InProgress /\ ActivePlanConfirmed'
      /\ \A k \in Goals : goal[k] \in Closed => goal'[k] = goal[k]
  BY <1>a, <1>b
<1>10. ActiveGoalLimit'
  BY <1>9, FewerInProgress
<1>11. SerialShape' /\ SerialReads' /\ GoalsInProgress'
  BY <1>0, <1>5, <1>6, <1>7, <1>8, <1>9, <1>10 DEF SerialShape, SerialReads, GoalsInProgress
<1> QED
  BY <1>9, <1>11 DEF SerialInv

LEMMA SerialInit == Init => SerialInv
<1> SUFFICES ASSUME Init PROVE SerialInv
  OBVIOUS
<1>1. TypeInv
  BY TypeInvInit
<1>2. tier \in Tiers
  BY DEF Init, Ledger!QuotaInit
<1>3. /\ \A j \in Jobs : /\ <<j, "api">> \in Runners /\ <<j, "worker">> \in Runners
                         /\ run[<<j, "api">>].at = "idle" /\ run[<<j, "worker">>].at = "idle"
      /\ \A c \in Confirms : confirm[c] = Idle
      /\ \A s \in Settles : settle[s] = Idle
  BY DEF Init, Runners
<1>4. \A j \in Jobs : Api(j) = "idle" /\ ~Busy(j)
  BY <1>3 DEF Api, Busy
<1>5. OneOpen /\ OnlyRequests /\ QueuedIsBusy
  BY <1>3, <1>4 DEF Init, OneOpen, OnlyRequests, QueuedIsBusy
<1>6. SerialReads
  BY <1>3, <1>4 DEF SerialReads, Planned, Reviewed, Seen, Idle
<1>7. InProgress = {g \in Goals : goal[g] = "ACTIVE"}
  BY DEF Init, InProgress, Executing
<1>8. ActiveGoalLimit
  BY <1>2, <1>7 DEF Init, ActiveGoalLimit, GoalLimit
<1>9. ActivePlanConfirmed
  BY DEF Init, ActivePlanConfirmed
<1> QED
  BY <1>1, <1>2, <1>5, <1>6, <1>8, <1>9 DEF SerialInv, SerialShape, GoalsInProgress

LEMMA SerialStep ==
  ASSUME Serial, SerialInv, [Next]_vars
  PROVE  SerialInv' /\ \A g \in Goals : goal[g] \in Closed => goal'[g] = goal[g]
<1>0. TypeInv' /\ tier' = tier
  BY TypeStep, TierStays DEF SerialInv
<1>1. ASSUME UNCHANGED service PROVE SerialInv' /\ \A g \in Goals : goal[g] \in Closed => goal'[g] = goal[g]
  <2>1. UNCHANGED <<goal, plan, job, run, queue, cancel, confirm, settle, admin, tier>>
    BY <1>0, <1>1 DEF service
  <2>2. SerialShape'
    BY <2>1 DEF SerialInv, SerialShape, OneOpen, OnlyRequests, QueuedIsBusy, Busy, Api
  <2>3. SerialReads'
    BY <2>1 DEF SerialInv, SerialReads, Planned, Reviewed, Seen, HasRoom, InProgress, GoalLimit, Api, Requestable
  <2>4. GoalsInProgress'
    BY <2>1 DEF SerialInv, GoalsInProgress, ActiveGoalLimit, ActivePlanConfirmed, InProgress, GoalLimit
  <2> QED
    BY <1>0, <2>1, <2>2, <2>3, <2>4 DEF SerialInv
<1> QED
  BY <1>0, <1>1, SerialNext, JobSerial, ConfirmSerial, SettleSerial

\* While requests do not overlap, no more goals are in progress than the plan allows, and
\* an active goal executes the plan its user confirmed.
THEOREM GoalsInProgressHolds ==
  ASSUME Serial PROVE Spec => []GoalsInProgress
<1>1. SerialInv => GoalsInProgress
  BY DEF SerialInv
<1>2. SerialInv /\ [Next]_vars => SerialInv'
  BY SerialStep
<1> QED
  BY <1>1, <1>2, SerialInit, PTL DEF Spec

\* While requests do not overlap, a completed or failed goal stays so.
THEOREM ClosedGoalStaysHolds ==
  ASSUME Serial PROVE Spec => ClosedGoalStays
<1>1. SerialInv /\ [Next]_vars => SerialInv'
  BY SerialStep
<1>2. SerialInv /\ [Next]_vars => [\A g \in Goals : goal[g] \in Closed => goal'[g] = goal[g]]_vars
  BY SerialStep
<1> QED
  BY <1>1, <1>2, SerialInit, PTL DEF Spec, ClosedGoalStays
=============================================================================
