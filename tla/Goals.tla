------------------------------- MODULE Goals -------------------------------
(***************************************************************************)
(* A goal while it is carried out (goals/goals.service.ts): its tasks, the *)
(* settlement and the report on a failure, health, deviations and rescue   *)
(* tasks, milestones, trend reports and the events of the growth timeline. *)
(*                                                                         *)
(* Requests of the user and of an administrator and workers run the        *)
(* methods.  A method reads rows, decides and writes by id; what it has    *)
(* read is kept in run.  In one behaviour a request is always of the kind  *)
(* that mix gives it: which kinds meet is chosen at the start.             *)
(*                                                                         *)
(* ACTIVE stands for ACTIVE, AT_RISK and REPLANNING, which the methods     *)
(* treat alike, DRAFT for the statuses before; the way to ACTIVE is module *)
(* PlanJobs, check-ins and their scores are module Checkins.  Left out:    *)
(* texts and what providers write.                                         *)
(***************************************************************************)
EXTENDS Integers, Sequences, FiniteSets

CONSTANTS
  Requests, Workers,
  Mixes,        \* which kinds of requests meet, under which value of FAILURE_REPORT_ASYNC
                \* and RESCUE_TASK_ASYNC
  FirstDay, LastDay, EndDay,  \* day 0 is a Monday in Asia/Shanghai
  Planned,      \* the days with a task of the plan
  Allowed,      \* toleranceDaysAllowed
  TrendDays,    \* the days of a report of each trend type (7 and 30 in the code)
  MaxReports,   \* trend reports that the quota allows
  Signals,      \* what check-ins say: sets of LOW_SCORE, LOW_INVESTMENT
  MaxTries,     \* attempts of a failure report and of an entry of a queue
  MaxAsks,      \* bound: how many requests of a mix are made
  MaxFaults     \* bound: crashes

Kinds == {"settle", "get", "rescue", "health", "report", "milestone", "backfill", "checkin",
          "restart", "cancel", "admin", "trend", "later"}

ASSUME GoalsAssumption ==
  /\ Requests \cap Workers = {} /\ IsFiniteSet(Requests) /\ IsFiniteSet(Planned)
  /\ Mixes \subseteq [Requests -> Kinds] \X BOOLEAN
  /\ {FirstDay, LastDay, EndDay} \cup Planned \subseteq Nat /\ FirstDay <= LastDay
  /\ Signals \subseteq SUBSET {"LOW_SCORE", "LOW_INVESTMENT"}
  /\ DOMAIN TrendDays \subseteq {"WEEKLY_TREND", "MONTHLY_TREND"}
  /\ \A t \in DOMAIN TrendDays : TrendDays[t] \in Nat \ {0}
  /\ \A n \in {Allowed, MaxTries, MaxFaults, MaxReports} : n \in Nat
  /\ MaxAsks \in [Mixes -> Nat]

Runners == Requests \cup Workers
Queues == {"ai-jobs", "reports"}
Days == FirstDay..LastDay

VARIABLES
  mix, async,  \* chosen at the start
  day,         \* today
  goal,        \* [status, used]: status and toleranceDaysUsed
  plan,        \* [Planned -> BOOLEAN]: the day's task is done
  rescue,      \* rescue tasks: a sequence of [day, done, event]
  deviation,   \* deviation events: a sequence of [day, reason]
  job,         \* AI jobs: a sequence of [type, status, tries]
  queue,       \* [Queues \X JobIds -> {"none", "waiting", "active"}]
  report,      \* there is a failure report
  milestone,   \* it is completed
  events,      \* growth events: their unique keys <<type, source>>
  snapshot,    \* [Days -> 0..100 \cup {-1}]: healthScore, -1 for no row
  artifact,    \* [Trends \X Days -> Trend]: trend reports by type and last day
  restarts,    \* goals made by restartGoal
  asked,       \* requests so far
  run,         \* [Runners -> Run]
  met,         \* what has overlapped so far, see Meeting
  faults

tasks == <<plan, rescue>>
care == <<deviation, snapshot>>
jobs == <<job, queue>>
timeline == <<milestone, events>>
vars == <<mix, async, day, goal, tasks, care, jobs, report, timeline, artifact, restarts, asked, run,
          met, faults>>
-----------------------------------------------------------------------------
Asked == UNION {1..MaxAsks[m] : m \in Mixes}
JobIds == Asked  \* a request makes one job at most
Closed == {"FAILED", "COMPLETED"}
Status == {"DRAFT", "ACTIVE"} \cup Closed
JobStatus == {"QUEUED", "RUNNING", "RETRYING", "SUCCEEDED", "FAILED", "CANCELLED"}
Active == {"QUEUED", "RUNNING", "RETRYING"}
Trends == DOMAIN TrendDays
JobType == {"FAILURE", "RESCUE", "HEALTH"} \cup Trends
Reasons == <<"LOW_SCORE", "LOW_INVESTMENT", "BROKEN_STREAK", "TASK_DELAY">>
ReasonSet == {Reasons[i] : i \in 1..4}
Jobs == {"failureJob", "rescueJob", "healthJob", "trendJob", "otherJob"}
Step == {"idle", "goal", "tasks", "settle", "exists", "find", "create", "attach", "compose",
         "write", "record", "recorded", "get", "owner", "attempt", "retry", "fail", "succeed",
         "context", "existing", "deviation", "deviate", "running", "persist", "snapshot",
         "complete", "events", "restart", "cancel", "requeue", "requeued",
         "range", "previous", "publish"}
Task == ({"plan"} \X Planned) \cup ({"rescue"} \X (Nat \ {0}))
NoTask == <<"none", 0>>
Event == ({"GOAL_FAILED", "GOAL_COMPLETED", "MILESTONE_REACHED"} \X {0})
         \cup ({"TASK_COMPLETED", "RESCUE_TASK_CREATED", "RESCUE_TASK_COMPLETED"} \X Task)
         \cup ({"DEVIATION_DETECTED"} \X (Nat \ {0})) \cup ({"REPORT_GENERATED"} \X (Trends \X Days))

\* averageHealthScore of the days of a report and of as many days before, -1 for none.
NoHealth == -1
Trend == [average : NoHealth..100, previous : NoHealth..100]
NoTrend == [average |-> NoHealth, previous |-> NoHealth]
Absent == [average |-> -2, previous |-> -2]

\* What a runner remembers; what is not in use is as in Idle.
Idle == [at |-> "idle", does |-> "none", job |-> 0, status |-> "DRAFT", count |-> 0, day |-> FirstDay,
         reason |-> "NONE", found |-> 0, event |-> 0, task |-> NoTask, kind |-> "none",
         trend |-> NoTrend, todo |-> <<>>]
Run == [at : Step, does : Kinds \cup Jobs \cup {"none"}, job : {0} \cup Asked, status : Status,
        count : Nat, day : Days, reason : ReasonSet \cup {"NONE"}, found : Nat, event : Nat,
        task : Task \cup {NoTask}, kind : Trends \cup {"none"}, trend : Trend, todo : Seq(SUBSET Event)]
Areas == {"settlement", "deviation", "rescue", "timeline", "job", "trend"}

TypeOK ==
  /\ <<mix, async>> \in Mixes
  /\ day \in Days
  /\ goal \in [status : Status, used : Nat]
  /\ plan \in [Planned -> BOOLEAN]
  /\ rescue \in Seq([day : Days, done : BOOLEAN, event : 0..Len(deviation)])
  /\ deviation \in Seq([day : Days, reason : ReasonSet])
  /\ job \in Seq([type : JobType, status : JobStatus, tries : Nat]) /\ DOMAIN job \subseteq JobIds
  /\ queue \in [Queues \X JobIds -> {"none", "waiting", "active"}]
  /\ \A q \in Queues, j \in JobIds : queue[<<q, j>>] # "none" => j \in DOMAIN job
  /\ report \in BOOLEAN /\ milestone \in BOOLEAN
  /\ events \subseteq Event
  /\ snapshot \in [Days -> NoHealth..100]
  /\ artifact \in [Trends \X Days -> Trend \cup {Absent}]
  /\ asked \in {0} \cup Asked /\ restarts \in Nat
  /\ run \in [Runners -> Run]
  /\ met \subseteq Areas
  /\ faults \in 0..MaxFaults

Init ==
  /\ \E m \in Mixes : mix = m[1] /\ async = m[2]
  /\ day = FirstDay
  /\ goal = [status |-> "DRAFT", used |-> 0]
  /\ plan = [d \in Planned |-> FALSE]
  /\ rescue = <<>> /\ deviation = <<>> /\ job = <<>>
  /\ queue = [e \in Queues \X JobIds |-> "none"]
  /\ report = FALSE /\ milestone = FALSE /\ events = {}
  /\ snapshot = [d \in Days |-> NoHealth]
  /\ artifact = [p \in Trends \X Days |-> Absent]
  /\ restarts = 0 /\ asked = 0
  /\ run = [r \in Runners |-> Idle]
  /\ met = {} /\ faults = 0
-----------------------------------------------------------------------------
(* Tasks, deviation and health.                                             *)

Lesser(a, b) == IF a < b THEN a ELSE b
Greatest(S) == IF S = {} THEN 0 ELSE CHOOSE n \in S : \A m \in S : m <= n

Tasks == {<<"plan", d>> : d \in Planned} \cup {<<"rescue", i>> : i \in DOMAIN rescue}
DateOf(t) == IF t[1] = "plan" THEN t[2] ELSE rescue[t[2]].day
IsTaskCompleted(t) == IF t[1] = "plan" THEN plan[t[2]] ELSE rescue[t[2]].done
On(S) == {t \in Tasks : DateOf(t) \in S}

\* Days with tasks of which none is completed, those to come included.
MissedTaskDays ==
  {d \in {DateOf(t) : t \in Tasks} : \A t \in On({d}) : ~IsTaskCompleted(t)}

\* Mutant of CompletionRate: the share of what is still open.
OpenRate(T) ==
  IF T = {} THEN 0
  ELSE (200 * Cardinality({t \in T : ~IsTaskCompleted(t)}) + Cardinality(T)) \div (2 * Cardinality(T))

\* In per cent, rounded.
CompletionRate(T) ==
  IF T = {} THEN 0
  ELSE (200 * Cardinality({t \in T : IsTaskCompleted(t)}) + Cardinality(T)) \div (2 * Cardinality(T))

\* Days up to d without a gap on each of which something was completed.
StreakDays(d) ==
  Cardinality({e \in 0..d : \A f \in e..d : \E t \in On({f}) : IsTaskCompleted(t)})

\* The week is taken in UTC from Shanghai's midnight, the day before there.
WeekRange(d) ==
  LET utc == d % 7
      start == d + (IF utc = 0 THEN -6 ELSE 1 - utc)
  IN start..(start + 6)

Overdue(d) == {t \in Tasks : DateOf(t) < d /\ ~IsTaskCompleted(t)}

\* The reasons of a deviation on the day d.
DeviationReasons(d, low) ==
  low
  \cup (IF StreakDays(d) = 0 /\ (On({d}) # {} \/ \E t \in Tasks : IsTaskCompleted(t))
        THEN {"BROKEN_STREAK"} ELSE {})
  \cup (IF Overdue(d) # {} THEN {"TASK_DELAY"} ELSE {})

PrimaryReason(d, low) ==
  LET reasons == DeviationReasons(d, low) IN
  IF reasons = {} THEN "NONE"
  ELSE Reasons[CHOOSE i \in 1..4 : /\ Reasons[i] \in reasons
                                   /\ \A k \in 1..(i - 1) : Reasons[k] \notin reasons]

Tolerance == IF goal.used < Allowed THEN Allowed - goal.used ELSE 0

RiskCount(d, low) ==
  Cardinality({n \in 1..4 : \/ n = 1 /\ CompletionRate(On(WeekRange(d))) < 60
                            \/ n = 2 /\ StreakDays(d) = 0
                            \/ n = 3 /\ "LOW_SCORE" \in low
                            \/ n = 4 /\ Tolerance <= 1})
  + Cardinality(DeviationReasons(d, low) \cap {"LOW_INVESTMENT", "TASK_DELAY"})

\* In hundredths; an average score of 50 stands for a low one.
HealthPoints(d, low) ==
  2000 + 22 * CompletionRate(On({d})) + 28 * CompletionRate(On(WeekRange(d)))
  + 100 * Lesser(15, 3 * StreakDays(d))
  + 25 * (IF "LOW_SCORE" \in low THEN 50 ELSE 70)
  + 100 * Lesser(10, 2 * Tolerance) - 600 * RiskCount(d, low)

HealthScore(d, low) ==
  LET score == (HealthPoints(d, low) + 50) \div 100
  IN IF score < 0 THEN 0 ELSE Lesser(100, score)
-----------------------------------------------------------------------------
(* How runners move.                                                        *)

\* What two methods that overlap can spoil.
Meeting(x, y) ==
  LET both == {x, y} IN
  {a \in Areas :
     \/ a = "settlement" /\ both \subseteq {"settle", "get"}
     \/ a = "deviation" /\ both \subseteq {"rescue", "rescueJob", "health", "healthJob"}
     \/ a = "rescue" /\ both \subseteq {"rescueJob"} \cup (IF async THEN {} ELSE {"rescue"})
     \/ a = "timeline" /\ both = {"milestone", "backfill"}
     \/ a = "trend" /\ both \subseteq {"trend", "trendJob", "health", "healthJob"}
                    /\ both \cap {"trend", "trendJob"} # {}
     \/ a = "job" /\ both \cap {"cancel", "admin"} # {} /\ both \subseteq {"cancel", "admin"} \cup Jobs}

Busy == {r \in Runners : run[r].at # "idle"}

\* The runner r begins a method with what it has read first.
Begins(r, first) ==
  /\ run[r].at = "idle"
  /\ run' = [run EXCEPT ![r] = first]
  /\ met' = met \cup UNION {Meeting(first.does, run[q].does) : q \in Busy \ {r}}

\* A request of its kind.
Asks(r, kind, first) ==
  /\ r \in Requests /\ mix[r] = kind /\ asked < MaxAsks[<<mix, async>>]
  /\ asked' = asked + 1
  /\ Begins(r, [first EXCEPT !.does = kind])
  /\ UNCHANGED <<mix, async, day, goal, tasks, care, jobs, report, timeline, artifact, restarts, faults>>

At(r, at) == run[r].at = at
Goes(r, to) == run' = [run EXCEPT ![r] = [@ EXCEPT !.at = to]] /\ UNCHANGED met
Keeps(r, next) == run' = [run EXCEPT ![r] = next] /\ UNCHANGED met

\* The method returns; the entry a worker serves is through or, after an error,
\* may be tried again.
Ends(r, entry) ==
  /\ run' = [run EXCEPT ![r] = Idle]
  /\ UNCHANGED met
  /\ IF r \in Workers
     THEN LET q == IF run[r].does \in {"healthJob", "trendJob"} THEN "reports" ELSE "ai-jobs" IN
          \E e \in entry : queue' = [queue EXCEPT ![<<q, run[r].job>>] = e]
     ELSE UNCHANGED queue
Returns(r) == Ends(r, {"none"})
Throws(r) ==
  Ends(r, {"none"} \cup (IF r \in Workers /\ job[run[r].job].tries < MaxTries THEN {"waiting"} ELSE {}))

Unchanged(r) == UNCHANGED <<mix, async, day, artifact, restarts, asked, faults>>

\* QueueService.enqueue: the entry's id is the job's; one that is through is none.
Enqueued(q, j) == [queue EXCEPT ![<<q, j>>] = IF @ = "none" THEN "waiting" ELSE @]
QueueOf(j) == IF job[j].type \in {"HEALTH"} \cup Trends THEN "reports" ELSE "ai-jobs"

JobBecomes(j, s) == job' = [job EXCEPT ![j] = [type |-> @.type, status |-> s, tries |-> @.tries]]
-----------------------------------------------------------------------------
(* settleGoal and getFailureReport.                                         *)

SettleRead(r) ==
  /\ Asks(r, "settle", [Idle EXCEPT !.at = "tasks", !.status = goal.status])

\* getFailureReport of a goal that has not failed settles it: it is read again.
SettleAgain(r) ==
  /\ At(r, "goal")
  /\ Keeps(r, [run[r] EXCEPT !.at = "tasks", !.status = goal.status])
  /\ Unchanged(r) /\ UNCHANGED <<goal, tasks, care, jobs, report, timeline>>

SettleTasks(r) ==
  /\ At(r, "tasks")
  /\ Keeps(r, [run[r] EXCEPT !.at = "settle", !.count = Cardinality(MissedTaskDays), !.day = day])
  /\ Unchanged(r) /\ UNCHANGED <<goal, tasks, care, jobs, report, timeline>>

Settled(status, missed, today) ==
  IF status # "ACTIVE" THEN status
  ELSE IF missed > Allowed THEN "FAILED" ELSE IF today >= EndDay THEN "COMPLETED" ELSE status

GrowthEvent(status) ==
  IF status = "FAILED" THEN {<<"GOAL_FAILED", 0>>}
  ELSE IF status = "COMPLETED" THEN {<<"GOAL_COMPLETED", 0>>} ELSE {}

\* Mutant of SettleWrite: the event is recorded for a goal that is closed by it.
SettleWriteUnrecorded(r) ==
  /\ At(r, "settle")
  /\ LET next == Settled(run[r].status, run[r].count, run[r].day) IN
     /\ goal' = [status |-> next, used |-> run[r].count]
     /\ events' = events \cup (IF next = "COMPLETED" THEN GrowthEvent(next) ELSE {})
     /\ IF next = "FAILED" THEN Goes(r, "exists") /\ UNCHANGED queue ELSE Returns(r)
  /\ Unchanged(r) /\ UNCHANGED <<tasks, care, job, report, milestone>>

\* The status that follows from what was read and the days used, with the event.
SettleWrite(r) ==
  /\ At(r, "settle")
  /\ LET next == Settled(run[r].status, run[r].count, run[r].day) IN
     /\ goal' = [status |-> next, used |-> run[r].count]
     /\ events' = events \cup GrowthEvent(next)
     /\ IF next = "FAILED" THEN Goes(r, "exists") /\ UNCHANGED queue ELSE Returns(r)
  /\ Unchanged(r) /\ UNCHANGED <<tasks, care, job, report, milestone>>

\* Mutant of ReportExists: with the queue, a report is left to the job that made it.
ReportExistsOrNone(r) ==
  /\ At(r, "exists")
  /\ IF async THEN Returns(r) ELSE Goes(r, "compose") /\ UNCHANGED queue
  /\ Unchanged(r) /\ UNCHANGED <<goal, tasks, care, job, report, timeline>>

ReportExists(r) ==
  /\ At(r, "exists")
  /\ Goes(r, IF async /\ ~report THEN "find" ELSE "compose")
  /\ Unchanged(r) /\ UNCHANGED <<goal, tasks, care, jobs, report, timeline>>

ActiveReportJobs == {j \in DOMAIN job : job[j].type = "FAILURE" /\ job[j].status \in Active}

\* enqueueFailureReportGeneration: a job that is not through is used again.
FindReportJob(r) ==
  /\ At(r, "find")
  /\ IF ActiveReportJobs # {} THEN Returns(r) ELSE Goes(r, "create") /\ UNCHANGED queue
  /\ Unchanged(r) /\ UNCHANGED <<goal, tasks, care, job, report, timeline>>

JobTypeOf(r) ==
  CASE run[r].does = "rescue" -> "RESCUE" [] run[r].does = "report" -> "HEALTH"
    [] run[r].does = "later" -> run[r].kind [] OTHER -> "FAILURE"

\* A job is persisted ...
CreateJob(r) ==
  /\ At(r, "create")
  /\ job' = Append(job, [type |-> JobTypeOf(r), status |-> "QUEUED", tries |-> 0])
  /\ Keeps(r, [run[r] EXCEPT !.at = "attach", !.job = Len(job) + 1])
  /\ Unchanged(r) /\ UNCHANGED <<goal, tasks, care, queue, report, timeline>>

\* ... and handed to the queue, which may refuse or lose it.
Attach(r) ==
  /\ At(r, "attach")
  /\ queue' \in {queue, Enqueued(QueueOf(run[r].job), run[r].job)}
  /\ Keeps(r, Idle)
  /\ Unchanged(r) /\ UNCHANGED <<goal, tasks, care, job, report, timeline>>

\* upsertFailureReport: looks for the report ...
ReportRead(r) ==
  /\ At(r, "compose")
  /\ Keeps(r, [run[r] EXCEPT !.at = "write", !.found = IF report THEN 1 ELSE 0])
  /\ Unchanged(r) /\ UNCHANGED <<goal, tasks, care, jobs, report, timeline>>

\* ... and updates it, or creates it, which fails when there is one by then.
ReportWrite(r) ==
  /\ At(r, "write")
  /\ IF run[r].found = 0 /\ report
     THEN /\ IF run[r].does = "failureJob" THEN Goes(r, "retry") /\ UNCHANGED queue ELSE Returns(r)
          /\ UNCHANGED report
     ELSE /\ report' = TRUE /\ UNCHANGED queue
          /\ Goes(r, IF run[r].does = "failureJob" THEN "succeed" ELSE "record")
  /\ Unchanged(r) /\ UNCHANGED <<goal, tasks, care, job, timeline>>

\* recordSucceededFailureReportJob: the job of an earlier report is updated.
RecordRead(r) ==
  /\ At(r, "record")
  /\ Keeps(r, [run[r] EXCEPT !.at = "recorded", !.found =
       Greatest({j \in DOMAIN job : job[j].type = "FAILURE" /\ job[j].status = "SUCCEEDED"})])
  /\ Unchanged(r) /\ UNCHANGED <<goal, tasks, care, jobs, report, timeline>>

RecordWrite(r) ==
  /\ At(r, "recorded")
  /\ LET done == [type |-> IF run[r].does = "rescue" THEN "RESCUE" ELSE "FAILURE",
                  status |-> "SUCCEEDED", tries |-> 1] IN
     job' = IF run[r].found = 0 THEN Append(job, done) ELSE [job EXCEPT ![run[r].found] = done]
  /\ Returns(r)
  /\ Unchanged(r) /\ UNCHANGED <<goal, tasks, care, report, timeline>>

GetRead(r) ==
  /\ Asks(r, "get", [Idle EXCEPT !.at = "get", !.status = goal.status])

GetReport(r) ==
  /\ At(r, "get")
  /\ IF report \/ (run[r].status = "FAILED" /\ async) THEN Returns(r)
     ELSE Goes(r, IF run[r].status = "FAILED" THEN "compose" ELSE "goal") /\ UNCHANGED queue
  /\ Unchanged(r) /\ UNCHANGED <<goal, tasks, care, job, report, timeline>>

\* restartGoal.
RestartRead(r) ==
  /\ goal.status = "FAILED"
  /\ Asks(r, "restart", [Idle EXCEPT !.at = "restart"])

RestartCreate(r) ==
  /\ At(r, "restart")
  /\ restarts' = restarts + 1
  /\ Returns(r)
  /\ UNCHANGED <<mix, async, day, asked, faults, goal, tasks, care, job, report, timeline, artifact>>
-----------------------------------------------------------------------------
(* What workers take.                                                       *)

\* What an entry of a queue makes a worker do, and where it begins.
Does(q, j) ==
  IF q = "reports" THEN (IF job[j].type = "HEALTH" THEN "healthJob" ELSE "trendJob")
  ELSE CASE job[j].type = "FAILURE" -> "failureJob"
         [] job[j].type = "RESCUE" -> "rescueJob" [] OTHER -> "otherJob"
KindOf(j) == IF job[j].type \in Trends THEN job[j].type ELSE "none"
FirstStep(q, j) ==
  CASE Does(q, j) = "failureJob" -> "owner" [] Does(q, j) = "rescueJob" -> "context"
    [] Does(q, j) \in {"healthJob", "trendJob"} -> "running" [] OTHER -> "fail"

\* Mutant of WorkerTakes: the status of the job is not looked at.
WorkerTakesAny(w, q, j) ==
  /\ w \in Workers /\ queue[<<q, j>>] = "waiting"
  /\ Begins(w, [Idle EXCEPT !.at = FirstStep(q, j), !.does = Does(q, j), !.job = j,
                            !.count = job[j].tries, !.kind = KindOf(j)])
  /\ queue' = [queue EXCEPT ![<<q, j>>] = "active"]
  /\ Unchanged(w) /\ UNCHANGED <<goal, tasks, care, job, report, timeline>>

\* A worker reads the job of an entry: what is not QUEUED is through; the queue
\* of the reports runs whatever is not CANCELLED.
WorkerTakes(w, q, j) ==
  /\ w \in Workers /\ queue[<<q, j>>] = "waiting"
  /\ IF IF q = "reports" THEN job[j].status # "CANCELLED" ELSE job[j].status = "QUEUED"
     THEN /\ Begins(w, [Idle EXCEPT !.at = FirstStep(q, j), !.does = Does(q, j), !.job = j,
                                   !.count = job[j].tries, !.kind = KindOf(j)])
          /\ queue' = [queue EXCEPT ![<<q, j>>] = "active"]
     ELSE /\ run[w].at = "idle"
          /\ \E e \in IF q = "reports" THEN {"waiting", "none"} ELSE {"none"} :
               queue' = [queue EXCEPT ![<<q, j>>] = e]
          /\ UNCHANGED <<run, met>>
  /\ Unchanged(w) /\ UNCHANGED <<goal, tasks, care, job, report, timeline>>

\* processQueuedFailureReportJob.
FailureOwner(w) ==
  /\ At(w, "owner")
  /\ Goes(w, IF goal.status = "FAILED" THEN "attempt" ELSE "fail")
  /\ Unchanged(w) /\ UNCHANGED <<goal, tasks, care, jobs, report, timeline>>

FailureAttempt(w) ==
  /\ At(w, "attempt")
  /\ IF run[w].count < MaxTries
     THEN LET tries == job[run[w].job].tries + 1 IN
          /\ job' = [job EXCEPT ![run[w].job] = [type |-> @.type, status |-> "RUNNING", tries |-> tries]]
          /\ Keeps(w, [run[w] EXCEPT !.at = "compose", !.count = tries])
     ELSE Goes(w, "fail") /\ UNCHANGED job
  /\ Unchanged(w) /\ UNCHANGED <<goal, tasks, care, queue, report, timeline>>

\* The tasks cannot be read, or the report not written.
FailureFails(w) ==
  /\ At(w, "compose") /\ run[w].does = "failureJob"
  /\ Goes(w, "retry")
  /\ Unchanged(w) /\ UNCHANGED <<goal, tasks, care, jobs, report, timeline>>

FailureRetry(w) ==
  /\ At(w, "retry")
  /\ IF run[w].count >= MaxTries
     THEN JobBecomes(run[w].job, "FAILED") /\ Returns(w)
     ELSE JobBecomes(run[w].job, "RETRYING") /\ Goes(w, "attempt") /\ UNCHANGED queue
  /\ Unchanged(w) /\ UNCHANGED <<goal, tasks, care, report, timeline>>

JobFails(w) ==
  /\ At(w, "fail")
  /\ JobBecomes(run[w].job, "FAILED")
  /\ IF run[w].does \in {"healthJob", "trendJob"} THEN Throws(w) ELSE Returns(w)
  /\ Unchanged(w) /\ UNCHANGED <<goal, tasks, care, report, timeline>>

JobSucceeds(w) ==
  /\ At(w, "succeed")
  /\ JobBecomes(run[w].job, "SUCCEEDED")
  /\ Returns(w)
  /\ Unchanged(w) /\ UNCHANGED <<goal, tasks, care, report, timeline>>

\* RUNNING, with one attempt more.
JobRuns(w) ==
  /\ At(w, "running")
  /\ job' = [job EXCEPT ![run[w].job] = [type |-> @.type, status |-> "RUNNING", tries |-> @.tries + 1]]
  /\ Goes(w, CASE run[w].does = "healthJob" -> "context" [] run[w].does = "trendJob" -> "range"
                [] OTHER -> "persist")
  /\ Unchanged(w) /\ UNCHANGED <<goal, tasks, care, queue, report, timeline>>

\* What a job of rescue, health or a trend does fails in the database, or its transaction
\* lasts too long.
CareFails(w) ==
  /\ w \in Workers /\ run[w].at \in {"context", "deviate", "persist", "snapshot", "range", "publish"}
  /\ Goes(w, "fail")
  /\ Unchanged(w) /\ UNCHANGED <<goal, tasks, care, jobs, report, timeline>>
-----------------------------------------------------------------------------
(* Health and rescue: getGoalHealth, generateRescueTask and their jobs.     *)

Rescues(r) == run[r].does \in {"rescue", "rescueJob"}

\* getRescueTaskGenerationContext, getGoalHealthContext: goal and tasks.
Context(r) ==
  /\ At(r, "context")
  /\ IF Rescues(r) /\ goal.status # "ACTIVE"
     THEN IF r \in Workers THEN Goes(r, "fail") /\ UNCHANGED queue ELSE Returns(r)
     ELSE /\ \E low \in Signals :
               Keeps(r, [run[r] EXCEPT !.at = IF Rescues(r) THEN "existing" ELSE "deviation",
                           !.day = day, !.reason = PrimaryReason(day, low),
                           !.count = IF Rescues(r) THEN 0 ELSE HealthScore(day, low)])
          /\ UNCHANGED queue
  /\ Unchanged(r) /\ UNCHANGED <<goal, tasks, care, job, report, timeline>>

RescueAsked(r) == Asks(r, "rescue", [Idle EXCEPT !.at = "context"])
HealthAsked(r) == Asks(r, "health", [Idle EXCEPT !.at = "context"])
ReportAsked(r) == Asks(r, "report", [Idle EXCEPT !.at = "create"])

\* What follows the deviation.
Onward(r) == IF ~Rescues(r) THEN "snapshot"
             ELSE IF run[r].does = "rescueJob" THEN "running" ELSE IF async THEN "create" ELSE "persist"

Pending(d) == {i \in DOMAIN rescue : rescue[i].day = d /\ ~rescue[i].done}

\* Mutant of ExistingRescue: a task counts only with its deviation.
ExistingRescueLinked(r) ==
  /\ At(r, "existing")
  /\ LET i == Greatest({k \in Pending(run[r].day) : rescue[k].event # 0})
         event == IF i = 0 THEN 0 ELSE rescue[i].event
     IN Keeps(r, [run[r] EXCEPT !.at = IF event # 0 THEN Onward(r) ELSE "deviation",
                    !.found = i, !.event = event])
  /\ Unchanged(r) /\ UNCHANGED <<goal, tasks, care, jobs, report, timeline>>

\* The latest rescue task of the day that is open, with its deviation.
ExistingRescue(r) ==
  /\ At(r, "existing")
  /\ LET i == Greatest(Pending(run[r].day))
         event == IF i = 0 THEN 0 ELSE rescue[i].event
     IN Keeps(r, [run[r] EXCEPT !.at = IF event # 0 THEN Onward(r) ELSE "deviation",
                    !.found = i, !.event = event])
  /\ Unchanged(r) /\ UNCHANGED <<goal, tasks, care, jobs, report, timeline>>

\* persistDeviationEvent: the day's event of the same primary reason ...
FindDeviation(r) ==
  /\ At(r, "deviation")
  /\ IF run[r].reason = "NONE" THEN Goes(r, Onward(r))
     ELSE Keeps(r, [run[r] EXCEPT !.at = "deviate", !.event =
            Greatest({e \in DOMAIN deviation :
                        deviation[e] = [day |-> run[r].day, reason |-> run[r].reason]})])
  /\ Unchanged(r) /\ UNCHANGED <<goal, tasks, care, jobs, report, timeline>>

\* ... is updated, or one is created; either is detected now.
WriteDeviation(r) ==
  /\ At(r, "deviate")
  /\ LET row == [day |-> day, reason |-> run[r].reason]
         e == IF run[r].event = 0 THEN Len(deviation) + 1 ELSE run[r].event
     IN /\ deviation' = IF e > Len(deviation) THEN Append(deviation, row)
                        ELSE [deviation EXCEPT ![e] = row]
        /\ Keeps(r, [run[r] EXCEPT !.at = Onward(r), !.event = e])
        /\ events' = events \cup {<<"DEVIATION_DETECTED", e>>}
  /\ Unchanged(r) /\ UNCHANGED <<goal, tasks, snapshot, jobs, report, milestone>>

\* persistRescueTaskFromContext: the task that was found, or a new one.
PersistRescue(r) ==
  /\ At(r, "persist")
  /\ LET i == run[r].found IN
     rescue' = IF i = 0 THEN Append(rescue, [day |-> run[r].day, done |-> FALSE, event |-> run[r].event])
               ELSE IF rescue[i].event # 0 THEN rescue
               ELSE [rescue EXCEPT ![i] = [day |-> @.day, done |-> @.done, event |-> run[r].event]]
  /\ events' = events \cup
       {<<"RESCUE_TASK_CREATED", <<"rescue", IF run[r].found = 0 THEN Len(rescue) + 1 ELSE run[r].found>>>>}
  /\ Keeps(r, [run[r] EXCEPT !.at = IF r \in Workers THEN "succeed" ELSE "recorded", !.found = 0])
  /\ Unchanged(r) /\ UNCHANGED <<goal, plan, care, jobs, report, milestone>>

\* upsertHealthSnapshot: one row for a day.
WriteSnapshot(r) ==
  /\ At(r, "snapshot")
  /\ snapshot' = [snapshot EXCEPT ![run[r].day] = run[r].count]
  /\ IF r \in Workers THEN Goes(r, "succeed") /\ UNCHANGED queue ELSE Returns(r)
  /\ Unchanged(r) /\ UNCHANGED <<goal, tasks, deviation, job, report, timeline>>
-----------------------------------------------------------------------------
(* Trend reports: generateGoalReportArtifact and the jobs of the queue.      *)

\* The average of the snapshots there are of the days from..to, rounded.
Average(from, to) ==
  LET rows == {d \in Days \cap from..to : snapshot[d] # NoHealth}
      total == Cardinality({p \in rows \X (1..100) : p[2] <= snapshot[p[1]]})
  IN IF rows = {} THEN NoHealth
     ELSE (2 * total + Cardinality(rows)) \div (2 * Cardinality(rows))

\* buildHealthTrendReport: the days up to the last one ...
TrendAverage(kind, last) == Average(last - TrendDays[kind] + 1, last)
\* Mutant of TrendPrevious: it includes the first day of the report.
TrendPreviousClosed(kind, last) == Average(last - 2 * TrendDays[kind] + 1, last - TrendDays[kind] + 1)
\* ... and as many before them.
TrendPrevious(kind, last) == Average(last - 2 * TrendDays[kind] + 1, last - TrendDays[kind])

\* scoreDelta and trendDirection of a report.
Direction(trend) ==
  IF NoHealth \in {trend.average, trend.previous} THEN "no_data"
  ELSE IF trend.average - trend.previous >= 5 THEN "up"
  ELSE IF trend.average - trend.previous <= -5 THEN "down" ELSE "flat"

\* A report up to a day that is given, or to today.
TrendAsked(r) ==
  \E kind \in Trends, last \in Days :
    Asks(r, "trend", [Idle EXCEPT !.at = "previous", !.kind = kind, !.day = last,
                        !.trend = [average |-> TrendAverage(kind, last), previous |-> NoHealth]])

\* enqueueGoalReport without a date.
TrendQueued(r) == \E kind \in Trends : Asks(r, "later", [Idle EXCEPT !.at = "create", !.kind = kind])

\* The job's report goes up to the day on which it is run.
TrendRead(w) ==
  /\ At(w, "range")
  /\ Keeps(w, [run[w] EXCEPT !.at = "previous", !.day = day,
                 !.trend = [average |-> TrendAverage(run[w].kind, day), previous |-> NoHealth]])
  /\ Unchanged(w) /\ UNCHANGED <<goal, tasks, care, jobs, report, timeline>>

TrendReadPrevious(r) ==
  /\ At(r, "previous")
  /\ Keeps(r, [run[r] EXCEPT !.at = "publish",
                 !.trend = [average |-> @.average, previous |-> TrendPrevious(run[r].kind, run[r].day)]])
  /\ Unchanged(r) /\ UNCHANGED <<goal, tasks, care, jobs, report, timeline>>

Published == {p \in Trends \X Days : artifact[p] # Absent}

\* persistHealthTrendArtifact with its charge: the first report of a period is charged,
\* a later one of the same period takes its place.
TrendWrite(r) ==
  /\ At(r, "publish")
  /\ LET period == <<run[r].kind, run[r].day>> IN
     IF period \in Published \/ Cardinality(Published) < MaxReports
     THEN /\ artifact' = [artifact EXCEPT ![period] = run[r].trend]
          /\ events' = events \cup {<<"REPORT_GENERATED", period>>}
          /\ IF r \in Workers THEN Goes(r, "succeed") /\ UNCHANGED queue ELSE Returns(r)
     ELSE /\ UNCHANGED <<artifact, events>>
          /\ IF r \in Workers THEN Goes(r, "fail") /\ UNCHANGED queue ELSE Returns(r)
  /\ UNCHANGED <<mix, async, day, restarts, asked, faults, goal, tasks, care, job, report, milestone>>
-----------------------------------------------------------------------------
(* Milestones, the timeline, check-ins.                                     *)

\* setMilestoneCompletion: nothing is written when nothing changes.
MilestoneRead(r) ==
  Asks(r, "milestone", [Idle EXCEPT !.at = "complete", !.found = IF milestone THEN 0 ELSE 1])

MilestoneReached == {<<"MILESTONE_REACHED", 0>>}
MilestoneWrite(r) ==
  /\ At(r, "complete") /\ run[r].does = "milestone"
  /\ milestone' = (run[r].found = 1)
  /\ events' = IF run[r].found = 1 THEN events \cup MilestoneReached ELSE events \ MilestoneReached
  /\ Returns(r)
  /\ Unchanged(r) /\ UNCHANGED <<goal, tasks, care, job, report>>

TaskEvents ==
  {<<"RESCUE_TASK_CREATED", t>> : t \in {u \in Tasks : u[1] = "rescue"}}
  \cup {<<"TASK_COMPLETED", t>> : t \in {u \in Tasks : IsTaskCompleted(u)}}
  \cup {<<"RESCUE_TASK_COMPLETED", t>> : t \in {u \in Tasks : u[1] = "rescue" /\ IsTaskCompleted(u)}}
DeviationEvents == {<<"DEVIATION_DETECTED", e>> : e \in DOMAIN deviation}
ReportEvents == {<<"REPORT_GENERATED", p>> : p \in Published}

\* The events that follow from the rows, in the order backfillForUser records them;
\* those of jobs, plans and check-ins are left to their modules.
Derived == <<GrowthEvent(goal.status), IF milestone THEN MilestoneReached ELSE {},
             TaskEvents, DeviationEvents, ReportEvents>>
DerivedEvents == UNION {Derived[i] : i \in DOMAIN Derived}

\* backfillForUser: the goal with all its rows is read ...
BackfillRead(r) ==
  Asks(r, "backfill", [Idle EXCEPT !.at = "events", !.todo = Derived])

\* ... and gives its events, one group after the other.
BackfillWrite(r) ==
  /\ At(r, "events")
  /\ events' = events \cup Head(run[r].todo)
  /\ IF Len(run[r].todo) = 1 THEN Returns(r)
     ELSE Keeps(r, [run[r] EXCEPT !.todo = Tail(@)]) /\ UNCHANGED queue
  /\ Unchanged(r) /\ UNCHANGED <<goal, tasks, care, job, report, milestone>>

\* DailyTasksService.completeTask.
CheckinRead(r, t) ==
  /\ goal.status = "ACTIVE" /\ ~IsTaskCompleted(t)
  /\ Asks(r, "checkin", [Idle EXCEPT !.at = "complete", !.task = t])

CheckinWrite(r) ==
  /\ At(r, "complete") /\ run[r].does = "checkin"
  /\ LET t == run[r].task IN
     IF t[1] = "plan"
     THEN plan' = [plan EXCEPT ![t[2]] = TRUE] /\ UNCHANGED rescue
     ELSE /\ rescue' = [rescue EXCEPT ![t[2]] = [day |-> @.day, done |-> TRUE, event |-> @.event]]
          /\ UNCHANGED plan
  /\ events' = events \cup {<<"TASK_COMPLETED", run[r].task>>}
                      \cup (IF run[r].task[1] = "rescue" THEN {<<"RESCUE_TASK_COMPLETED", run[r].task>>} ELSE {})
  /\ Returns(r)
  /\ Unchanged(r) /\ UNCHANGED <<goal, care, job, report, milestone>>
-----------------------------------------------------------------------------
(* Around the service.                                                      *)

\* The plan is confirmed.
Confirm ==
  /\ goal.status = "DRAFT"
  /\ goal' = [status |-> "ACTIVE", used |-> goal.used]
  /\ met' = met \cup (IF \E r \in Busy : run[r].does \in {"settle", "get"} THEN {"settlement"} ELSE {})
  /\ UNCHANGED <<mix, async, day, tasks, care, jobs, report, timeline, artifact, restarts, asked, run, faults>>

\* cancelJob: of a job that was QUEUED when it was read.
CancelRead(r, j) ==
  /\ job[j].status = "QUEUED"
  /\ Asks(r, "cancel", [Idle EXCEPT !.at = "cancel", !.job = j])

CancelWrite(r) ==
  /\ At(r, "cancel")
  /\ JobBecomes(run[r].job, "CANCELLED")
  /\ Returns(r)
  /\ Unchanged(r) /\ UNCHANGED <<goal, tasks, care, report, timeline>>

\* retryAiJob: a FAILED job is handed to the queue of the AI jobs, whatever its
\* type, and then QUEUED.
AdminRead(r, j) ==
  /\ job[j].status = "FAILED"
  /\ Asks(r, "admin", [Idle EXCEPT !.at = "requeue", !.job = j])

AdminEnqueue(r) ==
  /\ At(r, "requeue")
  /\ queue' \in {queue, Enqueued("ai-jobs", run[r].job)}
  /\ Goes(r, "requeued")
  /\ Unchanged(r) /\ UNCHANGED <<goal, tasks, care, job, report, timeline>>

AdminWrite(r) ==
  /\ At(r, "requeued")
  /\ job' = [job EXCEPT ![run[r].job] = [type |-> @.type, status |-> "QUEUED", tries |-> 0]]
  /\ Returns(r)
  /\ Unchanged(r) /\ UNCHANGED <<goal, tasks, care, report, timeline>>

\* A QUEUED job without an entry in its queue is enqueued again.
Reconcile(j) ==
  /\ job[j].status = "QUEUED" /\ \A r \in Requests : run[r].at = "attach" => run[r].job # j
  /\ Enqueued(QueueOf(j), j) # queue
  /\ queue' = Enqueued(QueueOf(j), j)
  /\ UNCHANGED <<mix, async, day, goal, tasks, care, job, report, timeline, artifact, restarts, asked, run, met, faults>>

Tick ==
  /\ day < LastDay
  /\ day' = day + 1
  /\ UNCHANGED <<mix, async, goal, tasks, care, jobs, report, timeline, artifact, restarts, asked, run, met, faults>>

\* A process dies; the queue finds a worker's entry stalled.
Dies(r) ==
  /\ run[r].at # "idle" /\ faults < MaxFaults
  /\ faults' = faults + 1
  /\ Throws(r)
  /\ UNCHANGED <<mix, async, day, goal, tasks, care, job, report, timeline, artifact, restarts, asked>>
-----------------------------------------------------------------------------
Steps(r) ==
  \/ SettleAgain(r) \/ SettleTasks(r) \/ SettleWrite(r) \/ ReportExists(r) \/ FindReportJob(r)
  \/ CreateJob(r) \/ Attach(r) \/ ReportRead(r) \/ ReportWrite(r) \/ RecordRead(r) \/ RecordWrite(r)
  \/ GetReport(r) \/ RestartCreate(r)
  \/ FailureOwner(r) \/ FailureAttempt(r) \/ FailureFails(r) \/ FailureRetry(r)
  \/ JobFails(r) \/ JobSucceeds(r) \/ JobRuns(r) \/ CareFails(r)
  \/ Context(r) \/ ExistingRescue(r) \/ FindDeviation(r) \/ WriteDeviation(r)
  \/ PersistRescue(r) \/ WriteSnapshot(r) \/ TrendRead(r) \/ TrendReadPrevious(r) \/ TrendWrite(r)
  \/ MilestoneWrite(r) \/ BackfillWrite(r) \/ CheckinWrite(r)
  \/ CancelWrite(r) \/ AdminEnqueue(r) \/ AdminWrite(r)

Next ==
  \/ \E r \in Requests :
       \/ SettleRead(r) \/ GetRead(r) \/ RestartRead(r)
       \/ RescueAsked(r) \/ HealthAsked(r) \/ ReportAsked(r)
       \/ TrendAsked(r) \/ TrendQueued(r)
       \/ MilestoneRead(r) \/ BackfillRead(r)
       \/ \E t \in Tasks : CheckinRead(r, t)
       \/ \E j \in DOMAIN job : CancelRead(r, j) \/ AdminRead(r, j)
  \/ \E r \in Runners : Steps(r) \/ Dies(r)
  \/ \E w \in Workers, q \in Queues, j \in DOMAIN job : WorkerTakes(w, q, j)
  \/ \E j \in DOMAIN job : Reconcile(j)
  \/ Confirm \/ Tick

Spec == Init /\ [][Next]_vars

\* Methods go on, the workers take what waits and reconciliation comes round.
FairSpec ==
  /\ Spec
  /\ \A r \in Runners : WF_vars(Steps(r))
  /\ WF_vars(\E w \in Workers, q \in Queues, j \in DOMAIN job : WorkerTakes(w, q, j))
  /\ WF_vars(\E j \in DOMAIN job : Reconcile(j))
-----------------------------------------------------------------------------
(* Properties.                                                              *)

\* Unless two settlements overlap, or the plan is confirmed during one, a goal that
\* has failed or is completed stays so, whatever tasks are done later.
ClosedStays ==
  [][goal.status \in Closed /\ "settlement" \notin met => goal'.status = goal.status]_goal

\* The timeline tells the outcome of a closed goal, and without such an overlap no
\* other outcome, whether settlement or backfill wrote it.
OutcomeRecorded ==
  /\ GrowthEvent(goal.status) \subseteq events
  /\ "settlement" \notin met => events \cap (GrowthEvent("FAILED") \cup GrowthEvent("COMPLETED")) = GrowthEvent(goal.status)

\* A failed goal has one failure report job that is not through, however often it is
\* settled and whatever the worker does, unless settlements overlap, a cancellation
\* overlaps with the worker or an administrator revives an old one.
OneReportJob ==
  met \cap {"settlement", "job"} = {} /\ (\A r \in Requests : mix[r] # "admin")
    => Cardinality(ActiveReportJobs) <= 1

\* A day has one rescue task to be done, unless two methods that make one overlap.
OneRescue == "rescue" \notin met => \A d \in Days : Cardinality(Pending(d)) <= 1

\* The deviations of a day differ in their reasons (SPEC.md:320), unless two methods
\* that write them overlap; midnight between finding one and writing it is no matter.
DeviationPerDay ==
  "deviation" \notin met =>
    \A e, f \in DOMAIN deviation : e # f => deviation[e] # deviation[f]

\* The timeline tells what the rows do, no event less and none more, whichever method wrote
\* them, so that a backfill adds nothing; unless settlements overlap, or a backfill overlaps
\* with a change of the milestone.
EventsDerived == met \cap {"settlement", "timeline"} = {} => events = DerivedEvents

\* A trend report about to be stored has averages and a direction that its snapshots have now,
\* two reads apart, past midnight and for days to come, unless another report or a snapshot is
\* written meanwhile.
TrendIsRead ==
  \A r \in Runners : At(r, "publish") /\ "trend" \notin met =>
    LET last == run[r].day
        days == TrendDays[run[r].kind]
        both == [average |-> TrendAverage(run[r].kind, last),
                 previous |-> TrendAverage(run[r].kind, last - days)]
    IN Direction(run[r].trend) = Direction(both) /\ run[r].trend.average = both.average

\* A failure report or rescue job that has succeeded or was cancelled is not taken up
\* again, unless a cancellation or a retry overlaps with the worker: entries that are
\* left in the queue, stalled or enqueued twice do nothing.  The jobs of the reports' queue
\* are run whatever their status, and one that an administrator hands to the other is in both.
EndedJobStays ==
  [][\A j \in DOMAIN job :
       job[j].type \in {"FAILURE", "RESCUE"} /\ job[j].status \in {"SUCCEEDED", "CANCELLED"} /\ "job" \notin met
         => job'[j].status = job[j].status]_job

\* To complete a task never lowers the health of the day, whatever the check-ins say
\* and whichever day the task was planned for.
CompletionHelps ==
  [][/\ tasks' # tasks
     /\ DOMAIN rescue' = DOMAIN rescue
     /\ \A t \in Tasks : IsTaskCompleted(t) => IsTaskCompleted(t)'
     => \A low \in Signals : HealthScore(day, low)' >= HealthScore(day, low)]_tasks

\* A goal that has failed gets its report, by the request or by a job whose entry may
\* be lost on the way, if that job is not cancelled and does not use up its attempts.
FailedGetsReport ==
  goal.status = "FAILED" ~>
    \/ report \/ goal.status # "FAILED" \/ faults > 0
    \/ \E j \in DOMAIN job : job[j].type = "FAILURE" /\ job[j].status \in {"FAILED", "CANCELLED"}

\* Every job ends: however requests add to them, there is a time when none is open.
JobEnds ==
  LET open == \E j \in DOMAIN job : job[j].status \in Active IN open ~> (~open \/ faults > 0)

\* The timeline tells what the rows of the goal say, and trend reports what its snapshots do,
\* each as long as nothing has met that writes the same.
TimelineMatches == TypeOK /\ OutcomeRecorded /\ EventsDerived /\ TrendIsRead

\* However often it is asked for, nothing is made twice: no report job, no rescue
\* task of a day, no deviation of a day, each as long as no two that make it have met.
NothingTwice == OneReportJob /\ OneRescue /\ DeviationPerDay

\* What has ended stays ended, goals and jobs, but for those overlaps: a settlement writes the
\* status it has worked out from what it read (goals.service.ts:1855).
EndStays == ClosedStays /\ EndedJobStays

\* Jobs end, and a failed goal has its report in the end.
WorkEnds == JobEnds /\ FailedGetsReport
=============================================================================
