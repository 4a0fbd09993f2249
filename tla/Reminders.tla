----------------------------- MODULE Reminders -----------------------------
(***************************************************************************)
(* Reminders of one user (notifications.service.ts): a scan writes a log   *)
(* for what is to be said today, on every channel, and the log is sent by  *)
(* a worker through the queue, by a batch that a request runs, or again    *)
(* after a failure.                                                        *)
(*                                                                         *)
(* Scans, batches, workers and retries read rows and write them by id      *)
(* later, with the provider's answer in between.  Time is counted in       *)
(* quarters of a day; a zone has one switch of its offset.                 *)
(*                                                                         *)
(* Left out: texts, recipients (an unbound WeChat counts), the limit of a  *)
(* batch, runs' names, a user's other goals.                               *)
(***************************************************************************)
EXTENDS Integers, FiniteSets

CONSTANTS
  Scanners, Batches, Workers, Retriers,  \* what runs at the same time
  Previews,     \* logs a user asks for
  Days,         \* days a reminder may be for
  Channels,     \* of EMAIL and WECHAT, those the model looks at
  Types,        \* types of reminders the model looks at
  Preferences,  \* what a user may choose: [enabled, zone, time, types, channels, silent, sprint]
  Situations,   \* what scans may find: [status, pending, done, used, allowed, milestones,
                \*   rescue, reports, examIn, reviewed, proEndsIn]
  Zones,        \* time zones: [switch, before, after]
  MaxAttempts,  \* MAX_EMAIL_ATTEMPTS
  MaxTries,     \* attempts of an entry of the queue
  Q,            \* units of time in a day
  MaxTime,      \* bound
  MaxLogs,      \* bound: logs written
  MaxFaults     \* bound: deaths of a runner and answers that are lost

ASSUME RemindersAssumption ==
  /\ MaxAttempts \in Nat \ {0} /\ MaxTries \in Nat \ {0}
  /\ Q \in Nat \ {0} /\ MaxTime \in Nat /\ MaxLogs \in Nat /\ MaxFaults \in Nat
  /\ Days \subseteq Int
  /\ \A zone \in Zones \cup {p.zone : p \in Preferences} :
       zone.switch \in Int /\ zone.before \in Int /\ zone.after \in Int
  /\ \A p \in Preferences : p.time \in Int

Runners == Scanners \cup Batches \cup Workers \cup Retriers
Keys == [type : Types, channel : Channels, day : Days] \cup Previews

VARIABLES
  now, preference, situation,
  bound,  \* BOOLEAN: WeChat is bound
  log,    \* [Keys -> [status : LogStatus, attempts : Nat, due : Int]]
  queue,  \* [Keys -> [state : EntryState, made : 0..(MaxTries - 1)]]: made are earlier attempts
  run,    \* [Runners -> Run]
  mails,  \* [Keys -> 0..2]: messages delivered
  calls,  \* [Keys -> 0..MaxAttempts + 1]: calls of the provider
  calm,   \* [Keys -> BOOLEAN]: one runner at a time has handled it, and none died
  lost,   \* SUBSET Keys: those delivered by a call of which no answer came
  faults

user == <<preference, situation, bound>>
seen == <<mails, calls, lost>>
vars == <<now, user, log, queue, run, seen, calm, faults>>
-----------------------------------------------------------------------------
LogStatus == {"NONE", "QUEUED", "SKIPPED", "SENT", "FAILED"}
EntryState == {"none", "waiting", "active", "failed"}
Outcome == {"sent", "retry", "refused"}
Idle == [at |-> "idle"]
Run == [at : {"idle"}]
       \cup [at : {"scan"}, todo : SUBSET Keys, bound : BOOLEAN, due : Int]
       \cup [at : {"batch", "retry"}, todo : SUBSET Keys]
       \cup [at : {"batched"}, todo : SUBSET Keys, key : Keys, result : Outcome]
       \cup [at : {"take"}, key : Keys]
       \cup [at : {"send"}, key : Keys, attempts : 0..(MaxAttempts - 1)]
       \cup [at : {"write"}, key : Keys, attempts : 0..(MaxAttempts - 1), result : Outcome]

TypeOK ==
  /\ now \in 0..MaxTime
  /\ preference \in Preferences
  /\ situation \in Situations
  /\ bound \in BOOLEAN
  /\ log \in [Keys -> [status : LogStatus, attempts : Nat, due : Int]]
  /\ queue \in [Keys -> [state : EntryState, made : 0..(MaxTries - 1)]]
  /\ run \in [Runners -> Run]
  /\ mails \in [Keys -> 0..2]
  /\ calls \in [Keys -> 0..(MaxAttempts + 1)]
  /\ calm \in [Keys -> BOOLEAN]
  /\ lost \subseteq Keys
  /\ faults \in 0..MaxFaults

Init ==
  /\ now = 0
  /\ preference \in Preferences
  /\ situation \in Situations
  /\ bound = FALSE
  /\ log = [k \in Keys |-> [status |-> "NONE", attempts |-> 0, due |-> 0]]
  /\ queue = [k \in Keys |-> [state |-> "none", made |-> 0]]
  /\ run = [r \in Runners |-> Idle]
  /\ mails = [k \in Keys |-> 0]
  /\ calls = [k \in Keys |-> 0]
  /\ calm = [k \in Keys |-> TRUE]
  /\ lost = {}
  /\ faults = 0
-----------------------------------------------------------------------------
(* Local time.                                                              *)

\* A zone is [switch, before, after]: its offset changes at switch.
OffsetAt(zone, t) == IF t < zone.switch THEN zone.before ELSE zone.after
Local(zone, t) == t + OffsetAt(zone, t)

\* toDateKey.
DateKey(zone, t) == Local(zone, t) \div Q

\* Mutant of ZonedDateTimeToUtc: the offset is looked up once.
ZonedOnce(zone, day, time) == day * Q + time - OffsetAt(zone, day * Q + time)

\* zonedDateTimeToUtc: the guess is corrected twice by what it renders to.
ZonedDateTimeToUtc(zone, day, time) ==
  LET desired == day * Q + time
      corrected(guess) == guess + desired - Local(zone, guess)
  IN corrected(corrected(desired))

ScheduledAt(p, t) == ZonedDateTimeToUtc(p.zone, DateKey(p.zone, t), p.time)
IsSilent(p, day) == day % 7 \in p.silent

\* getNextScheduledAt, without silent days: today, if that is still to come.
NextScheduledAt(p, t) ==
  LET today == DateKey(p.zone, t)
      later == {d \in today..(today + 7) : ZonedDateTimeToUtc(p.zone, d, p.time) > t}
  IN IF later = {} THEN ZonedDateTimeToUtc(p.zone, today + 1, p.time)
     ELSE ZonedDateTimeToUtc(p.zone, CHOOSE d \in later : \A e \in later : d <= e, p.time)
-----------------------------------------------------------------------------
(* enqueueDueEmailLogs.                                                     *)

Never == -1
Strained(g) == g.used >= g.allowed - 1
OpenGoal(g) == g.status \in {"ACTIVE", "AT_RISK", "REPLANNING"}

\* buildDueEmailCandidates: what the goal g, a record of today's facts, gives cause to say
\* while it is open ...
OpenCauses(g, p) ==
  {c \in {"DAILY_TASK", "MISSED_CHECKIN", "TOLERANCE_RISK", "MILESTONE", "DEVIATION_WARNING",
          "RESCUE_TASK", "WEEKLY_REPORT", "MONTHLY_REPORT", "EXAM_SPRINT"} :
     OpenGoal(g) /\
     CASE c = "DAILY_TASK" -> g.pending > 0
       [] c = "MISSED_CHECKIN" -> g.pending > 0 /\ g.done = 0
       [] c = "TOLERANCE_RISK" -> g.allowed > 0 /\ Strained(g)
       [] c = "MILESTONE" -> g.milestones
       [] c = "DEVIATION_WARNING" -> g.status = "AT_RISK" \/ (Strained(g) /\ g.used >= 0)
       [] c = "RESCUE_TASK" -> g.rescue
       [] c \in {"WEEKLY_REPORT", "MONTHLY_REPORT"} -> c \in g.reports
       [] c = "EXAM_SPRINT" -> g.examIn \in 0..p.sprint}

\* ... or else, and what the membership does.
Causes(g, p) ==
  OpenCauses(g, p)
  \cup (IF g.status = "FAILED" /\ g.reviewed THEN {"FAILURE_REVIEW"} ELSE {})
  \cup (IF g.proEndsIn \in 0..7 THEN {"MEMBERSHIP_EXPIRY"} ELSE {})

\* What is to be said, a key for each cause and channel.
Candidates(g, p, t) ==
  {k \in Keys \ Previews : /\ k.type \in Causes(g, p) \cap p.types
                           /\ k.channel \in p.channels
                           /\ k.day = DateKey(p.zone, t)}

\* QueueService.enqueue.
Enqueued(k) ==
  [queue EXCEPT ![k] = CASE @.state = "none" -> [state |-> "waiting", made |-> 0]
                         [] @.state = "failed" -> [state |-> "waiting", made |-> @.made]
                         [] OTHER -> @]

\* Another runner has the log in its hands.
Handles(r, k) ==
  \/ run[r].at \in {"batch", "retry"} /\ k \in run[r].todo
  \/ run[r].at = "batched" /\ (k \in run[r].todo \/ k = run[r].key)
  \/ run[r].at \in {"send", "write"} /\ k = run[r].key
Taken(S, r) == [k \in Keys |-> calm[k] /\ ~(k \in S /\ \E q \in Runners \ {r} : Handles(q, k))]

\* The bound on the logs: the keys S and those already written.
Room(S) == Cardinality(S \cup {k \in Keys : log[k].status # "NONE"}) <= MaxLogs

\* The user, the scheduler and the administrator scan at any time.
ScanRead(s) ==
  /\ run[s] = Idle
  /\ Room(Candidates(situation, preference, now))
  /\ preference.enabled
  /\ ~IsSilent(preference, DateKey(preference.zone, now))
  /\ ScheduledAt(preference, now) <= now
  /\ Candidates(situation, preference, now) # {}
  /\ run' = [run EXCEPT ![s] =
       [at |-> "scan", todo |-> Candidates(situation, preference, now), bound |-> bound,
        due |-> ScheduledAt(preference, now)]]
  /\ UNCHANGED <<now, user, log, queue, seen, calm, faults>>

Todo(r, k) ==
  run' = [run EXCEPT ![r] = IF run[r].todo = {k} THEN Idle
                            ELSE [run[r] EXCEPT !.todo = run[r].todo \ {k}]]

\* Mutant of ScanLog: the row is written again.
ScanLogAgain(s, k) ==
  /\ run[s].at = "scan" /\ k \in run[s].todo
  /\ log' = [log EXCEPT ![k] = [status |-> "QUEUED", attempts |-> 0, due |-> run[s].due]]
  /\ queue' \in {queue, Enqueued(k)}
  /\ Todo(s, k)
  /\ UNCHANGED <<now, user, seen, calm, faults>>

\* createScheduledLog: one row for a dedupe key, the first.
ScheduledLog(k, status, due) ==
  IF log[k].status # "NONE" THEN log
  ELSE [log EXCEPT ![k] = [status |-> status, attempts |-> 0, due |-> due]]

\* The entry of a new row may be refused or lost.
ScanLog(s, k) ==
  /\ run[s].at = "scan" /\ k \in run[s].todo
  /\ LET skip == k.channel = "WECHAT" /\ ~run[s].bound IN
     /\ log' = ScheduledLog(k, IF skip THEN "SKIPPED" ELSE "QUEUED", run[s].due)
     /\ queue' \in IF skip \/ log[k].status # "NONE" THEN {queue} ELSE {queue, Enqueued(k)}
  /\ Todo(s, k)
  /\ UNCHANGED <<now, user, seen, calm, faults>>

\* createPreviewEmailLog: queued at once for the next time the user set.
Preview(k) ==
  /\ k \in Previews /\ log[k].status = "NONE" /\ Room({k})
  /\ log' = [log EXCEPT ![k] = [status |-> IF preference.enabled THEN "QUEUED" ELSE "SKIPPED",
                                attempts |-> 0, due |-> NextScheduledAt(preference, now)]]
  /\ queue' \in {queue, Enqueued(k)}
  /\ UNCHANGED <<now, user, run, seen, calm, faults>>
-----------------------------------------------------------------------------
(* processQueuedEmailLog, by a worker.                                      *)

WorkerTakes(w, k) ==
  /\ run[w] = Idle /\ queue[k].state = "waiting"
  /\ queue' = [queue EXCEPT ![k] = [state |-> "active", made |-> @.made]]
  /\ run' = [run EXCEPT ![w] = [at |-> "take", key |-> k]]
  /\ UNCHANGED <<now, user, log, seen, calm, faults>>

Sendable(k) == log[k].status = "QUEUED" /\ log[k].attempts < MaxAttempts /\ log[k].due <= now

Done(k) == [queue EXCEPT ![k] = [state |-> "none", made |-> 0]]

\* What is not queued any more, or not due yet, is left and the entry is done.
WorkerReads(w) ==
  /\ run[w].at = "take"
  /\ LET k == run[w].key IN
     IF Sendable(k)
     THEN /\ run' = [run EXCEPT ![w] = [at |-> "send", key |-> k, attempts |-> log[k].attempts]]
          /\ calm' = Taken({k}, w) /\ UNCHANGED queue
     ELSE run' = [run EXCEPT ![w] = Idle] /\ queue' = Done(k) /\ UNCHANGED calm
  /\ UNCHANGED <<now, user, log, seen, faults>>

\* What a service answers: it took the message, is overloaded, wants another token or
\* refuses; or the network failed, before the service had the message or after.
Answer == {"ok", "busy", "token", "no", "unreachable", "cut"}

\* ResendMailProvider.send: what may be tried again.
ResendResult(answer) ==
  CASE answer = "ok" -> "sent" [] answer \in {"busy", "unreachable", "cut"} -> "retry"
    [] OTHER -> "refused"

\* WechatSubscribeProvider.send; its cached token is forgotten when another is wanted.
WechatResult(answer) ==
  CASE answer = "ok" -> "sent" [] answer = "no" -> "refused" [] OTHER -> "retry"

ResultOf(k, answer) ==
  IF k \notin Previews /\ k.channel = "WECHAT" THEN WechatResult(answer) ELSE ResendResult(answer)

\* deliverNotification; what is said not to be sent was not, unless the answer was lost.
Called(k, answer) ==
  /\ mails' = [mails EXCEPT ![k] = IF answer \in {"ok", "cut"} /\ @ < 2 THEN @ + 1 ELSE @]
  /\ calls' = [calls EXCEPT ![k] = IF @ <= MaxAttempts THEN @ + 1 ELSE @]
  /\ IF answer = "cut" THEN faults < MaxFaults /\ faults' = faults + 1 /\ lost' = lost \cup {k}
                       ELSE UNCHANGED <<faults, lost>>

WorkerSends(w) ==
  /\ run[w].at = "send"
  /\ \E answer \in Answer :
       /\ run' = [run EXCEPT ![w] = [at |-> "write", key |-> @.key, attempts |-> @.attempts,
                                     result |-> ResultOf(@.key, answer)]]
       /\ Called(run[w].key, answer)
  /\ UNCHANGED <<now, user, log, queue, calm>>

Retryable(w) ==
  /\ run[w].result = "retry"
  /\ queue[run[w].key].made + 1 < MaxTries
  /\ run[w].attempts + 1 < MaxAttempts

\* The attempts are written as they were read, plus one; a failure that can be
\* tried again is thrown to the queue.
WorkerWrites(w) ==
  /\ run[w].at = "write"
  /\ LET k == run[w].key IN
     /\ log' = [log EXCEPT ![k] =
          [status |-> CASE run[w].result = "sent" -> "SENT"
                        [] Retryable(w) -> "QUEUED"
                        [] OTHER -> "FAILED",
           attempts |-> run[w].attempts + 1, due |-> @.due]]
     /\ queue' = IF Retryable(w)
                 THEN [queue EXCEPT ![k] = [state |-> "waiting", made |-> @.made + 1]]
                 ELSE Done(k)
  /\ run' = [run EXCEPT ![w] = Idle]
  /\ UNCHANGED <<now, user, seen, calm, faults>>
-----------------------------------------------------------------------------
(* processQueuedEmailLogs, retryFailedEmailLogs, AdminService.retryEmailLog *)
(* and QueueReconciliationService.                                          *)

BatchReads(b) ==
  LET due == {k \in Keys : Sendable(k)} IN
  /\ run[b] = Idle /\ due # {}
  /\ run' = [run EXCEPT ![b] = [at |-> "batch", todo |-> due]]
  /\ calm' = Taken(due, b)
  /\ UNCHANGED <<now, user, log, queue, seen, faults>>

\* What was listed is sent, whatever has become of it since.
BatchSends(b, k) ==
  /\ run[b].at = "batch" /\ k \in run[b].todo
  /\ \E answer \in Answer :
       /\ run' = [run EXCEPT ![b] = [at |-> "batched", todo |-> @.todo \ {k}, key |-> k, result |->
                    IF ResultOf(k, answer) = "sent" THEN "sent" ELSE "refused"]]
       /\ Called(k, answer)
  /\ UNCHANGED <<now, user, log, queue, calm>>

\* The column attempts is incremented by the database.
BatchWrites(b) ==
  /\ run[b].at = "batched"
  /\ log' = [log EXCEPT ![run[b].key] =
       [status |-> IF run[b].result = "sent" THEN "SENT" ELSE "FAILED",
        attempts |-> @.attempts + 1, due |-> @.due]]
  /\ run' = [run EXCEPT ![b] = IF @.todo = {} THEN Idle ELSE [at |-> "batch", todo |-> @.todo]]
  /\ UNCHANGED <<now, user, queue, seen, calm, faults>>

Failed == {k \in Keys : log[k].status = "FAILED" /\ log[k].attempts < MaxAttempts}

\* The user retries what has failed, the administrator one log.
RetryReads(r) ==
  /\ run[r] = Idle
  /\ \E S \in SUBSET Failed \ {{}} :
       /\ run' = [run EXCEPT ![r] = [at |-> "retry", todo |-> S]]
       /\ calm' = Taken(S, r)
  /\ UNCHANGED <<now, user, log, queue, seen, faults>>

RetryWrites(r, k) ==
  /\ run[r].at = "retry" /\ k \in run[r].todo
  /\ log' = [log EXCEPT ![k] = [status |-> "QUEUED", attempts |-> @.attempts, due |-> now]]
  /\ queue' \in {queue, Enqueued(k)}
  /\ Todo(r, k)
  /\ UNCHANGED <<now, user, seen, calm, faults>>

\* Mutant of Reconcile: logs that were tried are left to the queue.
ReconcileNew(k) ==
  /\ log[k].status = "QUEUED" /\ log[k].due <= now /\ log[k].attempts = 0
  /\ queue' = Enqueued(k) /\ queue' # queue
  /\ UNCHANGED <<now, user, log, run, seen, calm, faults>>

Reconcile(k) ==
  /\ log[k].status = "QUEUED" /\ log[k].due <= now
  /\ queue' = Enqueued(k) /\ queue' # queue
  /\ UNCHANGED <<now, user, log, run, seen, calm, faults>>
-----------------------------------------------------------------------------
(* The rest of the world.                                                   *)

Tick == now < MaxTime /\ now' = now + 1 /\ UNCHANGED <<user, log, queue, run, seen, calm, faults>>

UpdatePreference ==
  /\ preference' \in Preferences \ {preference}
  /\ UNCHANGED <<now, situation, bound, log, queue, run, seen, calm, faults>>

\* Goals, tasks, reports and the membership change.
Change ==
  /\ situation' \in Situations \ {situation}
  /\ UNCHANGED <<now, preference, bound, log, queue, run, seen, calm, faults>>

BindWechat ==
  /\ bound' = ~bound
  /\ UNCHANGED <<now, preference, situation, log, queue, run, seen, calm, faults>>

\* A runner dies; its entry is given to another, or fails.
Dies(r) ==
  /\ run[r] # Idle /\ faults < MaxFaults
  /\ faults' = faults + 1
  /\ run' = [run EXCEPT ![r] = Idle]
  /\ calm' = [k \in Keys |-> calm[k] /\ ~Handles(r, k)]
  /\ IF r \in Workers
     THEN \E s \in {"waiting", "failed"} :
            queue' = [queue EXCEPT ![run[r].key] = [state |-> s, made |-> @.made]]
     ELSE UNCHANGED queue
  /\ UNCHANGED <<now, user, log, seen>>

Next ==
  \/ Tick \/ UpdatePreference \/ Change \/ BindWechat
  \/ \E s \in Scanners : ScanRead(s) \/ \E k \in Keys : ScanLog(s, k)
  \/ \E k \in Keys : Preview(k) \/ Reconcile(k)
  \/ \E w \in Workers :
       \/ WorkerReads(w) \/ WorkerSends(w) \/ WorkerWrites(w)
       \/ \E k \in Keys : WorkerTakes(w, k)
  \/ \E b \in Batches : BatchReads(b) \/ BatchWrites(b) \/ \E k \in Keys : BatchSends(b, k)
  \/ \E r \in Retriers : RetryReads(r) \/ \E k \in Keys : RetryWrites(r, k)
  \/ \E r \in Runners : Dies(r)

Spec == Init /\ [][Next]_vars

\* Methods go on, workers take what waits and the reconciliation runs.  Nobody
\* has to scan, to run a batch or to retry.
Fairness ==
  /\ \A w \in Workers : WF_vars(WorkerReads(w) \/ WorkerSends(w) \/ WorkerWrites(w))
  /\ \A w \in Workers, k \in Keys : SF_vars(WorkerTakes(w, k))
  /\ \A b \in Batches : WF_vars(BatchWrites(b) \/ \E k \in Keys : BatchSends(b, k))
  /\ \A r \in Retriers : WF_vars(\E k \in Keys : RetryWrites(r, k))
  /\ \A k \in Keys : WF_vars(Reconcile(k))

FairSpec == Spec /\ Fairness
-----------------------------------------------------------------------------
(* Properties.                                                              *)

\* A reminder is delivered once, however many scans find its cause and however
\* often its entry is queued, unless two runners handle it at a time, one dies or the
\* answer of a service is lost.
DeliveredOnce == \A k \in Keys : calm[k] /\ k \notin lost => mails[k] <= 1

\* The attempts that are shown, and that end the retries, are the provider's calls.
AttemptsCounted ==
  \A k \in Keys : calm[k] => log[k].attempts = calls[k]
                             \/ \E r \in Runners : Handles(r, k) /\ calls[k] = log[k].attempts + 1

\* A log that is queued can still be sent: retries stop with the last attempt,
\* unless two runners handle it at a time.
QueuedIsSendable ==
  \A k \in Keys : calm[k] /\ log[k].status = "QUEUED" => log[k].attempts < MaxAttempts

\* Whenever a time comes, in every zone, a reminder of that day is at the local
\* time that was set, before and after a switch, if there is such a time that day.
ScheduleIsLocal ==
  [][now' # now =>
       \A zone \in Zones, time \in 0..(Q - 1) :
         LET desired == DateKey(zone, now') * Q + time
             at == ScheduledAt([zone |-> zone, time |-> time], now')
         IN (\E u \in (desired - Q)..(desired + Q) : Local(zone, u) = desired)
              => Local(zone, at) = desired]_vars

\* What is queued and due is sent or fails, though its entry was lost, came too
\* early or its worker died.
QueuedEnds ==
  \A k \in Keys : log[k].status = "QUEUED" /\ log[k].due <= now
                    ~> log[k].status \in {"SENT", "FAILED"} \/ ~calm[k]

\* A reminder goes out once, the provider is called as often as its log says, and never
\* when it says no more.
CallsCounted == TypeOK /\ DeliveredOnce /\ AttemptsCounted /\ QueuedIsSendable
=============================================================================
