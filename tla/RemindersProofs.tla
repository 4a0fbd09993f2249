-------------------------- MODULE RemindersProofs --------------------------
(***************************************************************************)
(* Proofs about reminders, for any scanners, batches, workers and retriers *)
(* and any bounds on attempts, tries and faults.                           *)
(***************************************************************************)
EXTENDS Reminders, TLAPS

LogRow == [status : LogStatus, attempts : Nat, due : Int]
Entry == [state : EntryState, made : 0..(MaxTries - 1)]

\* What the runner r is about to do with the log k: call the provider, queue it again, or
\* write what the provider said.
Sending(r, k) == \/ run[r].at \in {"batch", "batched"} /\ k \in run[r].todo
                 \/ run[r].at = "send" /\ k = run[r].key
Retrying(r, k) == run[r].at = "retry" /\ k \in run[r].todo
Recording(r, k) == run[r].at \in {"batched", "write"} /\ k = run[r].key

Unsent(k) == k \notin lost => mails[k] = 0

\* A log that was not written was not sent, and nobody handles it.
Unwritten(k) ==
  log[k].status = "NONE" =>
    log[k].attempts = 0 /\ calls[k] = 0 /\ mails[k] = 0 /\ \A r \in Runners : ~Handles(r, k)

\* One runner has it in its hands, and one thing to do with it.
OneHandles(k) ==
  /\ \A q, r \in Runners : Handles(q, k) /\ Handles(r, k) => q = r
  /\ \A r \in Runners : ~(Sending(r, k) /\ Recording(r, k))

\* Before the call, all calls are counted; until they are counted again, there is one more.
WhileSending(k) ==
  \A r \in Runners : Sending(r, k) =>
    /\ log[k].status = "QUEUED" /\ log[k].attempts < MaxAttempts /\ calls[k] = log[k].attempts
    /\ run[r].at = "send" => run[r].attempts = log[k].attempts
    /\ Unsent(k)
WhileRetrying(k) ==
  \A r \in Runners : Retrying(r, k) =>
    /\ log[k].status = "FAILED" /\ log[k].attempts < MaxAttempts /\ calls[k] = log[k].attempts
    /\ Unsent(k)
WhileRecording(k) ==
  \A r \in Runners : Recording(r, k) =>
    /\ log[k].status = "QUEUED" /\ log[k].attempts < MaxAttempts /\ calls[k] = log[k].attempts + 1
    /\ run[r].at = "write" => run[r].attempts = log[k].attempts
    /\ run[r].result # "sent" => Unsent(k)
    /\ k \notin lost => mails[k] <= 1

\* What nobody handles is counted, and was sent at most if its log says so.
AtRest(k) ==
  (\A r \in Runners : ~Handles(r, k)) =>
    /\ calls[k] = log[k].attempts
    /\ log[k].status = "QUEUED" => log[k].attempts < MaxAttempts
    /\ log[k].status # "SENT" => Unsent(k)
    /\ k \notin lost => mails[k] <= 1

Calm(k) == OneHandles(k) /\ WhileSending(k) /\ WhileRetrying(k) /\ WhileRecording(k) /\ AtRest(k)
KeyInv(k) == Unwritten(k) /\ (calm[k] => Calm(k))
RemindersInv == TypeOK /\ \A k \in Keys : KeyInv(k)


(***************************************************************************)
(* Types.                                                                  *)
(***************************************************************************)
\* What the proofs use of the assumption on the constants.
LEMMA Bounds ==
  /\ MaxAttempts \in Nat \ {0} /\ MaxTries \in Nat \ {0} /\ Q \in Nat \ {0}
  /\ MaxTime \in Nat /\ MaxFaults \in Nat
  /\ \A p \in Preferences :
       /\ p.zone.switch \in Int /\ p.zone.before \in Int /\ p.zone.after \in Int
       /\ p.time \in Int
<1>1. \A p \in Preferences : p.zone \in Zones \cup {q.zone : q \in Preferences}
  OBVIOUS
<1> QED
  BY <1>1, RemindersAssumption

\* What a runner remembers, by where it is.
LEMMA RunIs ==
  ASSUME run \in [Runners -> Run], NEW r \in Runners
  PROVE  /\ run[r].at \in {"idle", "scan", "batch", "retry", "batched", "take", "send", "write"}
         /\ run[r].at = "idle" <=> run[r] = Idle
         /\ run[r].at = "scan" => run[r].bound \in BOOLEAN /\ run[r].due \in Int
         /\ run[r].at \in {"scan", "batch", "retry", "batched"} => run[r].todo \in SUBSET Keys
         /\ run[r].at \in {"batched", "take", "send", "write"} => run[r].key \in Keys
         /\ run[r].at \in {"send", "write"} => run[r].attempts \in 0..(MaxAttempts - 1)
         /\ run[r].at \in {"batched", "write"} => run[r].result \in Outcome
<1>1. run[r] \in Run
  OBVIOUS
<1> QED
  BY <1>1 DEF Run, Idle

LEMMA IdleIsIdle == Idle.at = "idle" /\ Idle \in Run
BY DEF Idle, Run

\* Local times and what is scheduled by them are numbers.
LEMMA OffsetIsInt ==
  ASSUME NEW zone, zone.before \in Int, zone.after \in Int, NEW t \in Int
  PROVE  OffsetAt(zone, t) \in Int /\ Local(zone, t) \in Int
BY DEF OffsetAt, Local
LEMMA DateKeyIsInt ==
  ASSUME NEW zone, zone.before \in Int, zone.after \in Int, NEW t \in Int
  PROVE  DateKey(zone, t) \in Int
<1>1. Local(zone, t) \in Int /\ Q \in Nat /\ Q > 0
  BY OffsetIsInt, Bounds
<1> QED
  BY <1>1 DEF DateKey
LEMMA DesiredIsInt ==
  ASSUME NEW day \in Int, NEW time \in Int
  PROVE  day * Q + time \in Int
<1>1. Q \in Int
  BY Bounds
<1> QED
  BY <1>1
LEMMA ZonedIs ==
  ASSUME NEW zone, zone.before \in Int, zone.after \in Int, NEW day \in Int, NEW time \in Int
  PROVE  LET desired == day * Q + time IN
         /\ ZonedDateTimeToUtc(zone, day, time)
              = desired - OffsetAt(zone, desired - OffsetAt(zone, desired))
         /\ ZonedDateTimeToUtc(zone, day, time) \in Int
<1> DEFINE desired == day * Q + time
           first == desired + desired - Local(zone, desired)
<1>1. desired \in Int
  BY DesiredIsInt
<1>2. ZonedDateTimeToUtc(zone, day, time) = first + desired - Local(zone, first)
  BY DEF ZonedDateTimeToUtc
<1> HIDE DEF desired
<1>3. first = desired - OffsetAt(zone, desired) /\ first \in Int
  BY <1>1, OffsetIsInt DEF Local
<1>4. OffsetAt(zone, first) \in Int
  BY <1>3, OffsetIsInt
<1> HIDE DEF first
<1>5. first + desired - Local(zone, first) = desired - OffsetAt(zone, first)
  BY <1>1, <1>3, <1>4 DEF Local
<1> QED
  BY <1>1, <1>2, <1>3, <1>4, <1>5 DEF desired
LEMMA ScheduledIsInt ==
  ASSUME NEW p \in Preferences, NEW t \in Int
  PROVE  ScheduledAt(p, t) \in Int
<1>1. DateKey(p.zone, t) \in Int
  BY Bounds, DateKeyIsInt
<1> QED
  BY <1>1, Bounds, ZonedIs DEF ScheduledAt

\* Of the days of a week that some of them are, one is the first.
LEMMA FirstDay ==
  ASSUME NEW today \in Int, NEW S \in SUBSET (today..(today + 7)), S # {}
  PROVE  \E d \in S : \A e \in S : d <= e
<1>1. CASE today \in S
  BY <1>1
<1>2. CASE today \notin S /\ today + 1 \in S
  BY <1>2
<1>3. CASE today \notin S /\ today + 1 \notin S /\ today + 2 \in S
  BY <1>3
<1> DEFINE T == {today, today + 1, today + 2}
<1>4. CASE T \cap S = {} /\ today + 3 \in S
  BY <1>4
<1>5. CASE T \cap S = {} /\ today + 3 \notin S /\ today + 4 \in S
  BY <1>5
<1>6. CASE T \cap S = {} /\ today + 3 \notin S /\ today + 4 \notin S /\ today + 5 \in S
  BY <1>6
<1>7. CASE T \cap S = {} /\ today + 3 \notin S /\ today + 4 \notin S /\ today + 5 \notin S
  <2>1. S \subseteq {today + 6, today + 7}
    BY <1>7
  <2>2. CASE today + 6 \in S
    BY <2>1, <2>2
  <2>3. CASE today + 6 \notin S
    <3>1. S = {today + 7}
      BY <2>1, <2>3
    <3> QED
      BY <3>1
  <2> QED
    BY <2>2, <2>3
<1> QED
  BY <1>1, <1>2, <1>3, <1>4, <1>5, <1>6, <1>7
LEMMA NextScheduledIsInt ==
  ASSUME NEW p \in Preferences, NEW t \in Int
  PROVE  NextScheduledAt(p, t) \in Int
<1> DEFINE today == DateKey(p.zone, t)
           later == {d \in today..(today + 7) : ZonedDateTimeToUtc(p.zone, d, p.time) > t}
           first == CHOOSE d \in later : \A e \in later : d <= e
<1>1. today \in Int
  BY Bounds, DateKeyIsInt
<1>2. later \in SUBSET (today..(today + 7))
  OBVIOUS
<1>3. later # {} => first \in Int
  <2> HIDE DEF later, today
  <2>1. later # {} => \E d \in later : \A e \in later : d <= e
    BY <1>1, <1>2, FirstDay
  <2>2. later # {} => first \in later
    BY <2>1
  <2>3. \A d \in later : d \in Int
    BY <1>1, <1>2
  <2> HIDE DEF first
  <2> QED
    BY <2>2, <2>3
<1>4. NextScheduledAt(p, t) = ZonedDateTimeToUtc(p.zone, IF later = {} THEN today + 1 ELSE first, p.time)
  BY DEF NextScheduledAt
<1> HIDE DEF later, today, first
<1>5. (IF later = {} THEN today + 1 ELSE first) \in Int
  BY <1>1, <1>3
<1> QED
  BY <1>4, <1>5, Bounds, ZonedIs

LEMMA CandidatesAreKeys ==
  ASSUME NEW g, NEW p, NEW t
  PROVE  Candidates(g, p, t) \in SUBSET Keys
BY DEF Candidates
LEMMA EnqueuedIs ==
  ASSUME queue \in [Keys -> Entry], NEW k \in Keys
  PROVE  Enqueued(k) \in [Keys -> Entry]
<1> DEFINE e == CASE queue[k].state = "none" -> [state |-> "waiting", made |-> 0]
                  [] queue[k].state = "failed" -> [state |-> "waiting", made |-> queue[k].made]
                  [] OTHER -> queue[k]
<1>1. queue[k] \in Entry /\ queue[k].made \in 0..(MaxTries - 1) /\ 0 \in 0..(MaxTries - 1)
  BY Bounds DEF Entry
<1>2. [state |-> "waiting", made |-> 0] \in Entry /\ [state |-> "waiting", made |-> queue[k].made] \in Entry
  BY <1>1 DEF Entry, EntryState
<1>3. CASE queue[k].state = "none"
  <2>1. e = [state |-> "waiting", made |-> 0]
    BY <1>3
  <2> QED
    BY <2>1, <1>2 DEF Enqueued
<1>4. CASE queue[k].state = "failed"
  <2>1. e = [state |-> "waiting", made |-> queue[k].made]
    BY <1>4
  <2> QED
    BY <2>1, <1>2 DEF Enqueued
<1>5. CASE queue[k].state # "none" /\ queue[k].state # "failed"
  <2>1. e = queue[k]
    BY <1>5
  <2> QED
    BY <2>1, <1>1 DEF Enqueued
<1> QED
  BY <1>3, <1>4, <1>5
LEMMA DoneIs ==
  ASSUME queue \in [Keys -> Entry], NEW k \in Keys
  PROVE  Done(k) \in [Keys -> Entry]
<1>1. 0 \in 0..(MaxTries - 1)
  BY Bounds
<1>2. [state |-> "none", made |-> 0] \in Entry
  BY <1>1 DEF Entry, EntryState
<1> QED
  BY <1>2 DEF Done
LEMMA ResultIsOutcome ==
  ASSUME NEW k, NEW answer \in Answer
  PROVE  /\ ResultOf(k, answer) \in Outcome
         /\ ResultOf(k, answer) = "sent" <=> answer = "ok"
<1>1. WechatResult(answer) \in Outcome /\ (WechatResult(answer) = "sent" <=> answer = "ok")
  BY DEF WechatResult, Answer, Outcome
<1>2. ResendResult(answer) \in Outcome /\ (ResendResult(answer) = "sent" <=> answer = "ok")
  BY DEF ResendResult, Answer, Outcome
<1> QED
  BY <1>1, <1>2 DEF ResultOf

LEMMA TakenIs ==
  ASSUME NEW S, NEW r
  PROVE  /\ Taken(S, r) \in [Keys -> BOOLEAN] \/ calm \notin [Keys -> BOOLEAN]
         /\ \A k \in Keys : Taken(S, r)[k] => calm[k] /\ ~(k \in S /\ \E q \in Runners \ {r} : Handles(q, k))
BY DEF Taken

\* What a runner may come to remember.
LEMMA RunValues ==
  ASSUME NEW S \in SUBSET Keys, NEW k \in Keys, NEW n \in 0..(MaxAttempts - 1), NEW o \in Outcome,
         NEW b \in BOOLEAN, NEW d \in Int
  PROVE  /\ [at |-> "scan", todo |-> S, bound |-> b, due |-> d] \in Run
         /\ [at |-> "batch", todo |-> S] \in Run
         /\ [at |-> "retry", todo |-> S] \in Run
         /\ [at |-> "batched", todo |-> S, key |-> k, result |-> o] \in Run
         /\ [at |-> "take", key |-> k] \in Run
         /\ [at |-> "send", key |-> k, attempts |-> n] \in Run
         /\ [at |-> "write", key |-> k, attempts |-> n, result |-> o] \in Run
BY DEF Run

\* A key less to do, and nothing when it was the last.
LEMMA TodoDoes ==
  ASSUME run \in [Runners -> Run], NEW r \in Runners, NEW k \in Keys, Todo(r, k),
         run[r].at \in {"scan", "retry"}
  PROVE  /\ run' \in [Runners -> Run]
         /\ \A q \in Runners \ {r} : run'[q] = run[q]
         /\ run'[r].at \in {"idle", run[r].at}
         /\ run'[r].at = "retry" => run'[r].todo = run[r].todo \ {k}
<1> DEFINE x == IF run[r].todo = {k} THEN Idle ELSE [run[r] EXCEPT !.todo = run[r].todo \ {k}]
<1>1. run' = [run EXCEPT ![r] = x]
  BY DEF Todo
<1>2. run[r] \in Run
  OBVIOUS
<1>3. CASE run[r].todo = {k}
  <2>1. x = Idle
    BY <1>3
  <2> HIDE DEF x
  <2> QED
    BY <1>1, <2>1, IdleIsIdle
<1>4. CASE run[r].todo # {k} /\ run[r].at = "scan"
  <2>1. run[r].todo \in SUBSET Keys /\ run[r].bound \in BOOLEAN /\ run[r].due \in Int
        /\ run[r] = [at |-> "scan", todo |-> run[r].todo, bound |-> run[r].bound, due |-> run[r].due]
    BY <1>2, <1>4 DEF Run
  <2>2. x = [at |-> "scan", todo |-> run[r].todo \ {k}, bound |-> run[r].bound, due |-> run[r].due]
    BY <2>1, <1>4
  <2>3. x \in Run /\ x.at = "scan"
    BY <2>1, <2>2 DEF Run
  <2> HIDE DEF x
  <2> QED
    BY <1>1, <1>4, <2>3
<1>5. CASE run[r].todo # {k} /\ run[r].at = "retry"
  <2>1. run[r].todo \in SUBSET Keys /\ run[r] = [at |-> "retry", todo |-> run[r].todo]
    BY <1>2, <1>5 DEF Run
  <2>2. x = [at |-> "retry", todo |-> run[r].todo \ {k}]
    BY <2>1, <1>5
  <2>3. x \in Run /\ x.at = "retry" /\ x.todo = run[r].todo \ {k}
    BY <2>1, <2>2 DEF Run
  <2> HIDE DEF x
  <2> QED
    BY <1>1, <1>5, <2>3
<1> QED
  BY <1>3, <1>4, <1>5

Rest == <<now, preference, situation, bound>>
TypeRest == now \in 0..MaxTime /\ preference \in Preferences /\ situation \in Situations /\ bound \in BOOLEAN
TypeSeen == /\ mails \in [Keys -> 0..2] /\ calls \in [Keys -> 0..(MaxAttempts + 1)]
            /\ lost \subseteq Keys /\ faults \in 0..MaxFaults
TypeRows == log \in [Keys -> LogRow] /\ queue \in [Keys -> Entry]
TypeRuns == run \in [Runners -> Run] /\ calm \in [Keys -> BOOLEAN]
LEMMA TypeParts == TypeOK <=> TypeRest /\ TypeSeen /\ TypeRows /\ TypeRuns
BY DEF TypeOK, TypeRest, TypeSeen, TypeRows, TypeRuns, LogRow, Entry
LEMMA NowIsInt == ASSUME TypeOK PROVE now \in Int
BY Bounds DEF TypeOK

LEMMA TypeInit == Init => TypeOK
<1> SUFFICES ASSUME Init PROVE TypeRest /\ TypeSeen /\ TypeRows /\ TypeRuns
  BY TypeParts
<1>0. 0 \in 0..MaxTime /\ 0 \in 0..2 /\ 0 \in 0..(MaxAttempts + 1) /\ 0 \in 0..MaxFaults
  BY Bounds
<1>1. TypeRest /\ TypeSeen
  BY <1>0 DEF Init, TypeRest, TypeSeen
<1>2. 0 \in 0..(MaxTries - 1) /\ 0 \in Int /\ 0 \in Nat
  BY Bounds
<1>3. TypeRows
  BY <1>2 DEF Init, TypeRows, LogRow, Entry, LogStatus, EntryState
<1>4. TypeRuns
  BY IdleIsIdle DEF Init, TypeRuns
<1> QED
  BY <1>1, <1>3, <1>4

\* A call of the provider counts what it may have delivered.
LEMMA CalledTypes ==
  ASSUME TypeSeen, NEW k \in Keys, NEW answer \in Answer, Called(k, answer)
  PROVE  TypeSeen'
<1>1. mails' \in [Keys -> 0..2]
  BY DEF TypeSeen, Called
<1>2. calls' \in [Keys -> 0..(MaxAttempts + 1)]
  BY Bounds DEF TypeSeen, Called
<1>3. lost' \subseteq Keys /\ faults' \in 0..MaxFaults
  BY Bounds DEF TypeSeen, Called
<1> QED
  BY <1>1, <1>2, <1>3 DEF TypeSeen

LEMMA TypeRestKept ==
  ASSUME TypeOK, [Next]_vars
  PROVE  TypeRest'
<1>1. TypeRest
  BY TypeParts
<1>2. ASSUME UNCHANGED <<now, user>> PROVE TypeRest'
  BY <1>1, <1>2 DEF TypeRest, user
<1>3. ASSUME Tick PROVE TypeRest'
  BY <1>1, <1>3, Bounds DEF Tick, TypeRest, user
<1>4. ASSUME UpdatePreference \/ Change \/ BindWechat PROVE TypeRest'
  BY <1>1, <1>4 DEF UpdatePreference, Change, BindWechat, TypeRest
<1> QED
  BY <1>2, <1>3, <1>4 DEF Next, vars, ScanRead, ScanLog, Preview, Reconcile, WorkerReads, WorkerSends,
       WorkerWrites, WorkerTakes, BatchReads, BatchWrites, BatchSends, RetryReads, RetryWrites, Dies
LEMMA TypeSeenKept ==
  ASSUME TypeOK, [Next]_vars
  PROVE  TypeSeen'
<1>1. TypeSeen
  BY TypeParts
<1>2. ASSUME UNCHANGED <<seen, faults>> PROVE TypeSeen'
  BY <1>1, <1>2 DEF TypeSeen, seen
<1>3. ASSUME NEW w \in Workers, WorkerSends(w) PROVE TypeSeen'
  <2>1. run[w].key \in Keys
    BY <1>3, RunIs DEF TypeOK, WorkerSends, Runners
  <2> QED
    BY <1>1, <1>3, <2>1, CalledTypes DEF WorkerSends
<1>4. ASSUME NEW b \in Batches, NEW k \in Keys, BatchSends(b, k) PROVE TypeSeen'
  BY <1>1, <1>4, CalledTypes DEF BatchSends
<1>5. ASSUME NEW r \in Runners, Dies(r) PROVE TypeSeen'
  BY <1>1, <1>5, Bounds DEF Dies, TypeSeen, seen
<1> QED
  BY <1>2, <1>3, <1>4, <1>5 DEF Next, vars, Tick, UpdatePreference, Change, BindWechat, ScanRead, ScanLog,
       Preview, Reconcile, WorkerReads, WorkerWrites, WorkerTakes, BatchReads, BatchWrites, RetryReads, RetryWrites


\* The rows, by what each step writes.
LEMMA TypeRowsKept ==
  ASSUME TypeOK, [Next]_vars
  PROVE  TypeRows'
<1>1. TypeRows /\ now \in Int
  BY TypeParts, NowIsInt
<1>2. \A k \in Keys : log[k] \in LogRow /\ log[k].due \in Int /\ log[k].attempts \in Nat /\ queue[k] \in Entry
                      /\ queue[k].made \in 0..(MaxTries - 1)
  BY <1>1 DEF TypeRows, LogRow, Entry
<1>a. ASSUME UNCHANGED <<log, queue>> PROVE TypeRows'
  BY <1>1, <1>a DEF TypeRows
<1>b. ASSUME NEW s \in Scanners, NEW k \in Keys, ScanLog(s, k) PROVE TypeRows'
  <2>1. run[s].due \in Int
    BY <1>b, RunIs DEF ScanLog, TypeOK, Runners
  <2>2. queue' \in {queue, Enqueued(k)}
    BY <1>b DEF ScanLog
  <2>3. queue' \in [Keys -> Entry]
    BY <1>1, <2>2, EnqueuedIs DEF TypeRows
  <2>4. \A st \in {"SKIPPED", "QUEUED"} : [status |-> st, attempts |-> 0, due |-> run[s].due] \in LogRow
    BY <2>1 DEF LogRow, LogStatus
  <2>5. \E st \in {"SKIPPED", "QUEUED"} : log' = ScheduledLog(k, st, run[s].due)
    BY <1>b DEF ScanLog
  <2>6. log' \in [Keys -> LogRow]
    BY <1>1, <2>4, <2>5 DEF ScheduledLog, TypeRows
  <2> QED
    BY <2>3, <2>6 DEF TypeRows
<1>c. ASSUME NEW k \in Keys, Preview(k) PROVE TypeRows'
  <2>1. NextScheduledAt(preference, now) \in Int
    BY NextScheduledIsInt, <1>1 DEF TypeOK
  <2>2. queue' \in [Keys -> Entry]
    BY <1>1, <1>c, EnqueuedIs DEF TypeRows, Preview
  <2>3. \A st \in {"SKIPPED", "QUEUED"} :
          [status |-> st, attempts |-> 0, due |-> NextScheduledAt(preference, now)] \in LogRow
    BY <2>1 DEF LogRow, LogStatus
  <2>4. PICK st \in {"SKIPPED", "QUEUED"} : log' =
          [log EXCEPT ![k] = [status |-> st, attempts |-> 0, due |-> NextScheduledAt(preference, now)]]
    BY <1>c DEF Preview
  <2> QED
    BY <1>1, <2>2, <2>3, <2>4 DEF TypeRows
<1>d. ASSUME NEW k \in Keys, Reconcile(k) PROVE TypeRows'
  BY <1>1, <1>d, EnqueuedIs DEF TypeRows, Reconcile
<1>e. ASSUME NEW w \in Workers, NEW k \in Keys, WorkerTakes(w, k) PROVE TypeRows'
  <2>1. [state |-> "active", made |-> queue[k].made] \in Entry
    BY <1>2 DEF Entry, EntryState
  <2> QED
    BY <1>1, <1>e, <2>1 DEF TypeRows, WorkerTakes
<1>f. ASSUME NEW w \in Workers, WorkerReads(w) PROVE TypeRows'
  <2>1. run[w].key \in Keys
    BY <1>f, RunIs DEF WorkerReads, TypeOK, Runners
  <2> QED
    BY <1>1, <1>f, <2>1, DoneIs DEF TypeRows, WorkerReads
<1>g. ASSUME NEW w \in Workers, WorkerWrites(w) PROVE TypeRows'
  <2> DEFINE k == run[w].key
             st == CASE run[w].result = "sent" -> "SENT" [] Retryable(w) -> "QUEUED" [] OTHER -> "FAILED"
  <2>1. k \in Keys /\ run[w].attempts \in 0..(MaxAttempts - 1)
    BY <1>g, RunIs DEF WorkerWrites, TypeOK, Runners
  <2>2. run[w].attempts + 1 \in Nat
    BY <2>1, Bounds
  <2>3. log' = [log EXCEPT ![k] = [status |-> st, attempts |-> run[w].attempts + 1, due |-> log[k].due]]
    BY <1>g DEF WorkerWrites
  <2>4. st \in {"SENT", "QUEUED", "FAILED"}
    BY Zenon
  <2>5. [status |-> st, attempts |-> run[w].attempts + 1, due |-> log[k].due] \in LogRow
    <3> HIDE DEF st
    <3> QED BY <1>2, <2>1, <2>2, <2>4 DEF LogRow, LogStatus
  <2>6. log' \in [Keys -> LogRow]
    BY <1>1, <2>3, <2>5 DEF TypeRows
  <2>7. CASE Retryable(w)
    <3>1. queue[k].made + 1 \in 0..(MaxTries - 1)
      BY <1>2, <2>1, <2>7, Bounds DEF Retryable
    <3>2. [state |-> "waiting", made |-> queue[k].made + 1] \in Entry
      BY <3>1 DEF Entry, EntryState
    <3>3. queue' \in [Keys -> Entry]
      BY <1>1, <1>g, <2>7, <3>2 DEF TypeRows, WorkerWrites
    <3> QED BY <2>6, <3>3 DEF TypeRows
  <2>8. CASE ~Retryable(w)
    <3>1. queue' \in [Keys -> Entry]
      BY <1>1, <1>g, <2>1, <2>8, DoneIs DEF TypeRows, WorkerWrites
    <3> QED BY <2>6, <3>1 DEF TypeRows
  <2> QED BY <2>7, <2>8
<1>h. ASSUME NEW b \in Batches, BatchWrites(b) PROVE TypeRows'
  <2>1. run[b].key \in Keys
    BY <1>h, RunIs DEF BatchWrites, TypeOK, Runners
  <2>2. PICK st \in {"SENT", "FAILED"} : log' = [log EXCEPT ![run[b].key] =
          [status |-> st, attempts |-> log[run[b].key].attempts + 1, due |-> log[run[b].key].due]]
    BY <1>h DEF BatchWrites
  <2>3. log[run[b].key].attempts + 1 \in Nat
    BY <1>2, <2>1
  <2>4. [status |-> st, attempts |-> log[run[b].key].attempts + 1, due |-> log[run[b].key].due] \in LogRow
    BY <1>2, <2>1, <2>3 DEF LogRow, LogStatus
  <2> QED
    BY <1>1, <1>h, <2>2, <2>4 DEF TypeRows, BatchWrites
<1>i. ASSUME NEW r \in Retriers, NEW k \in Keys, RetryWrites(r, k) PROVE TypeRows'
  <2>1. [status |-> "QUEUED", attempts |-> log[k].attempts, due |-> now] \in LogRow
    BY <1>1, <1>2 DEF LogRow, LogStatus
  <2>2. queue' \in [Keys -> Entry]
    BY <1>1, <1>i, EnqueuedIs DEF TypeRows, RetryWrites
  <2> QED
    BY <1>1, <1>i, <2>1, <2>2 DEF TypeRows, RetryWrites
<1>j. ASSUME NEW r \in Runners, Dies(r) PROVE TypeRows'
  <2>1. CASE r \notin Workers \/ run[r].key \notin Keys
    BY <1>1, <1>j, <2>1 DEF TypeRows, Dies
  <2>2. CASE r \in Workers /\ run[r].key \in Keys
    <3>1. \A s \in {"waiting", "failed"} : [state |-> s, made |-> queue[run[r].key].made] \in Entry
      BY <1>2, <2>2 DEF Entry, EntryState
    <3> QED
      BY <1>1, <1>j, <2>2, <3>1 DEF TypeRows, Dies
  <2> QED BY <2>1, <2>2
<1> QED
  BY <1>a, <1>b, <1>c, <1>d, <1>e, <1>f, <1>g, <1>h, <1>i, <1>j
     DEF Next, vars, Tick, UpdatePreference, Change, BindWechat, ScanRead, WorkerSends, BatchReads,
         BatchSends, RetryReads

LEMMA TypeRunsKept ==
  ASSUME TypeOK, [Next]_vars
  PROVE  TypeRuns'
<1>1. TypeRuns /\ now \in Int
  BY TypeParts, NowIsInt
<1>2. ASSUME NEW r \in Runners, NEW x \in Run, run' = [run EXCEPT ![r] = x] PROVE run' \in [Runners -> Run]
  BY <1>1, <1>2 DEF TypeRuns
<1>3. ASSUME NEW S, NEW r, calm' = Taken(S, r) PROVE calm' \in [Keys -> BOOLEAN]
  BY <1>1, <1>3, TakenIs DEF TypeRuns
<1>r. \A r \in Runners : /\ run[r].at \in {"batch", "retry", "batched"} => run[r].todo \in SUBSET Keys
                         /\ run[r].at \in {"batched", "take", "send", "write"} => run[r].key \in Keys
                         /\ run[r].at \in {"send", "write"} => run[r].attempts \in 0..(MaxAttempts - 1)
  BY RunIs, <1>1 DEF TypeRuns
<1>a. ASSUME UNCHANGED <<run, calm>> PROVE TypeRuns'
  BY <1>1, <1>a DEF TypeRuns
<1>b. ASSUME NEW s \in Scanners, ScanRead(s) PROVE TypeRuns'
  <2>1. ScheduledAt(preference, now) \in Int /\ bound \in BOOLEAN
    BY ScheduledIsInt, <1>1 DEF TypeOK
  <2>2. [at |-> "scan", todo |-> Candidates(situation, preference, now), bound |-> bound,
         due |-> ScheduledAt(preference, now)] \in Run
    BY <2>1, CandidatesAreKeys DEF Run
  <2> QED
    BY <1>1, <1>2, <1>b, <2>2 DEF ScanRead, TypeRuns, Runners
<1>c. ASSUME NEW s \in Scanners, NEW k \in Keys, ScanLog(s, k) PROVE TypeRuns'
  BY <1>1, <1>c, TodoDoes DEF ScanLog, TypeRuns, Runners
<1>d. ASSUME NEW w \in Workers, NEW k \in Keys, WorkerTakes(w, k) PROVE TypeRuns'
  <2>1. [at |-> "take", key |-> k] \in Run
    BY DEF Run
  <2> QED BY <1>1, <1>2, <1>d, <2>1 DEF WorkerTakes, TypeRuns, Runners
<1>e. ASSUME NEW w \in Workers, WorkerReads(w) PROVE TypeRuns'
  <2>1. CASE ~Sendable(run[w].key)
    BY <1>1, <1>2, <1>e, <2>1, IdleIsIdle DEF WorkerReads, TypeRuns, Runners
  <2>2. CASE Sendable(run[w].key)
    <3>1. run[w].key \in Keys
      BY <1>r, <1>e DEF WorkerReads, Runners
    <3>2. log[run[w].key].attempts \in 0..(MaxAttempts - 1)
      BY <2>2, <3>1, Bounds DEF TypeOK, Sendable
    <3>3. [at |-> "send", key |-> run[w].key, attempts |-> log[run[w].key].attempts] \in Run
      BY <3>1, <3>2 DEF Run
    <3>4. run' \in [Runners -> Run]
      BY <1>2, <1>e, <2>2, <3>3 DEF WorkerReads, Runners
    <3>5. calm' \in [Keys -> BOOLEAN]
      BY <1>3, <1>e, <2>2 DEF WorkerReads
    <3> QED BY <3>4, <3>5 DEF TypeRuns
  <2> QED BY <2>1, <2>2
<1>f. ASSUME NEW w \in Workers, WorkerSends(w) PROVE TypeRuns'
  <2>1. run[w].key \in Keys /\ run[w].attempts \in 0..(MaxAttempts - 1)
    BY <1>r, <1>f DEF WorkerSends, Runners
  <2>2. PICK answer \in Answer : run' = [run EXCEPT ![w] =
          [at |-> "write", key |-> run[w].key, attempts |-> run[w].attempts,
           result |-> ResultOf(run[w].key, answer)]]
    BY <1>f DEF WorkerSends
  <2>3. [at |-> "write", key |-> run[w].key, attempts |-> run[w].attempts,
         result |-> ResultOf(run[w].key, answer)] \in Run
    BY <2>1, ResultIsOutcome DEF Run
  <2> QED BY <1>1, <1>2, <1>f, <2>2, <2>3 DEF WorkerSends, TypeRuns, Runners
<1>g. ASSUME NEW w \in Workers, WorkerWrites(w) PROVE TypeRuns'
  BY <1>1, <1>2, <1>g, IdleIsIdle DEF WorkerWrites, TypeRuns, Runners, seen
<1>h. ASSUME NEW b \in Batches, BatchReads(b) PROVE TypeRuns'
  <2>1. [at |-> "batch", todo |-> {k \in Keys : Sendable(k)}] \in Run
    BY DEF Run
  <2>2. run' \in [Runners -> Run]
    BY <1>2, <1>h, <2>1 DEF BatchReads, Runners
  <2> QED BY <1>3, <1>h, <2>2 DEF BatchReads, TypeRuns
<1>i. ASSUME NEW b \in Batches, NEW k \in Keys, BatchSends(b, k) PROVE TypeRuns'
  <2>1. run[b].todo \in SUBSET Keys
    BY <1>r, <1>i DEF BatchSends, Runners
  <2>2. PICK o \in {"sent", "refused"} : run' = [run EXCEPT ![b] =
          [at |-> "batched", todo |-> run[b].todo \ {k}, key |-> k, result |-> o]]
    BY <1>i DEF BatchSends
  <2>3. [at |-> "batched", todo |-> run[b].todo \ {k}, key |-> k, result |-> o] \in Run
    BY <2>1 DEF Run, Outcome
  <2> QED BY <1>1, <1>2, <1>i, <2>2, <2>3 DEF BatchSends, TypeRuns, Runners
<1>j. ASSUME NEW b \in Batches, BatchWrites(b) PROVE TypeRuns'
  <2>1. run[b].todo \in SUBSET Keys
    BY <1>r, <1>j DEF BatchWrites, Runners
  <2>2. [at |-> "batch", todo |-> run[b].todo] \in Run
    BY <2>1 DEF Run
  <2> QED BY <1>1, <1>2, <1>j, <2>2, IdleIsIdle DEF BatchWrites, TypeRuns, Runners
<1>k. ASSUME NEW r \in Retriers, RetryReads(r) PROVE TypeRuns'
  <2>1. PICK S \in SUBSET Failed \ {{}} : run' = [run EXCEPT ![r] = [at |-> "retry", todo |-> S]]
                                        /\ calm' = Taken(S, r)
    BY <1>k DEF RetryReads
  <2>2. [at |-> "retry", todo |-> S] \in Run
    BY DEF Run, Failed
  <2>3. run' \in [Runners -> Run]
    BY <1>2, <2>1, <2>2 DEF Runners
  <2> QED BY <1>3, <2>1, <2>3 DEF TypeRuns
<1>l. ASSUME NEW r \in Retriers, NEW k \in Keys, RetryWrites(r, k) PROVE TypeRuns'
  BY <1>1, <1>l, TodoDoes DEF RetryWrites, TypeRuns, Runners
<1>m. ASSUME NEW r \in Runners, Dies(r) PROVE TypeRuns'
  <2>1. calm' \in [Keys -> BOOLEAN]
    BY <1>1, <1>m DEF Dies, TypeRuns
  <2> QED BY <1>2, <1>m, <2>1, IdleIsIdle DEF Dies, TypeRuns
<1> QED
  BY <1>a, <1>b, <1>c, <1>d, <1>e, <1>f, <1>g, <1>h, <1>i, <1>j, <1>k, <1>l, <1>m
     DEF Next, vars, Tick, UpdatePreference, Change, BindWechat, Preview, Reconcile

LEMMA TypeStep == TypeOK /\ [Next]_vars => TypeOK'
<1> SUFFICES ASSUME TypeOK, [Next]_vars PROVE TypeOK'
  OBVIOUS
<1>1. TypeRest' /\ TypeSeen' /\ TypeRows' /\ TypeRuns'
  BY TypeRestKept, TypeSeenKept, TypeRowsKept, TypeRunsKept
<1> QED
  BY <1>1 DEF TypeOK, TypeRest, TypeSeen, TypeRows, TypeRuns, LogRow, Entry


(***************************************************************************)
(* What a step does to one log.                                            *)
(***************************************************************************)
\* Whoever handles a log does one of three things with it.
LEMMA HandlesIs ==
  ASSUME run \in [Runners -> Run], NEW r \in Runners, NEW k
  PROVE  Handles(r, k) <=> Sending(r, k) \/ Retrying(r, k) \/ Recording(r, k)
BY DEF Handles, Sending, Retrying, Recording

\* The runner r goes on with k as it was.
SameFor(r, k) ==
  /\ Sending(r, k)' <=> Sending(r, k)
  /\ Retrying(r, k)' <=> Retrying(r, k)
  /\ Recording(r, k)' <=> Recording(r, k)
  /\ Sending(r, k) /\ run'[r].at = "send" => run[r].at = "send" /\ run'[r].attempts = run[r].attempts
  /\ Recording(r, k) => /\ run'[r].result = run[r].result
                        /\ run'[r].at = "write" => run[r].at = "write" /\ run'[r].attempts = run[r].attempts

\* The step has nothing to do with k.
SameRow(k) ==
  /\ log'[k] = log[k] /\ mails'[k] = mails[k] /\ calls'[k] = calls[k]
  /\ k \in lost' <=> k \in lost
Kept(k) ==
  /\ SameRow(k)
  /\ calm'[k] => calm[k]
  /\ \A r \in Runners : SameFor(r, k)

LEMMA SameRunner ==
  ASSUME NEW r \in Runners, NEW k, run'[r] = run[r]
  PROVE  SameFor(r, k) /\ (Handles(r, k)' <=> Handles(r, k))
BY DEF SameFor, Sending, Retrying, Recording, Handles

LEMMA NotHandled ==
  ASSUME run \in [Runners -> Run], run' \in [Runners -> Run], NEW r \in Runners, NEW k,
         ~Handles(r, k), ~Handles(r, k)'
  PROVE  SameFor(r, k)
BY DEF SameFor, Sending, Retrying, Recording, Handles

LEMMA SameHandles ==
  ASSUME NEW r \in Runners, NEW k, SameFor(r, k)
  PROVE  Handles(r, k)' <=> Handles(r, k)
BY DEF SameFor, Sending, Retrying, Recording, Handles

LEMMA KeptHolds ==
  ASSUME NEW k \in Keys, KeyInv(k), Kept(k)
  PROVE  KeyInv(k)'
<1>1. \A r \in Runners : SameFor(r, k) /\ (Handles(r, k)' <=> Handles(r, k))
  BY SameHandles DEF Kept
<1>2. SameRow(k) /\ (calm'[k] => calm[k])
  BY DEF Kept
<1>3. Unsent(k)' <=> Unsent(k)
  BY <1>2 DEF Unsent, SameRow
<1>4. Unwritten(k)'
  BY <1>1, <1>2 DEF KeyInv, Unwritten, SameRow
<1>5. ASSUME calm'[k] PROVE Calm(k)'
  <2>1. Calm(k)
    BY <1>2, <1>5 DEF KeyInv
  <2>2. OneHandles(k)'
    BY <1>1, <2>1 DEF Calm, OneHandles, SameFor
  <2>3. WhileSending(k)'
    BY <1>1, <1>2, <1>3, <2>1 DEF Calm, WhileSending, SameFor, SameRow
  <2>4. WhileRetrying(k)'
    BY <1>1, <1>2, <1>3, <2>1 DEF Calm, WhileRetrying, SameFor, SameRow
  <2>5. WhileRecording(k)'
    BY <1>1, <1>2, <1>3, <2>1 DEF Calm, WhileRecording, SameFor, SameRow
  <2>6. AtRest(k)'
    BY <1>1, <1>2, <1>3, <2>1 DEF Calm, AtRest, SameRow
  <2> QED
    BY <2>2, <2>3, <2>4, <2>5, <2>6 DEF Calm
<1> QED
  BY <1>4, <1>5 DEF KeyInv

\* What only the runner r may have to do with.
Alone(r) == \A q \in Runners \ {r} : run'[q] = run[q]

\* A log that nobody else handles is read, to be sent or to be queued again.
LEMMA BeginHolds ==
  ASSUME TypeOK, TypeOK', NEW k \in Keys, KeyInv(k), NEW r \in Runners, Alone(r), SameRow(k),
         ~Handles(r, k), log[k].attempts < MaxAttempts,
         calm'[k] => calm[k] /\ \A q \in Runners \ {r} : ~Handles(q, k),
         \/ /\ log[k].status = "QUEUED"
            /\ Sending(r, k)' /\ ~Retrying(r, k)' /\ ~Recording(r, k)'
            /\ run'[r].at = "send" => run'[r].attempts = log[k].attempts
         \/ /\ log[k].status = "FAILED"
            /\ Retrying(r, k)' /\ ~Sending(r, k)' /\ ~Recording(r, k)'
  PROVE  KeyInv(k)'
<1>0. run \in [Runners -> Run] /\ run' \in [Runners -> Run]
  BY DEF TypeOK
<1>1. log'[k].status # "NONE"
  BY DEF SameRow
<1>2. Unwritten(k)'
  BY <1>1 DEF Unwritten
<1>3. ASSUME calm'[k] PROVE Calm(k)'
  <2>1. Calm(k) /\ \A q \in Runners : ~Handles(q, k)
    BY <1>3 DEF KeyInv
  <2>2. \A q \in Runners \ {r} : ~Handles(q, k)'
    BY <2>1, SameRunner DEF Alone
  <2>3. \A q \in Runners \ {r} : ~Sending(q, k)' /\ ~Retrying(q, k)' /\ ~Recording(q, k)'
    BY <1>0, <2>2 DEF Handles, Sending, Retrying, Recording
  <2>4. calls'[k] = log'[k].attempts /\ log'[k].attempts < MaxAttempts
    BY <2>1 DEF Calm, AtRest, SameRow
  <2>5. Unsent(k)'
    BY <2>1 DEF Calm, AtRest, SameRow, Unsent
  <2>6. Handles(r, k)'
    BY DEF Handles, Sending, Retrying
  <2>7. OneHandles(k)'
    BY <2>2, <2>3 DEF OneHandles
  <2>8. WhileSending(k)'
    BY <2>3, <2>4, <2>5 DEF WhileSending, SameRow
  <2>9. WhileRetrying(k)'
    BY <2>3, <2>4, <2>5 DEF WhileRetrying, SameRow
  <2>10. WhileRecording(k)'
    BY <2>3 DEF WhileRecording
  <2>11. AtRest(k)'
    BY <2>6 DEF AtRest
  <2> QED
    BY <2>7, <2>8, <2>9, <2>10, <2>11 DEF Calm
<1> QED
  BY <1>2, <1>3 DEF KeyInv

\* The provider is called for the log.
LEMMA CallHolds ==
  ASSUME TypeOK, TypeOK', NEW k \in Keys, KeyInv(k), NEW r \in Runners, Alone(r),
         NEW answer \in Answer, Called(k, answer), log' = log, calm' = calm,
         Sending(r, k), Recording(r, k)', ~Sending(r, k)', ~Retrying(r, k)',
         run'[r].result = "sent" <=> answer = "ok",
         run'[r].at = "write" => run[r].at = "send" /\ run'[r].attempts = run[r].attempts
  PROVE  KeyInv(k)'
<1>0. run \in [Runners -> Run] /\ run' \in [Runners -> Run] /\ mails[k] \in 0..2 /\ calls[k] \in Nat
      /\ mails \in [Keys -> 0..2] /\ calls \in [Keys -> 0..(MaxAttempts + 1)] /\ MaxAttempts \in Nat
      /\ log[k].attempts \in Nat
  BY Bounds DEF TypeOK
<1>1. Handles(r, k) /\ Handles(r, k)'
  BY DEF Handles, Sending, Recording
<1>2. Unwritten(k)'
  BY <1>1 DEF Unwritten, KeyInv
<1>3. ASSUME calm'[k] PROVE Calm(k)'
  <2>1. Calm(k)
    BY <1>3 DEF KeyInv
  <2>2. \A q \in Runners \ {r} : ~Handles(q, k) /\ ~Handles(q, k)'
    BY <1>1, <2>1, SameRunner DEF Alone, Calm, OneHandles
  <2>3. \A q \in Runners \ {r} : ~Sending(q, k)' /\ ~Retrying(q, k)' /\ ~Recording(q, k)'
    BY <1>0, <2>2 DEF Handles, Sending, Retrying, Recording
  <2>4. /\ log[k].status = "QUEUED" /\ log[k].attempts < MaxAttempts /\ calls[k] = log[k].attempts
        /\ run[r].at = "send" => run[r].attempts = log[k].attempts
        /\ Unsent(k)
    BY <2>1 DEF Calm, WhileSending
  <2>5. calls'[k] = log[k].attempts + 1
    BY <1>0, <2>4 DEF Called
  <2>6. mails'[k] = IF answer \in {"ok", "cut"} /\ mails[k] < 2 THEN mails[k] + 1 ELSE mails[k]
    BY <1>0 DEF Called
  <2>7. k \notin lost' => k \notin lost /\ answer # "cut"
    BY DEF Called
  <2>8. k \notin lost' => mails'[k] <= 1
    BY <1>0, <2>4, <2>6, <2>7 DEF Unsent
  <2>9. run'[r].result # "sent" => Unsent(k)'
    BY <2>4, <2>6, <2>7 DEF Unsent
  <2>10. OneHandles(k)'
    BY <2>2, <2>3 DEF OneHandles
  <2>11. WhileSending(k)' /\ WhileRetrying(k)'
    BY <2>3 DEF WhileSending, WhileRetrying
  <2>12. WhileRecording(k)'
    BY <2>3, <2>4, <2>5, <2>8, <2>9 DEF WhileRecording
  <2>13. AtRest(k)'
    BY <1>1 DEF AtRest
  <2> QED
    BY <2>10, <2>11, <2>12, <2>13 DEF Calm
<1> QED
  BY <1>2, <1>3 DEF KeyInv

\* What the provider said is written.
LEMMA RecordHolds ==
  ASSUME TypeOK, TypeOK', NEW k \in Keys, KeyInv(k), NEW r \in Runners, Alone(r),
         UNCHANGED seen, calm' = calm, Recording(r, k), ~Handles(r, k)',
         log'[k].status \in {"SENT", "FAILED", "QUEUED"},
         log'[k].status = "SENT" <=> run[r].result = "sent",
         run[r].at = "write" => log'[k].attempts = run[r].attempts + 1,
         run[r].at = "batched" => log'[k].attempts = log[k].attempts + 1,
         log'[k].status = "QUEUED" => log'[k].attempts < MaxAttempts
  PROVE  KeyInv(k)'
<1>0. run \in [Runners -> Run] /\ run' \in [Runners -> Run]
  BY DEF TypeOK
<1>1. Handles(r, k)
  BY DEF Handles, Recording
<1>2. Unwritten(k)'
  BY DEF Unwritten
<1>3. ASSUME calm'[k] PROVE Calm(k)'
  <2>1. Calm(k)
    BY <1>3 DEF KeyInv
  <2>2. \A q \in Runners : ~Handles(q, k)'
    BY <1>1, <2>1, SameRunner DEF Alone, Calm, OneHandles
  <2>3. \A q \in Runners : ~Sending(q, k)' /\ ~Retrying(q, k)' /\ ~Recording(q, k)'
    BY <1>0, <2>2 DEF Handles, Sending, Retrying, Recording
  <2>4. /\ calls[k] = log[k].attempts + 1
        /\ run[r].at = "write" => run[r].attempts = log[k].attempts
        /\ run[r].result # "sent" => Unsent(k)
        /\ k \notin lost => mails[k] <= 1
    BY <2>1 DEF Calm, WhileRecording
  <2>5. calls'[k] = log'[k].attempts
    BY <2>4 DEF Recording, seen
  <2>6. Unsent(k)' <=> Unsent(k)
    BY DEF Unsent, seen
  <2>7. AtRest(k)'
    BY <2>4, <2>5, <2>6 DEF AtRest, seen
  <2>8. OneHandles(k)' /\ WhileSending(k)' /\ WhileRetrying(k)' /\ WhileRecording(k)'
    BY <2>2, <2>3 DEF OneHandles, WhileSending, WhileRetrying, WhileRecording
  <2> QED
    BY <2>7, <2>8 DEF Calm
<1> QED
  BY <1>2, <1>3 DEF KeyInv

\* What failed is queued again.
LEMMA RequeueHolds ==
  ASSUME TypeOK, TypeOK', NEW k \in Keys, KeyInv(k), NEW r \in Runners, Alone(r),
         UNCHANGED seen, calm' = calm, Retrying(r, k), ~Handles(r, k)',
         log'[k].status = "QUEUED", log'[k].attempts = log[k].attempts
  PROVE  KeyInv(k)'
<1>0. run \in [Runners -> Run] /\ run' \in [Runners -> Run]
  BY DEF TypeOK
<1>1. Handles(r, k)
  BY DEF Handles, Retrying
<1>2. Unwritten(k)'
  BY DEF Unwritten
<1>3. ASSUME calm'[k] PROVE Calm(k)'
  <2>1. Calm(k)
    BY <1>3 DEF KeyInv
  <2>2. \A q \in Runners : ~Handles(q, k)'
    BY <1>1, <2>1, SameRunner DEF Alone, Calm, OneHandles
  <2>3. \A q \in Runners : ~Sending(q, k)' /\ ~Retrying(q, k)' /\ ~Recording(q, k)'
    BY <1>0, <2>2 DEF Handles, Sending, Retrying, Recording
  <2>4. log[k].attempts < MaxAttempts /\ calls[k] = log[k].attempts /\ Unsent(k)
    BY <2>1 DEF Calm, WhileRetrying
  <2>5. Unsent(k)' /\ (k \notin lost' => mails'[k] <= 1)
    BY <2>4 DEF Unsent, seen
  <2>6. AtRest(k)'
    BY <2>4, <2>5 DEF AtRest, seen
  <2>7. OneHandles(k)' /\ WhileSending(k)' /\ WhileRetrying(k)' /\ WhileRecording(k)'
    BY <2>2, <2>3 DEF OneHandles, WhileSending, WhileRetrying, WhileRecording
  <2> QED
    BY <2>6, <2>7 DEF Calm
<1> QED
  BY <1>2, <1>3 DEF KeyInv

\* The row of a log is written, that nobody handles yet.
LEMMA WrittenHolds ==
  ASSUME TypeOK, TypeOK', NEW k \in Keys, KeyInv(k), UNCHANGED seen, calm' = calm,
         \A r \in Runners : Handles(r, k)' <=> Handles(r, k),
         log[k].status = "NONE", log'[k].status \in {"QUEUED", "SKIPPED"}, log'[k].attempts = 0
  PROVE  KeyInv(k)'
<1>0. run \in [Runners -> Run] /\ run' \in [Runners -> Run]
  BY DEF TypeOK
<1>1. calls[k] = 0 /\ mails[k] = 0 /\ \A r \in Runners : ~Handles(r, k)'
  BY DEF KeyInv, Unwritten
<1>2. Unwritten(k)'
  BY DEF Unwritten
<1>3. \A q \in Runners : ~Sending(q, k)' /\ ~Retrying(q, k)' /\ ~Recording(q, k)'
  BY <1>0, <1>1 DEF Handles, Sending, Retrying, Recording
<1>4. Unsent(k)' /\ mails'[k] <= 1
  BY <1>1 DEF Unsent, seen
<1>5. AtRest(k)'
  BY <1>1, <1>4, Bounds DEF AtRest, seen
<1>6. OneHandles(k)' /\ WhileSending(k)' /\ WhileRetrying(k)' /\ WhileRecording(k)'
  BY <1>1, <1>3 DEF OneHandles, WhileSending, WhileRetrying, WhileRecording
<1> QED
  BY <1>2, <1>5, <1>6 DEF KeyInv, Calm


(***************************************************************************)
(* The steps, one lemma for each kind of runner.                           *)
(***************************************************************************)
\* One runner moves, that does not handle k before or after.
LEMMA AsideHolds ==
  ASSUME TypeOK, TypeOK', NEW k \in Keys, KeyInv(k), NEW r \in Runners, Alone(r), SameRow(k),
         calm'[k] => calm[k], ~Handles(r, k), ~Handles(r, k)'
  PROVE  KeyInv(k)'
<1>0. run \in [Runners -> Run] /\ run' \in [Runners -> Run]
  BY DEF TypeOK
<1>1. \A q \in Runners : SameFor(q, k)
  BY <1>0, SameRunner, NotHandled DEF Alone
<1> QED
  BY <1>1, KeptHolds DEF Kept

LEMMA QuietStep ==
  ASSUME NEW k \in Keys, KeyInv(k), UNCHANGED <<log, run, seen, calm>>
  PROVE  KeyInv(k)'
<1>1. \A r \in Runners : SameFor(r, k)
  BY SameRunner
<1> QED
  BY <1>1, KeptHolds DEF Kept, SameRow, seen

LEMMA ScanStep ==
  ASSUME TypeOK, TypeOK', NEW k \in Keys, KeyInv(k), NEW s \in Scanners,
         ScanRead(s) \/ \E j \in Keys : ScanLog(s, j)
  PROVE  KeyInv(k)'
<1>0. s \in Runners /\ run \in [Runners -> Run] /\ log \in [Keys -> LogRow]
  BY DEF TypeOK, Runners, LogRow
<1>1. CASE ScanRead(s)
  <2>1. Alone(s) /\ run'[s].at = "scan" /\ run[s].at = "idle"
    BY <1>0, <1>1, IdleIsIdle DEF ScanRead, Alone
  <2>2. ~Handles(s, k) /\ ~Handles(s, k)'
    BY <2>1 DEF Handles
  <2>3. SameRow(k) /\ (calm'[k] => calm[k])
    BY <1>1 DEF ScanRead, SameRow, seen
  <2> QED
    BY <1>0, <2>1, <2>2, <2>3, AsideHolds
<1>2. ASSUME NEW j \in Keys, ScanLog(s, j) PROVE KeyInv(k)'
  <2>1. Alone(s) /\ run'[s].at \in {"scan", "idle"} /\ run[s].at = "scan"
    BY <1>0, <1>2, TodoDoes DEF ScanLog, Alone
  <2>2. ~Handles(s, k) /\ ~Handles(s, k)'
    BY <2>1 DEF Handles
  <2>3. UNCHANGED <<seen, calm>>
    BY <1>2 DEF ScanLog
  <2>4. PICK st \in {"SKIPPED", "QUEUED"} : log' = ScheduledLog(j, st, run[s].due)
    BY <1>2 DEF ScanLog
  <2>5. CASE k = j /\ log[k].status = "NONE"
    <3>1. log'[k] = [status |-> st, attempts |-> 0, due |-> run[s].due]
      BY <1>0, <2>4, <2>5 DEF ScheduledLog
    <3>2. \A r \in Runners : Handles(r, k)' <=> Handles(r, k)
      BY <2>1, <2>2, SameRunner DEF Alone
    <3> QED
      BY <2>3, <2>5, <3>1, <3>2, WrittenHolds
  <2>6. CASE k # j \/ log[k].status # "NONE"
    <3>1. log'[k] = log[k]
      BY <1>0, <2>4, <2>6 DEF ScheduledLog
    <3>2. SameRow(k)
      BY <2>3, <3>1 DEF SameRow, seen
    <3> QED
      BY <1>0, <2>1, <2>2, <2>3, <3>2, AsideHolds
  <2> QED
    BY <2>5, <2>6
<1> QED
  BY <1>1, <1>2

LEMMA PreviewStep ==
  ASSUME TypeOK, TypeOK', NEW k \in Keys, KeyInv(k), NEW j \in Keys, Preview(j)
  PROVE  KeyInv(k)'
<1>0. log \in [Keys -> LogRow]
  BY DEF TypeOK, LogRow
<1>1. UNCHANGED <<run, seen, calm>> /\ log[j].status = "NONE"
  BY DEF Preview
<1>2. \A r \in Runners : SameFor(r, k) /\ (Handles(r, k)' <=> Handles(r, k))
  BY <1>1, SameRunner
<1>3. PICK st \in {"SKIPPED", "QUEUED"} : log' =
        [log EXCEPT ![j] = [status |-> st, attempts |-> 0, due |-> NextScheduledAt(preference, now)]]
  BY DEF Preview
<1>4. CASE k = j
  <2>1. log'[k] = [status |-> st, attempts |-> 0, due |-> NextScheduledAt(preference, now)]
    BY <1>0, <1>3, <1>4
  <2> QED
    BY <1>1, <1>2, <1>4, <2>1, WrittenHolds
<1>5. CASE k # j
  <2>1. SameRow(k)
    BY <1>0, <1>1, <1>3, <1>5 DEF SameRow, seen
  <2> QED
    BY <1>1, <1>2, <2>1, KeptHolds DEF Kept
<1> QED
  BY <1>4, <1>5

LEMMA WorkerStep ==
  ASSUME TypeOK, TypeOK', NEW k \in Keys, KeyInv(k), NEW w \in Workers,
         WorkerReads(w) \/ WorkerSends(w) \/ WorkerWrites(w) \/ \E j \in Keys : WorkerTakes(w, j)
  PROVE  KeyInv(k)'
<1>0. /\ w \in Runners /\ run \in [Runners -> Run] /\ log \in [Keys -> LogRow]
      /\ mails \in [Keys -> 0..2] /\ calls \in [Keys -> 0..(MaxAttempts + 1)]
  BY DEF TypeOK, Runners, LogRow
<1>1. ASSUME NEW j \in Keys, WorkerTakes(w, j) PROVE KeyInv(k)'
  <2>1. Alone(w) /\ run'[w].at = "take" /\ run[w].at = "idle"
    BY <1>0, <1>1, IdleIsIdle DEF WorkerTakes, Alone
  <2>2. ~Handles(w, k) /\ ~Handles(w, k)'
    BY <2>1 DEF Handles
  <2>3. SameRow(k) /\ (calm'[k] => calm[k])
    BY <1>1 DEF WorkerTakes, SameRow, seen
  <2> QED
    BY <1>0, <2>1, <2>2, <2>3, AsideHolds
<1>2. CASE WorkerReads(w)
  <2> DEFINE j == run[w].key
  <2>0. run[w].at = "take" /\ Alone(w) /\ SameRow(k)
    BY <1>0, <1>2 DEF WorkerReads, Alone, SameRow, seen
  <2>1. ~Handles(w, k)
    BY <2>0 DEF Handles
  <2>2. CASE ~Sendable(j)
    <3>1. run'[w] = Idle /\ calm' = calm
      BY <1>0, <1>2, <2>2 DEF WorkerReads
    <3>2. ~Handles(w, k)'
      BY <3>1, IdleIsIdle DEF Handles
    <3> QED
      BY <1>0, <2>0, <2>1, <3>1, <3>2, AsideHolds
  <2>3. CASE Sendable(j)
    <3>1. run'[w] = [at |-> "send", key |-> j, attempts |-> log[j].attempts] /\ calm' = Taken({j}, w)
      BY <1>0, <1>2, <2>3 DEF WorkerReads
    <3>2. calm'[k] => calm[k] /\ (k = j => \A q \in Runners \ {w} : ~Handles(q, k))
      BY <3>1, TakenIs
    <3>3. CASE k = j
      <4>1. Sending(w, k)' /\ ~Retrying(w, k)' /\ ~Recording(w, k)'
        BY <3>1, <3>3 DEF Sending, Retrying, Recording
      <4>2. log[k].status = "QUEUED" /\ log[k].attempts < MaxAttempts
        BY <2>3, <3>3 DEF Sendable
      <4>3. run'[w].attempts = log[k].attempts
        BY <3>1, <3>3
      <4> QED
        BY <1>0, <2>0, <2>1, <3>2, <3>3, <4>1, <4>2, <4>3, BeginHolds
    <3>4. CASE k # j
      <4>1. ~Handles(w, k)'
        BY <3>1, <3>4 DEF Handles
      <4> QED
        BY <1>0, <2>0, <2>1, <3>2, <4>1, AsideHolds
    <3> QED
      BY <3>3, <3>4
  <2> QED
    BY <2>2, <2>3
<1>3. CASE WorkerSends(w)
  <2> DEFINE j == run[w].key
  <2>1. PICK answer \in Answer :
          /\ run' = [run EXCEPT ![w] = [at |-> "write", key |-> j, attempts |-> run[w].attempts,
                                        result |-> ResultOf(j, answer)]]
          /\ Called(j, answer)
    BY <1>3 DEF WorkerSends
  <2>2. Alone(w) /\ run[w].at = "send" /\ log' = log /\ calm' = calm
    BY <1>0, <1>3, <2>1 DEF WorkerSends, Alone
  <2>3. run'[w] = [at |-> "write", key |-> j, attempts |-> run[w].attempts, result |-> ResultOf(j, answer)]
    BY <1>0, <2>1
  <2>4. CASE k = j
    <3>1. Sending(w, k) /\ Recording(w, k)' /\ ~Sending(w, k)' /\ ~Retrying(w, k)'
      BY <2>2, <2>3, <2>4 DEF Sending, Retrying, Recording
    <3>2. run'[w].result = "sent" <=> answer = "ok"
      BY <2>3, ResultIsOutcome
    <3>3. run'[w].attempts = run[w].attempts
      BY <2>3
    <3> QED
      BY <1>0, <2>1, <2>2, <2>4, <3>1, <3>2, <3>3, CallHolds
  <2>5. CASE k # j
    <3>1. ~Handles(w, k) /\ ~Handles(w, k)'
      BY <2>2, <2>3, <2>5 DEF Handles
    <3>2. SameRow(k)
      BY <1>0, <2>1, <2>2, <2>5 DEF SameRow, Called
    <3> QED
      BY <1>0, <2>2, <3>1, <3>2, AsideHolds
  <2> QED
    BY <2>4, <2>5
<1>4. CASE WorkerWrites(w)
  <2> DEFINE j == run[w].key
             st == CASE run[w].result = "sent" -> "SENT" [] Retryable(w) -> "QUEUED" [] OTHER -> "FAILED"
  <2>1. run[w].at = "write" /\ UNCHANGED <<seen, calm>> /\ run'[w] = Idle /\ Alone(w)
    BY <1>0, <1>4 DEF WorkerWrites, Alone
  <2>2. log' = [log EXCEPT ![j] = [status |-> st, attempts |-> run[w].attempts + 1, due |-> log[j].due]]
    BY <1>4 DEF WorkerWrites
  <2>3. ~Handles(w, k)'
    BY <2>1, IdleIsIdle DEF Handles
  <2>4. CASE k = j
    <3>1. Recording(w, k)
      BY <2>1, <2>4 DEF Recording
    <3>2. /\ st \in {"SENT", "QUEUED", "FAILED"}
          /\ st = "SENT" <=> run[w].result = "sent"
          /\ st = "QUEUED" => Retryable(w)
      BY DEF Retryable
    <3>3. log'[k].status = st /\ log'[k].attempts = run[w].attempts + 1
      BY <1>0, <2>2, <2>4
    <3>4. Retryable(w) => run[w].attempts + 1 < MaxAttempts
      BY DEF Retryable
    <3> HIDE DEF st
    <3> QED
      BY <1>0, <2>1, <2>3, <3>1, <3>2, <3>3, <3>4, RecordHolds
  <2>5. CASE k # j
    <3>1. ~Handles(w, k)
      BY <2>1, <2>5 DEF Handles
    <3>2. log'[k] = log[k]
      BY <1>0, <2>2, <2>5
    <3>3. SameRow(k)
      BY <2>1, <3>2 DEF SameRow, seen
    <3> QED
      BY <1>0, <2>1, <2>3, <3>1, <3>3, AsideHolds
  <2> QED
    BY <2>4, <2>5
<1> QED
  BY <1>1, <1>2, <1>3, <1>4

LEMMA BatchStep ==
  ASSUME TypeOK, TypeOK', NEW k \in Keys, KeyInv(k), NEW b \in Batches,
         BatchReads(b) \/ BatchWrites(b) \/ \E j \in Keys : BatchSends(b, j)
  PROVE  KeyInv(k)'
<1>0. /\ b \in Runners /\ run \in [Runners -> Run] /\ run' \in [Runners -> Run] /\ log \in [Keys -> LogRow]
      /\ mails \in [Keys -> 0..2] /\ calls \in [Keys -> 0..(MaxAttempts + 1)]
  BY DEF TypeOK, Runners, LogRow
<1>1. CASE BatchReads(b)
  <2> DEFINE due == {j \in Keys : Sendable(j)}
  <2>1. run'[b] = [at |-> "batch", todo |-> due] /\ calm' = Taken(due, b)
    BY <1>0, <1>1 DEF BatchReads
  <2>2. run[b].at = "idle" /\ Alone(b) /\ SameRow(k)
    BY <1>0, <1>1, IdleIsIdle DEF BatchReads, Alone, SameRow, seen
  <2>3. ~Handles(b, k)
    BY <2>2 DEF Handles
  <2>4. calm'[k] => calm[k] /\ (k \in due => \A q \in Runners \ {b} : ~Handles(q, k))
    BY <2>1, TakenIs
  <2>5. CASE k \in due
    <3>1. Sending(b, k)' /\ ~Retrying(b, k)' /\ ~Recording(b, k)' /\ run'[b].at # "send"
      BY <2>1, <2>5 DEF Sending, Retrying, Recording
    <3>2. log[k].status = "QUEUED" /\ log[k].attempts < MaxAttempts
      BY <2>5 DEF Sendable
    <3> HIDE DEF due
    <3> QED
      BY <1>0, <2>2, <2>3, <2>4, <2>5, <3>1, <3>2, BeginHolds
  <2>6. CASE k \notin due
    <3>1. ~Handles(b, k)'
      BY <2>1, <2>6 DEF Handles
    <3> QED
      BY <1>0, <2>2, <2>3, <2>4, <3>1, AsideHolds
  <2> QED
    BY <2>5, <2>6
<1>2. ASSUME NEW j \in Keys, BatchSends(b, j) PROVE KeyInv(k)'
  <2>1. PICK answer \in Answer :
          /\ run' = [run EXCEPT ![b] = [at |-> "batched", todo |-> run[b].todo \ {j}, key |-> j, result |->
                       IF ResultOf(j, answer) = "sent" THEN "sent" ELSE "refused"]]
          /\ Called(j, answer)
    BY <1>2 DEF BatchSends
  <2> DEFINE o == IF ResultOf(j, answer) = "sent" THEN "sent" ELSE "refused"
  <2>2. run[b].at = "batch" /\ j \in run[b].todo /\ Alone(b) /\ log' = log /\ calm' = calm
    BY <1>0, <1>2, <2>1 DEF BatchSends, Alone
  <2>3. run'[b] = [at |-> "batched", todo |-> run[b].todo \ {j}, key |-> j, result |-> o]
    BY <1>0, <2>1
  <2>4. o = "sent" <=> answer = "ok"
    BY ResultIsOutcome
  <2> HIDE DEF o
  <2>5. CASE k = j
    <3>1. Sending(b, k) /\ Recording(b, k)' /\ ~Sending(b, k)' /\ ~Retrying(b, k)'
      BY <2>2, <2>3, <2>5 DEF Sending, Retrying, Recording
    <3>2. run'[b].result = "sent" <=> answer = "ok"
      BY <2>3, <2>4
    <3>3. run'[b].at # "write"
      BY <2>3
    <3> QED
      BY <1>0, <2>1, <2>2, <2>5, <3>1, <3>2, <3>3, CallHolds
  <2>6. CASE k # j
    <3>1. SameFor(b, k)
      BY <2>2, <2>3, <2>6 DEF SameFor, Sending, Retrying, Recording
    <3>2. \A q \in Runners : SameFor(q, k)
      BY <2>2, <3>1, SameRunner DEF Alone
    <3>3. SameRow(k)
      BY <1>0, <2>1, <2>2, <2>6 DEF SameRow, Called
    <3> QED
      BY <2>2, <3>2, <3>3, KeptHolds DEF Kept
  <2> QED
    BY <2>5, <2>6
<1>3. CASE BatchWrites(b)
  <2> DEFINE j == run[b].key
             st == IF run[b].result = "sent" THEN "SENT" ELSE "FAILED"
  <2>1. run[b].at = "batched" /\ UNCHANGED <<seen, calm>> /\ Alone(b)
        /\ run'[b] = IF run[b].todo = {} THEN Idle ELSE [at |-> "batch", todo |-> run[b].todo]
    BY <1>0, <1>3 DEF BatchWrites, Alone
  <2>2. log' = [log EXCEPT ![j] = [status |-> st, attempts |-> log[j].attempts + 1, due |-> log[j].due]]
    BY <1>3 DEF BatchWrites
  <2>3. Sending(b, k)' <=> Sending(b, k)
    BY <2>1, IdleIsIdle DEF Sending
  <2>4. ~Retrying(b, k) /\ ~Retrying(b, k)' /\ ~Recording(b, k)' /\ run'[b].at # "send"
    BY <2>1, IdleIsIdle DEF Retrying, Recording
  <2>5. CASE k = j
    <3>1. Recording(b, k)
      BY <2>1, <2>5 DEF Recording
    <3>2. log'[k].status = st /\ log'[k].attempts = log[k].attempts + 1
      BY <1>0, <2>2, <2>5
    <3>3. CASE ~Sending(b, k)
      <4>1. ~Handles(b, k)'
        BY <1>0, <2>3, <2>4, <3>3, <2>1, IdleIsIdle DEF Handles, Sending
      <4> QED
        BY <1>0, <2>1, <3>1, <3>2, <4>1, RecordHolds
    <3>4. CASE Sending(b, k)
      <4>1. ~calm[k]
        BY <1>0, <3>1, <3>4 DEF KeyInv, Calm, OneHandles
      <4>2. Unwritten(k)'
        BY <3>2 DEF Unwritten
      <4> QED
        BY <2>1, <4>1, <4>2 DEF KeyInv
    <3> QED
      BY <3>3, <3>4
  <2>6. CASE k # j
    <3>1. ~Recording(b, k)
      BY <2>6 DEF Recording
    <3>2. \A q \in Runners : SameFor(q, k)
      BY <2>1, <2>3, <2>4, <3>1, SameRunner DEF SameFor, Alone
    <3>3. log'[k] = log[k]
      BY <1>0, <2>2, <2>6
    <3> QED
      BY <2>1, <3>2, <3>3, KeptHolds DEF Kept, SameRow, seen
  <2> QED
    BY <2>5, <2>6
<1> QED
  BY <1>1, <1>2, <1>3

LEMMA RetryStep ==
  ASSUME TypeOK, TypeOK', NEW k \in Keys, KeyInv(k), NEW r \in Retriers,
         RetryReads(r) \/ \E j \in Keys : RetryWrites(r, j)
  PROVE  KeyInv(k)'
<1>0. r \in Runners /\ run \in [Runners -> Run] /\ run' \in [Runners -> Run] /\ log \in [Keys -> LogRow]
  BY DEF TypeOK, Runners, LogRow
<1>1. CASE RetryReads(r)
  <2>1. PICK S \in SUBSET Failed \ {{}} : run' = [run EXCEPT ![r] = [at |-> "retry", todo |-> S]]
                                        /\ calm' = Taken(S, r)
    BY <1>1 DEF RetryReads
  <2>2. run[r].at = "idle" /\ Alone(r) /\ SameRow(k) /\ run'[r] = [at |-> "retry", todo |-> S]
    BY <1>0, <1>1, <2>1, IdleIsIdle DEF RetryReads, Alone, SameRow, seen
  <2>3. ~Handles(r, k)
    BY <2>2 DEF Handles
  <2>4. calm'[k] => calm[k] /\ (k \in S => \A q \in Runners \ {r} : ~Handles(q, k))
    BY <2>1, TakenIs
  <2>5. CASE k \in S
    <3>1. Retrying(r, k)' /\ ~Sending(r, k)' /\ ~Recording(r, k)'
      BY <2>2, <2>5 DEF Sending, Retrying, Recording
    <3>2. log[k].status = "FAILED" /\ log[k].attempts < MaxAttempts
      BY <2>5 DEF Failed
    <3> QED
      BY <1>0, <2>2, <2>3, <2>4, <2>5, <3>1, <3>2, BeginHolds
  <2>6. CASE k \notin S
    <3>1. ~Handles(r, k)'
      BY <2>2, <2>6 DEF Handles
    <3> QED
      BY <1>0, <2>2, <2>3, <2>4, <3>1, AsideHolds
  <2> QED
    BY <2>5, <2>6
<1>2. ASSUME NEW j \in Keys, RetryWrites(r, j) PROVE KeyInv(k)'
  <2>1. run[r].at = "retry" /\ j \in run[r].todo /\ UNCHANGED <<seen, calm>>
    BY <1>2 DEF RetryWrites
  <2>2. Alone(r) /\ run'[r].at \in {"idle", "retry"}
        /\ (run'[r].at = "retry" => run'[r].todo = run[r].todo \ {j})
    BY <1>0, <1>2, <2>1, TodoDoes DEF RetryWrites, Alone
  <2>3. log' = [log EXCEPT ![j] = [status |-> "QUEUED", attempts |-> log[j].attempts, due |-> now]]
    BY <1>2 DEF RetryWrites
  <2>4. CASE k = j
    <3>1. Retrying(r, k) /\ ~Handles(r, k)'
      BY <2>1, <2>2, <2>4 DEF Retrying, Handles
    <3>2. log'[k].status = "QUEUED" /\ log'[k].attempts = log[k].attempts
      BY <1>0, <2>3, <2>4
    <3> QED
      BY <1>0, <2>1, <2>2, <3>1, <3>2, RequeueHolds
  <2>5. CASE k # j
    <3>1. run[r].todo = {j} \/ run'[r].at = "retry"
      BY <1>0, <1>2, <2>1 DEF RetryWrites, Todo
    <3>2. Retrying(r, k)' <=> Retrying(r, k)
      BY <2>1, <2>2, <2>5, <3>1 DEF Retrying
    <3>3. ~Sending(r, k) /\ ~Sending(r, k)' /\ ~Recording(r, k) /\ ~Recording(r, k)'
      BY <2>1, <2>2 DEF Sending, Recording
    <3>4. \A q \in Runners : SameFor(q, k)
      BY <2>2, <3>2, <3>3, SameRunner DEF SameFor, Alone
    <3>5. log'[k] = log[k]
      BY <1>0, <2>3, <2>5
    <3> QED
      BY <2>1, <3>4, <3>5, KeptHolds DEF Kept, SameRow, seen
  <2> QED
    BY <2>4, <2>5
<1> QED
  BY <1>1, <1>2

LEMMA DiesStep ==
  ASSUME TypeOK, TypeOK', NEW k \in Keys, KeyInv(k), NEW r \in Runners, Dies(r)
  PROVE  KeyInv(k)'
<1>0. run \in [Runners -> Run] /\ calm \in [Keys -> BOOLEAN]
  BY DEF TypeOK
<1>1. run'[r] = Idle /\ Alone(r) /\ UNCHANGED <<log, seen>>
  BY <1>0 DEF Dies, Alone
<1>2. calm'[k] => calm[k] /\ ~Handles(r, k)
  BY DEF Dies
<1>3. ~Handles(r, k)'
  BY <1>1, IdleIsIdle DEF Handles
<1>4. SameRow(k)
  BY <1>1 DEF SameRow, seen
<1>5. CASE ~Handles(r, k)
  BY <1>1, <1>2, <1>3, <1>4, <1>5, AsideHolds
<1>6. CASE Handles(r, k)
  <2>1. Unwritten(k)'
    BY <1>1, <1>6 DEF KeyInv, Unwritten
  <2> QED
    BY <1>2, <1>6, <2>1 DEF KeyInv
<1> QED
  BY <1>5, <1>6


(***************************************************************************)
(* The theorems.                                                           *)
(***************************************************************************)
LEMMA RemindersInit == Init => RemindersInv
<1> SUFFICES ASSUME Init PROVE RemindersInv
  OBVIOUS
<1>1. TypeOK
  BY TypeInit
<1>2. ASSUME NEW k \in Keys PROVE KeyInv(k)
  <2>1. \A r \in Runners : run[r].at = "idle"
    BY IdleIsIdle DEF Init
  <2>2. \A r \in Runners : ~Handles(r, k) /\ ~Sending(r, k) /\ ~Retrying(r, k) /\ ~Recording(r, k)
    BY <2>1 DEF Handles, Sending, Retrying, Recording
  <2>3. log[k].status = "NONE" /\ log[k].attempts = 0 /\ calls[k] = 0 /\ mails[k] = 0
    BY DEF Init
  <2>4. Unsent(k)
    BY <2>3 DEF Unsent
  <2> QED
    BY <2>2, <2>3, <2>4
       DEF KeyInv, Unwritten, Calm, OneHandles, WhileSending, WhileRetrying, WhileRecording, AtRest
<1> QED
  BY <1>1, <1>2 DEF RemindersInv

LEMMA RemindersStep == RemindersInv /\ [Next]_vars => RemindersInv'
<1> SUFFICES ASSUME RemindersInv, [Next]_vars PROVE RemindersInv'
  OBVIOUS
<1>1. TypeOK /\ TypeOK'
  BY TypeStep DEF RemindersInv
<1>2. ASSUME NEW k \in Keys PROVE KeyInv(k)'
  <2>0. KeyInv(k)
    BY DEF RemindersInv
  <2>1. ASSUME Tick \/ UpdatePreference \/ Change \/ BindWechat \/ (\E j \in Keys : Reconcile(j)) \/ UNCHANGED vars
        PROVE  KeyInv(k)'
    <3>1. UNCHANGED <<log, run, seen, calm>>
      BY <2>1 DEF Tick, UpdatePreference, Change, BindWechat, Reconcile, vars
    <3> QED
      BY <2>0, <3>1, QuietStep
  <2>2. ASSUME NEW s \in Scanners, ScanRead(s) \/ \E j \in Keys : ScanLog(s, j) PROVE KeyInv(k)'
    BY <1>1, <2>0, <2>2, ScanStep
  <2>3. ASSUME NEW j \in Keys, Preview(j) PROVE KeyInv(k)'
    BY <1>1, <2>0, <2>3, PreviewStep
  <2>4. ASSUME NEW w \in Workers,
               WorkerReads(w) \/ WorkerSends(w) \/ WorkerWrites(w) \/ \E j \in Keys : WorkerTakes(w, j)
        PROVE  KeyInv(k)'
    BY <1>1, <2>0, <2>4, WorkerStep
  <2>5. ASSUME NEW b \in Batches, BatchReads(b) \/ BatchWrites(b) \/ \E j \in Keys : BatchSends(b, j)
        PROVE  KeyInv(k)'
    BY <1>1, <2>0, <2>5, BatchStep
  <2>6. ASSUME NEW r \in Retriers, RetryReads(r) \/ \E j \in Keys : RetryWrites(r, j) PROVE KeyInv(k)'
    BY <1>1, <2>0, <2>6, RetryStep
  <2>7. ASSUME NEW r \in Runners, Dies(r) PROVE KeyInv(k)'
    BY <1>1, <2>0, <2>7, DiesStep
  <2> QED
    BY <2>1, <2>2, <2>3, <2>4, <2>5, <2>6, <2>7 DEF Next
<1> QED
  BY <1>1, <1>2 DEF RemindersInv

\* Whatever runs at the same time, a log that one runner at a time handles is called for as
\* often as it counts, but for the call that is being written, and delivered at most once.
THEOREM RemindersInvariant == Spec => []RemindersInv
<1> QED
  BY RemindersInit, RemindersStep, PTL DEF Spec

LEMMA CalmCounts ==
  ASSUME RemindersInv
  PROVE  CallsCounted
<1>0. run \in [Runners -> Run] /\ TypeOK
  BY DEF RemindersInv, TypeOK
<1>1. ASSUME NEW k \in Keys, calm[k]
      PROVE  /\ k \notin lost => mails[k] <= 1
             /\ \/ log[k].attempts = calls[k]
                \/ \E r \in Runners : Handles(r, k) /\ calls[k] = log[k].attempts + 1
             /\ log[k].status = "QUEUED" => log[k].attempts < MaxAttempts
  <2>1. Calm(k)
    BY <1>1 DEF RemindersInv, KeyInv
  <2>2. CASE \A r \in Runners : ~Handles(r, k)
    BY <2>1, <2>2 DEF Calm, AtRest
  <2>3. ASSUME NEW r \in Runners, Handles(r, k)
        PROVE  /\ k \notin lost => mails[k] <= 1
               /\ log[k].attempts = calls[k] \/ calls[k] = log[k].attempts + 1
               /\ log[k].status = "QUEUED" => log[k].attempts < MaxAttempts
    <3>1. CASE Sending(r, k)
      BY <2>1, <3>1 DEF Calm, WhileSending, Unsent
    <3>2. CASE Retrying(r, k)
      BY <2>1, <3>2 DEF Calm, WhileRetrying, Unsent
    <3>3. CASE Recording(r, k)
      BY <2>1, <3>3 DEF Calm, WhileRecording
    <3> QED
      BY <1>0, <2>3, <3>1, <3>2, <3>3, HandlesIs
  <2> QED
    BY <2>2, <2>3
<1>2. DeliveredOnce /\ AttemptsCounted /\ QueuedIsSendable
  BY <1>1 DEF DeliveredOnce, AttemptsCounted, QueuedIsSendable
<1> QED
  BY <1>0, <1>2 DEF CallsCounted

\* A reminder that one runner at a time handles is delivered once, its log counts the calls
\* of the provider and it is never queued without an attempt left.
THEOREM CallsCountedHolds == Spec => []CallsCounted
<1>1. RemindersInv => CallsCounted
  BY CalmCounts
<1> QED
  BY <1>1, RemindersInvariant, PTL

(***************************************************************************)
(* Local times.                                                            *)
(***************************************************************************)
\* Correcting twice finds a local time, on either side of the switch, whenever there is one.
LEMMA LocalTimeFound ==
  ASSUME NEW zone \in Zones, NEW day \in Int, NEW time \in Int,
         NEW u \in Int, Local(zone, u) = day * Q + time
  PROVE  Local(zone, ZonedDateTimeToUtc(zone, day, time)) = day * Q + time
<1> DEFINE desired == day * Q + time
           at == ZonedDateTimeToUtc(zone, day, time)
<1>1. zone.switch \in Int /\ zone.before \in Int /\ zone.after \in Int
  BY RemindersAssumption
<1>2. desired \in Int
  BY DesiredIsInt
<1>3. at = desired - OffsetAt(zone, desired - OffsetAt(zone, desired))
  BY <1>1, ZonedIs
<1>4. Local(zone, u) = desired
  OBVIOUS
<1> HIDE DEF desired, at
<1>5. u + OffsetAt(zone, u) = desired
  BY <1>4 DEF Local
<1>6. at + OffsetAt(zone, at) = desired
  BY <1>1, <1>2, <1>3, <1>5 DEF OffsetAt
<1>7. Local(zone, at) = desired
  BY <1>6 DEF Local
<1> QED
  BY <1>7 DEF desired, at

\* In every zone with one switch, whenever a time comes, a reminder of that day is at the
\* local time that was set, if the day has that time.
THEOREM ScheduleIsLocalHolds == Spec => ScheduleIsLocal
<1> DEFINE Finds(t) ==
      \A zone \in Zones, time \in 0..(Q - 1) :
        LET desired == DateKey(zone, t) * Q + time
            at == ScheduledAt([zone |-> zone, time |-> time], t)
        IN (\E u \in (desired - Q)..(desired + Q) : Local(zone, u) = desired)
             => Local(zone, at) = desired
<1>1. ASSUME NEW t \in Int PROVE Finds(t)
  <2>1. ASSUME NEW zone \in Zones, NEW time \in 0..(Q - 1)
        PROVE  LET desired == DateKey(zone, t) * Q + time
                   at == ScheduledAt([zone |-> zone, time |-> time], t)
               IN (\E u \in (desired - Q)..(desired + Q) : Local(zone, u) = desired)
                    => Local(zone, at) = desired
    <3> DEFINE desired == DateKey(zone, t) * Q + time
               at == ScheduledAt([zone |-> zone, time |-> time], t)
    <3>1. zone.before \in Int /\ zone.after \in Int
      BY RemindersAssumption
    <3>2. DateKey(zone, t) \in Int /\ time \in Int /\ Q \in Int
      BY <3>1, DateKeyIsInt, Bounds
    <3>3. desired \in Int
      BY <3>2, DesiredIsInt
    <3>4. at = ZonedDateTimeToUtc(zone, DateKey(zone, t), time)
      BY DEF ScheduledAt
    <3>5. ASSUME NEW u \in Int, Local(zone, u) = desired PROVE Local(zone, at) = desired
      BY <3>2, <3>4, <3>5, LocalTimeFound
    <3> HIDE DEF desired, at
    <3>6. (\E u \in (desired - Q)..(desired + Q) : Local(zone, u) = desired) => Local(zone, at) = desired
      BY <3>2, <3>3, <3>5
    <3> QED
      BY <3>6 DEF desired, at
  <2> QED
    BY <2>1
<1>2. TypeOK' => now' \in Int
  BY Bounds DEF TypeOK
<1>3. TypeOK' => Finds(now')
  BY <1>1, <1>2
<1>4. TypeOK /\ [Next]_vars => [now' # now => Finds(now')]_vars
  BY <1>3, TypeStep
<1>5. Init => TypeOK
  BY TypeInit
<1>6. TypeOK /\ [Next]_vars => TypeOK'
  BY TypeStep
<1> QED
  BY <1>4, <1>5, <1>6, PTL DEF Spec, ScheduleIsLocal
=============================================================================
