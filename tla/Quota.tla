------------------------------- MODULE Quota -------------------------------
(***************************************************************************)
(* The usage ledger of quota/quota.service.ts for one user.                *)
(*                                                                         *)
(* A resource (an AI job, an uploaded asset, a reward card) is charged     *)
(* once to a bucket, a capability in one of its periods, and may be        *)
(* released later.  Every operation is a MySQL transaction at REPEATABLE   *)
(* READ: what it reads comes from the snapshot its first read opened (the  *)
(* Begin actions), what it writes is applied to the rows as they are when  *)
(* it commits (the Commit actions).  The conditional updateMany of a       *)
(* bucket is one atomic UPDATE on the current row.                         *)
(***************************************************************************)
EXTENDS Integers, FiniteSets

CONSTANTS
  Capabilities,  \* QUOTA_CAPABILITIES that the instance uses
  Renewing,      \* the capabilities whose period is not TOTAL
  MaxPeriod,     \* bound: periods 0..MaxPeriod of a renewing capability
  Tiers,         \* FREE, PRO: what getPlan returns
  Limit,         \* [Tiers -> [Capabilities -> Nat \cup {NoLimit}]]
  NoLimit,       \* the limit null
  Resources,     \* resourceId of a usage record
  Capability,    \* [Resources -> Capabilities]
  Qty,           \* [Resources -> Nat \ {0}]: the quantity consumed
  Callers,       \* transactions that can be open at the same time
  Consumes,      \* [Callers -> SUBSET Resources]: what a caller may charge
  Releases       \* [Callers -> SUBSET Resources]: what it may release

QuotaConstants ==
  /\ Renewing \subseteq Capabilities
  /\ MaxPeriod \in Nat
  /\ NoLimit \notin Nat
  /\ Limit \in [Tiers -> [Capabilities -> Nat \cup {NoLimit}]]
  /\ Capability \in [Resources -> Capabilities]
  /\ Qty \in [Resources -> Nat \ {0}]
  /\ Consumes \in [Callers -> SUBSET Resources]
  /\ Releases \in [Callers -> SUBSET Resources]
  /\ IsFiniteSet(Resources)

ASSUME QuotaAssumption == QuotaConstants

VARIABLES
  tier,    \* the plan the membership row gives the user
  period,  \* [Capabilities -> Periods]: the period that is now
  bucket,  \* [Buckets -> Nat]: quota_buckets.used, 0 when there is no row
  record,  \* [Resources -> RecordType]: the usage_records row of a resource
  tx,      \* [Callers -> TxType]: the transaction a caller has open
  doubled  \* SUBSET Buckets: those a record was returned to twice (history)

quotaVars == <<tier, period, bucket, record, tx, doubled>>

Periods == 0..MaxPeriod
Buckets == Capabilities \X Periods
Limits == Nat \cup {NoLimit}

RecordType == [st : {"none", "held", "released"}, period : Periods]

TxType ==
  [op : {"none"}] \cup
  [op : {"consume"}, res : Resources, period : Periods, limit : Limits,
   found : BOOLEAN] \cup
  [op : {"release"}, res : Resources, found : BOOLEAN]

NoRecord == [st |-> "none", period |-> 0]
NoTx == [op |-> "none"]

QuotaTypeOK ==
  /\ tier \in Tiers
  /\ period \in [Capabilities -> Periods]
  /\ bucket \in [Buckets -> Nat]
  /\ record \in [Resources -> RecordType]
  /\ tx \in [Callers -> TxType]
  /\ doubled \subseteq Buckets

QuotaInit ==
  /\ tier \in Tiers
  /\ period = [c \in Capabilities |-> 0]
  /\ bucket = [b \in Buckets |-> 0]
  /\ record = [r \in Resources |-> NoRecord]
  /\ tx = [c \in Callers |-> NoTx]
  /\ doubled = {}

BucketOf(r) == <<Capability[r], record[r].period>>

(***************************************************************************)
(* consumeWithClient, up to the bucket: the usage record of this key, the  *)
(* limit of the plan and the period of the clock, all from the snapshot.   *)
(***************************************************************************)
BeginConsume(c, r) ==
  /\ tx[c] = NoTx
  /\ r \in Consumes[c]
  /\ tx' = [tx EXCEPT ![c] =
       [op |-> "consume", res |-> r, period |-> period[Capability[r]],
        limit |-> Limit[tier][Capability[r]], found |-> record[r].st # "none"]]
  /\ UNCHANGED <<tier, period, bucket, record, doubled>>

\* The bucket's WHERE clause: used <= limit - quantity, on the current row.
Fits(t) ==
  t.limit # NoLimit =>
    bucket[<<Capability[t.res], t.period>>] + Qty[t.res] <= t.limit

\* Mutant of CommitConsume: a released record no longer blocks its key.
ConsumeAgain(c) ==
  LET t == tx[c] IN
  /\ t.op = "consume"
  /\ record[t.res].st # "held"
  /\ Fits(t)
  /\ bucket' = IF t.limit = NoLimit THEN bucket
               ELSE [bucket EXCEPT ![<<Capability[t.res], t.period>>] = @ + Qty[t.res]]
  /\ record' = [record EXCEPT ![t.res] = [st |-> "held", period |-> t.period]]
  /\ tx' = [tx EXCEPT ![c] = NoTx]
  /\ UNCHANGED <<tier, period, doubled>>

\* The idempotency key is new, the bucket has room: charge and commit.
CommitConsume(c) ==
  LET t == tx[c] IN
  /\ t.op = "consume"
  /\ ~t.found
  /\ record[t.res].st = "none"
  /\ Fits(t)
  /\ bucket' = IF t.limit = NoLimit THEN bucket
               ELSE [bucket EXCEPT ![<<Capability[t.res], t.period>>] = @ + Qty[t.res]]
  /\ record' = [record EXCEPT ![t.res] = [st |-> "held", period |-> t.period]]
  /\ tx' = [tx EXCEPT ![c] = NoTx]
  /\ UNCHANGED <<tier, period, doubled>>

\* The transaction charges nothing: the key was there at the snapshot, or its
\* unique index meets it now (P2002, rolled back), or the bucket is full (429).
AbandonConsume(c) ==
  LET t == tx[c] IN
  /\ t.op = "consume"
  /\ t.found \/ record[t.res].st # "none" \/ ~Fits(t)
  /\ tx' = [tx EXCEPT ![c] = NoTx]
  /\ UNCHANGED <<tier, period, bucket, record, doubled>>

\* Any other end of an open transaction: a deadlock or a timeout that outlives
\* the five attempts of runWithQuota, an error of the operation it wraps, the
\* death of the process.
Rollback(c) ==
  /\ tx[c] # NoTx
  /\ tx' = [tx EXCEPT ![c] = NoTx]
  /\ UNCHANGED <<tier, period, bucket, record, doubled>>

\* releaseWithClient, its read: the unreleased record of the resource, if any.
BeginRelease(c, r) ==
  /\ tx[c] = NoTx
  /\ r \in Releases[c]
  /\ tx' = [tx EXCEPT ![c] =
       [op |-> "release", res |-> r, found |-> record[r].st = "held"]]
  /\ UNCHANGED <<tier, period, bucket, record, doubled>>

\* The record was held at the snapshot, but another release has committed since.
Doubled(t) ==
  IF t.found /\ record[t.res].st # "held" THEN doubled \cup {BucketOf(t.res)} ELSE doubled

\* Mutant of CommitRelease: the decrement goes to the bucket of the period
\* that is now.
ReleaseNow(c) ==
  LET t == tx[c]
      now == <<Capability[t.res], period[Capability[t.res]]>> IN
  /\ t.op = "release"
  /\ IF t.found
     THEN /\ record' = [record EXCEPT ![t.res] = [st |-> "released", period |-> @.period]]
          /\ bucket' = [bucket EXCEPT ![now] = IF @ >= Qty[t.res] THEN @ - Qty[t.res] ELSE @]
     ELSE UNCHANGED <<record, bucket>>
  /\ tx' = [tx EXCEPT ![c] = NoTx]
  /\ doubled' = Doubled(t)
  /\ UNCHANGED <<tier, period>>

\* Its writes: releasedAt, whatever the row holds by now, and the bucket's
\* decrement, which asks only that used >= quantity.
CommitRelease(c) ==
  LET t == tx[c] IN
  /\ t.op = "release"
  /\ IF t.found
     THEN /\ record' = [record EXCEPT ![t.res] = [st |-> "released", period |-> @.period]]
          /\ bucket' = [bucket EXCEPT ![BucketOf(t.res)] =
                          IF @ >= Qty[t.res] THEN @ - Qty[t.res] ELSE @]
     ELSE UNCHANGED <<record, bucket>>
  /\ tx' = [tx EXCEPT ![c] = NoTx]
  /\ doubled' = Doubled(t)
  /\ UNCHANGED <<tier, period>>

\* getPeriod: the clock enters the next day, week or month.
NextPeriod(p) ==
  /\ p \in Renewing
  /\ period[p] < MaxPeriod
  /\ period' = [period EXCEPT ![p] = @ + 1]
  /\ UNCHANGED <<tier, bucket, record, tx, doubled>>

\* getPlan: a payment, a refund, an expiry or an administrator moves the tier.
ChangeTier ==
  /\ tier' \in Tiers \ {tier}
  /\ UNCHANGED <<period, bucket, record, tx, doubled>>

QuotaNext ==
  \/ \E c \in Callers, r \in Resources : BeginConsume(c, r) \/ BeginRelease(c, r)
  \/ \E c \in Callers : CommitConsume(c) \/ AbandonConsume(c)
                          \/ CommitRelease(c) \/ Rollback(c)
  \/ \E p \in Capabilities : NextPeriod(p)
  \/ ChangeTier

QuotaSpec == QuotaInit /\ [][QuotaNext]_quotaVars
-----------------------------------------------------------------------------
\* The units a resource stands for, and those held in a bucket: a quantity of
\* q is q units, so that what is held is the cardinality of a set.
Units(r) == {r} \X (1..Qty[r])
UnitsOf(S) == UNION {Units(r) : r \in S}
HeldIn(b) == {r \in Resources : record[r].st = "held" /\ BucketOf(r) = b}
Held(b) == Cardinality(UnitsOf(HeldIn(b)))

(***************************************************************************)
(* The counter of a bucket is the sum of the quantities of the usage       *)
(* records charged to it and not released: consumeWithClient and           *)
(* releaseWithClient keep the two tables in step, however their            *)
(* transactions overlap, but for a bucket to which two releases that both  *)
(* found one record held have returned it twice (quota.service.ts:218).    *)
(***************************************************************************)
LedgerExact == \A b \in Buckets \ doubled : bucket[b] = Held(b)

(***************************************************************************)
(* A bucket never counts more than what is held: a released or cancelled   *)
(* resource gives its quota back, in whatever order transactions commit.   *)
(***************************************************************************)
NeverOvercharged == \A b \in Buckets : bucket[b] <= Held(b)

(***************************************************************************)
(* A charge is granted only when all that is held in the bucket, the new   *)
(* charge included, fits the limit the request resolved: concurrent        *)
(* requests cannot pass the limit together (SPEC.md:669), except in a      *)
(* bucket that a record was returned to twice.                             *)
(***************************************************************************)
GrantWithinLimit ==
  [][\A b \in Buckets \ doubled :
       Held(b)' > Held(b) =>
         \E c \in Callers :
           /\ tx[c].op = "consume"
           /\ <<Capability[tx[c].res], tx[c].period>> = b
           /\ tx[c].limit # NoLimit => Held(b)' <= tx[c].limit]_quotaVars

(***************************************************************************)
(* A usage record is charged once: after its release no duplicate of the   *)
(* request that carries the same idempotency key charges it again.         *)
(***************************************************************************)
ReleasedForGood ==
  [][\A r \in Resources : record[r].st = "released" => record'[r] = record[r]]_quotaVars
=============================================================================
