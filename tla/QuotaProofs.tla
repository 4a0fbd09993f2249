---------------------------- MODULE QuotaProofs ----------------------------
(***************************************************************************)
(* Proofs about the usage ledger, for any resources, quantities, limits    *)
(* and number of transactions that overlap.                                *)
(***************************************************************************)
EXTENDS Quota, FiniteSetTheorems, TLAPS

USE DEF QuotaConstants

(***************************************************************************)
(* A resource stands for as many units as its quantity.                    *)
(***************************************************************************)
LEMMA UnitsCardinality ==
  ASSUME NEW r \in Resources
  PROVE  IsFiniteSet(Units(r)) /\ Cardinality(Units(r)) = Qty[r]
<1>1. Qty[r] \in Nat \ {0}
  BY QuotaAssumption
<1>2. IsFiniteSet(1..Qty[r]) /\ Cardinality(1..Qty[r]) = Qty[r]
  BY <1>1, FS_Interval
<1>3. IsFiniteSet({r}) /\ Cardinality({r}) = 1
  BY FS_Singleton
<1>4. /\ IsFiniteSet({r} \X (1..Qty[r]))
      /\ Cardinality({r} \X (1..Qty[r])) = 1 * Qty[r]
  BY <1>2, <1>3, FS_Product, ZenonT(40)
<1>5. 1 * Qty[r] = Qty[r]
  BY <1>1
<1> QED
  BY <1>4, <1>5 DEF Units

(***************************************************************************)
(* The units of any set of resources are finitely many.                    *)
(***************************************************************************)
LEMMA UnitsFinite ==
  ASSUME NEW S \in SUBSET Resources
  PROVE  IsFiniteSet(UnitsOf(S)) /\ Cardinality(UnitsOf(S)) \in Nat
<1> DEFINE f == [r \in S |-> Units(r)]
           T == {Units(r) : r \in S}
<1>1. IsFiniteSet(S)
  BY QuotaAssumption, FS_Subset
<1>2. f \in Surjection(S, T)
  BY DEF Surjection
<1>3. IsFiniteSet(T)
  BY <1>1, <1>2, FS_Surjection
<1>4. \A t \in T : IsFiniteSet(t)
  BY UnitsCardinality
<1>5. IsFiniteSet(UNION T)
  BY <1>3, <1>4, FS_UNION
<1> QED
  BY <1>5, FS_CardinalityType DEF UnitsOf

(***************************************************************************)
(* One more resource adds its quantity.                                    *)
(***************************************************************************)
LEMMA UnitsAdd ==
  ASSUME NEW S \in SUBSET Resources, NEW r \in Resources \ S
  PROVE  Cardinality(UnitsOf(S \cup {r})) = Cardinality(UnitsOf(S)) + Qty[r]
<1>1. UnitsOf(S \cup {r}) = UnitsOf(S) \cup Units(r)
  BY DEF UnitsOf
<1>2. UnitsOf(S) \cap Units(r) = {}
  BY DEF UnitsOf, Units
<1>3. IsFiniteSet(UnitsOf(S)) /\ Cardinality(UnitsOf(S)) \in Nat
  BY UnitsFinite
<1>4. IsFiniteSet(Units(r)) /\ Cardinality(Units(r)) = Qty[r]
  BY UnitsCardinality
<1>5. Cardinality(UnitsOf(S) \cup Units(r)) =
        Cardinality(UnitsOf(S)) + Cardinality(Units(r)) - Cardinality({})
  BY <1>2, <1>3, <1>4, FS_Union
<1>6. Cardinality({}) = 0
  BY FS_EmptySet
<1>7. Qty[r] \in Nat
  BY QuotaAssumption
<1>8. Cardinality(UnitsOf(S) \cup Units(r)) = Cardinality(UnitsOf(S)) + Qty[r]
  BY <1>3, <1>4, <1>5, <1>6, <1>7
<1> QED
  BY <1>1, <1>8

(***************************************************************************)
(* One resource fewer takes its quantity away.                             *)
(***************************************************************************)
LEMMA UnitsRemove ==
  ASSUME NEW S \in SUBSET Resources, NEW r \in S
  PROVE  /\ Cardinality(UnitsOf(S \ {r})) = Cardinality(UnitsOf(S)) - Qty[r]
         /\ Cardinality(UnitsOf(S)) >= Qty[r]
<1>1. (S \ {r}) \cup {r} = S
  OBVIOUS
<1>2. Cardinality(UnitsOf(S)) = Cardinality(UnitsOf(S \ {r})) + Qty[r]
  <2>1. S \ {r} \in SUBSET Resources /\ r \in Resources \ (S \ {r})
    OBVIOUS
  <2>2. Cardinality(UnitsOf((S \ {r}) \cup {r})) = Cardinality(UnitsOf(S \ {r})) + Qty[r]
    BY <2>1, UnitsAdd
  <2> QED
    BY <1>1, <2>2
<1>3. Cardinality(UnitsOf(S \ {r})) \in Nat
  BY UnitsFinite
<1>4. Qty[r] \in Nat
  BY QuotaAssumption
<1> QED
  BY <1>2, <1>3, <1>4
-----------------------------------------------------------------------------
(***************************************************************************)
(* Type correctness; with it, a counter of a bucket is never negative,     *)
(* whatever releases overlap.                                              *)
(***************************************************************************)
LEMMA TypeInit == QuotaInit => QuotaTypeOK
BY QuotaAssumption DEF QuotaInit, QuotaTypeOK, Periods, Buckets, RecordType, TxType, NoRecord, NoTx

\* Every operation of the ledger keeps the types.
LEMMA TypeStep == QuotaTypeOK /\ [QuotaNext]_quotaVars => QuotaTypeOK'
<1> SUFFICES ASSUME QuotaTypeOK, [QuotaNext]_quotaVars
             PROVE  QuotaTypeOK'
  OBVIOUS
<1> USE QuotaAssumption DEF QuotaTypeOK
<1>1. ASSUME NEW c \in Callers, NEW r \in Resources, BeginConsume(c, r)
      PROVE  QuotaTypeOK'
  BY <1>1 DEF BeginConsume, TxType, Limits
<1>2. ASSUME NEW c \in Callers, NEW r \in Resources, BeginRelease(c, r)
      PROVE  QuotaTypeOK'
  BY <1>2 DEF BeginRelease, TxType
<1>3. ASSUME NEW c \in Callers, CommitConsume(c)
      PROVE  QuotaTypeOK'
  <2>1. tx[c].res \in Resources /\ tx[c].period \in Periods /\ tx[c].limit \in Limits
    BY <1>3 DEF CommitConsume, TxType
  <2>2. bucket' \in [Buckets -> Nat]
    BY <1>3, <2>1 DEF CommitConsume, Buckets, Limits
  <2>3. record' \in [Resources -> RecordType]
    BY <1>3, <2>1 DEF CommitConsume, RecordType
  <2> QED
    BY <1>3, <2>2, <2>3 DEF CommitConsume, TxType, NoTx
<1>4. ASSUME NEW c \in Callers, AbandonConsume(c)
      PROVE  QuotaTypeOK'
  BY <1>4 DEF AbandonConsume, TxType, NoTx
<1>5. ASSUME NEW c \in Callers, CommitRelease(c)
      PROVE  QuotaTypeOK'
  <2>1. tx[c].res \in Resources
    BY <1>5 DEF CommitRelease, TxType
  <2>2. BucketOf(tx[c].res) \in Buckets /\ Qty[tx[c].res] \in Nat
    BY <2>1 DEF BucketOf, Buckets, RecordType
  <2>3. bucket' \in [Buckets -> Nat]
    BY <1>5, <2>1, <2>2 DEF CommitRelease
  <2>4. record' \in [Resources -> RecordType]
    BY <1>5, <2>1 DEF CommitRelease, RecordType
  <2> QED
    BY <1>5, <2>2, <2>3, <2>4 DEF CommitRelease, Doubled, TxType, NoTx
<1>6. ASSUME NEW c \in Callers, Rollback(c)
      PROVE  QuotaTypeOK'
  BY <1>6 DEF Rollback, TxType, NoTx
<1>7. ASSUME NEW p \in Capabilities, NextPeriod(p)
      PROVE  QuotaTypeOK'
  BY <1>7 DEF NextPeriod, Periods
<1>8. CASE ChangeTier
  BY <1>8 DEF ChangeTier
<1>9. CASE UNCHANGED quotaVars
  BY <1>9 DEF quotaVars
<1> QED
  BY <1>1, <1>2, <1>3, <1>4, <1>5, <1>6, <1>7, <1>8, <1>9 DEF QuotaNext

THEOREM QuotaTypeCorrect == QuotaSpec => []QuotaTypeOK
BY TypeInit, TypeStep, PTL DEF QuotaSpec
-----------------------------------------------------------------------------
(***************************************************************************)
(* What a step does to the held set and the counter of a bucket.           *)
(***************************************************************************)
LEMMA HeldBounds ==
  ASSUME NEW b PROVE Held(b) \in Nat /\ HeldIn(b) \in SUBSET Resources
BY UnitsFinite DEF Held, HeldIn

\* A charge adds its resource to the bucket it names and to no other.
LEMMA ChargeHeld ==
  ASSUME QuotaTypeOK, NEW c \in Callers, CommitConsume(c), NEW b \in Buckets
  PROVE  Held(b)' = IF b = <<Capability[tx[c].res], tx[c].period>>
                    THEN Held(b) + Qty[tx[c].res] ELSE Held(b)
<1> DEFINE r == tx[c].res
           k == <<Capability[r], tx[c].period>>
<1>1. r \in Resources /\ tx[c].period \in Periods
  BY DEF CommitConsume, QuotaTypeOK, TxType
<1>2. /\ record' = [record EXCEPT ![r] = [st |-> "held", period |-> tx[c].period]]
      /\ record[r].st = "none"
  BY DEF CommitConsume
<1>3. record \in [Resources -> RecordType]
  BY DEF QuotaTypeOK
<1>4. r \notin HeldIn(b)
  BY <1>2 DEF HeldIn
<1>5. CASE b = k
  <2>1. HeldIn(b)' = HeldIn(b) \cup {r}
    BY <1>1, <1>2, <1>3, <1>5 DEF HeldIn, BucketOf
  <2>2. HeldIn(b) \in SUBSET Resources /\ r \in Resources \ HeldIn(b)
    BY <1>1, <1>4 DEF HeldIn
  <2>3. Cardinality(UnitsOf(HeldIn(b) \cup {r})) = Cardinality(UnitsOf(HeldIn(b))) + Qty[r]
    BY <2>2, UnitsAdd
  <2>4. Held(b)' = Cardinality(UnitsOf(HeldIn(b) \cup {r}))
    BY <2>1 DEF Held, UnitsOf, Units
  <2> QED
    BY <1>5, <2>3, <2>4 DEF Held
<1>6. CASE b # k
  <2>1. HeldIn(b)' = HeldIn(b)
    BY <1>1, <1>2, <1>3, <1>6 DEF HeldIn, BucketOf
  <2> QED
    BY <1>6, <2>1 DEF Held, UnitsOf, Units
<1> QED
  BY <1>5, <1>6

\* A release takes its resource from its bucket, unless it was released already.
LEMMA ReleaseHeld ==
  ASSUME QuotaTypeOK, NEW c \in Callers, CommitRelease(c), NEW b \in Buckets
  PROVE  /\ Held(b)' = IF tx[c].found /\ tx[c].res \in HeldIn(b)
                       THEN Held(b) - Qty[tx[c].res] ELSE Held(b)
         /\ tx[c].res \in HeldIn(b) => Held(b) >= Qty[tx[c].res]
<1> DEFINE r == tx[c].res
<1>1. r \in Resources
  BY DEF CommitRelease, QuotaTypeOK, TxType
<1>2. record \in [Resources -> RecordType]
  BY DEF QuotaTypeOK
<1>3. HeldIn(b) \in SUBSET Resources
  BY DEF HeldIn
<1>4. r \in HeldIn(b) => Held(b) >= Qty[r]
  BY <1>3, UnitsRemove DEF Held
<1>5. CASE tx[c].found /\ r \in HeldIn(b)
  <2>1. HeldIn(b)' = HeldIn(b) \ {r}
    BY <1>1, <1>2, <1>5 DEF HeldIn, BucketOf, CommitRelease, RecordType
  <2>2. Held(b)' = Cardinality(UnitsOf(HeldIn(b) \ {r}))
    BY <2>1 DEF Held, UnitsOf, Units
  <2> QED
    BY <1>3, <1>4, <1>5, <2>2, UnitsRemove DEF Held
<1>6. CASE ~(tx[c].found /\ r \in HeldIn(b))
  <2>1. HeldIn(b)' = HeldIn(b)
    BY <1>1, <1>2, <1>6 DEF HeldIn, BucketOf, CommitRelease, RecordType
  <2> QED
    BY <1>4, <1>6, <2>1 DEF Held, UnitsOf, Units
<1> QED
  BY <1>5, <1>6

\* A step that leaves the records alone holds what was held.
LEMMA SameHeld ==
  ASSUME UNCHANGED record, NEW b PROVE Held(b)' = Held(b)
BY DEF Held, UnitsOf, Units, HeldIn, BucketOf
-----------------------------------------------------------------------------
(***************************************************************************)
(* For capabilities counted in units, the AI capabilities among them, a    *)
(* bucket never counts more than what is held, with any number of releases *)
(* of one resource open at once: nobody pays for a job that was cancelled. *)
(***************************************************************************)
UnitQuantities == \A r \in Resources : Qty[r] = 1

\* A charge raises counter and holdings alike; a release lowers the counter
\* by at least what it frees, or finds the counter at zero.
LEMMA OverchargeStep ==
  ASSUME UnitQuantities, QuotaTypeOK, NeverOvercharged, [QuotaNext]_quotaVars
  PROVE  NeverOvercharged'
<1> SUFFICES ASSUME NEW b \in Buckets
             PROVE  bucket'[b] <= Held(b)'
  BY DEF NeverOvercharged, Buckets, Periods
<1>1. bucket[b] \in Nat /\ Held(b) \in Nat /\ bucket[b] <= Held(b)
  BY HeldBounds DEF QuotaTypeOK, NeverOvercharged
<1>2. ASSUME UNCHANGED <<bucket, record>>
      PROVE  bucket'[b] <= Held(b)'
  BY <1>1, <1>2, SameHeld
<1>3. ASSUME NEW c \in Callers, CommitConsume(c)
      PROVE  bucket'[b] <= Held(b)'
  <2> DEFINE k == <<Capability[tx[c].res], tx[c].period>>
  <2>1. tx[c].res \in Resources /\ Qty[tx[c].res] = 1
    BY <1>3 DEF CommitConsume, QuotaTypeOK, TxType, UnitQuantities
  <2>2. Held(b)' = IF b = k THEN Held(b) + 1 ELSE Held(b)
    BY <1>3, <2>1, ChargeHeld
  <2>3. bucket' = bucket \/ bucket' = [bucket EXCEPT ![k] = @ + 1]
    BY <1>3, <2>1 DEF CommitConsume
  <2>4. bucket'[b] = bucket[b] \/ (b = k /\ bucket'[b] = bucket[b] + 1)
    BY <2>3 DEF QuotaTypeOK
  <2> QED
    BY <1>1, <2>2, <2>4
<1>4. ASSUME NEW c \in Callers, CommitRelease(c)
      PROVE  bucket'[b] <= Held(b)'
  <2> DEFINE r == tx[c].res
  <2>1. r \in Resources /\ Qty[r] = 1
    BY <1>4 DEF CommitRelease, QuotaTypeOK, TxType, UnitQuantities
  <2>2. /\ Held(b)' = IF tx[c].found /\ r \in HeldIn(b) THEN Held(b) - 1 ELSE Held(b)
        /\ r \in HeldIn(b) => Held(b) >= 1
    BY <1>4, <2>1, ReleaseHeld
  <2>3. CASE tx[c].found
    <3>1. bucket' = [bucket EXCEPT ![BucketOf(r)] = IF @ >= 1 THEN @ - 1 ELSE @]
      BY <1>4, <2>1, <2>3 DEF CommitRelease
    <3>2. bucket'[b] = IF b = BucketOf(r) /\ bucket[b] >= 1 THEN bucket[b] - 1 ELSE bucket[b]
      BY <3>1 DEF QuotaTypeOK
    <3>3. r \in HeldIn(b) => b = BucketOf(r)
      BY DEF HeldIn
    <3> QED
      BY <1>1, <2>2, <3>2, <3>3
  <2>4. CASE ~tx[c].found
    BY <1>1, <1>2, <1>4, <2>4 DEF CommitRelease
  <2> QED
    BY <2>3, <2>4
<1> QED
  BY <1>2, <1>3, <1>4 DEF QuotaNext, BeginConsume, BeginRelease, AbandonConsume,
     Rollback, NextPeriod, ChangeTier, quotaVars

\* Nothing is charged and nothing is held at first.
LEMMA LedgerInit == QuotaInit => LedgerExact /\ NeverOvercharged
<1> SUFFICES ASSUME QuotaInit, NEW b \in Buckets
             PROVE  bucket[b] = Held(b) /\ bucket[b] <= Held(b)
  BY DEF LedgerExact, NeverOvercharged
<1>1. HeldIn(b) = {}
  BY DEF QuotaInit, HeldIn, NoRecord
<1>2. Held(b) = 0
  BY <1>1, FS_EmptySet DEF Held, UnitsOf
<1> QED
  BY <1>2 DEF QuotaInit

\* Nobody pays for a cancelled job: in every reachable state of the ledger a
\* counter is at most what is held in its bucket.
THEOREM NeverOverchargedHolds ==
  ASSUME UnitQuantities PROVE QuotaSpec => []NeverOvercharged
<1>1. QuotaTypeOK /\ NeverOvercharged /\ [QuotaNext]_quotaVars => NeverOvercharged'
  BY OverchargeStep
<1> QED
  BY <1>1, LedgerInit, QuotaTypeCorrect, PTL DEF QuotaSpec
-----------------------------------------------------------------------------
(***************************************************************************)
(* Where every limit of what is charged is a number, the counters of the   *)
(* buckets that no record was returned to twice are exact, however charges *)
(* and releases overlap.  With the types, that is inductive: a release     *)
(* that finds its record no longer held marks the bucket it lowers.        *)
(***************************************************************************)
Metered == \A t \in Tiers, r \in Resources : Limit[t][Capability[r]] # NoLimit

LimitKnown == \A c \in Callers : tx[c].op = "consume" => tx[c].limit # NoLimit

LedgerInv == QuotaTypeOK /\ LimitKnown /\ LedgerExact

\* A charge carries the limit its request read, a number.
LEMMA LimitStep ==
  ASSUME Metered, QuotaTypeOK, LimitKnown, [QuotaNext]_quotaVars
  PROVE  LimitKnown'
<1> SUFFICES ASSUME NEW d \in Callers, tx'[d].op = "consume"
             PROVE  tx'[d].limit # NoLimit
  BY DEF LimitKnown
<1> USE DEF LimitKnown, QuotaTypeOK
<1>1. ASSUME NEW c \in Callers, NEW r \in Resources, BeginConsume(c, r)
      PROVE  tx'[d].limit # NoLimit
  <2>1. CASE d # c
    BY <1>1, <2>1 DEF BeginConsume
  <2>2. CASE d = c
    <3>1. tx'[d].limit = Limit[tier][Capability[r]]
      BY <1>1, <2>2 DEF BeginConsume
    <3>2. tier \in Tiers
      OBVIOUS
    <3> QED
      BY <3>1, <3>2 DEF Metered
  <2> QED
    BY <2>1, <2>2
<1>2. ASSUME NEW c \in Callers, NEW r \in Resources, BeginRelease(c, r)
      PROVE  tx'[d].limit # NoLimit
  <2>1. d # c
    BY <1>2 DEF BeginRelease
  <2> QED
    BY <1>2, <2>1 DEF BeginRelease
<1>3. ASSUME NEW c \in Callers,
             CommitConsume(c) \/ AbandonConsume(c) \/ CommitRelease(c) \/ Rollback(c)
      PROVE  tx'[d].limit # NoLimit
  <2>1. tx' = [tx EXCEPT ![c] = NoTx]
    BY <1>3 DEF CommitConsume, AbandonConsume, CommitRelease, Rollback
  <2> QED
    BY <2>1 DEF NoTx
<1>4. ASSUME UNCHANGED tx
      PROVE  tx'[d].limit # NoLimit
  BY <1>4
<1> QED
  BY <1>1, <1>2, <1>3, <1>4 DEF QuotaNext, NextPeriod, ChangeTier, quotaVars

\* Every operation moves a counter by what it moves in the records.
LEMMA ExactStep ==
  ASSUME QuotaTypeOK, LimitKnown, LedgerExact, [QuotaNext]_quotaVars
  PROVE  LedgerExact'
<1> SUFFICES ASSUME NEW b \in Buckets, b \notin doubled'
             PROVE  bucket'[b] = Held(b)'
  BY DEF LedgerExact, Buckets, Periods
<1>0. doubled \subseteq doubled'
  BY DEF QuotaNext, quotaVars, BeginConsume, CommitConsume, AbandonConsume, BeginRelease,
     CommitRelease, Doubled, Rollback, NextPeriod, ChangeTier
<1>1. bucket[b] \in Nat /\ Held(b) \in Nat /\ bucket[b] = Held(b)
  BY <1>0, HeldBounds DEF QuotaTypeOK, LedgerExact
<1>2. ASSUME UNCHANGED <<bucket, record>>
      PROVE  bucket'[b] = Held(b)'
  BY <1>1, <1>2, SameHeld
<1>3. ASSUME NEW c \in Callers, CommitConsume(c)
      PROVE  bucket'[b] = Held(b)'
  <2> DEFINE k == <<Capability[tx[c].res], tx[c].period>>
             q == Qty[tx[c].res]
  <2>1. tx[c].op = "consume" /\ tx[c].limit # NoLimit
    BY <1>3 DEF CommitConsume, LimitKnown
  <2>2. Held(b)' = IF b = k THEN Held(b) + q ELSE Held(b)
    BY <1>3, ChargeHeld
  <2>3. bucket' = [bucket EXCEPT ![k] = @ + q]
    BY <1>3, <2>1 DEF CommitConsume
  <2>4. bucket'[b] = IF b = k THEN bucket[b] + q ELSE bucket[b]
    BY <2>3 DEF QuotaTypeOK
  <2> QED
    BY <1>1, <2>2, <2>4
<1>4. ASSUME NEW c \in Callers, CommitRelease(c)
      PROVE  bucket'[b] = Held(b)'
  <2> DEFINE r == tx[c].res
  <2>1. r \in Resources /\ Qty[r] \in Nat /\ tx[c].op = "release"
    BY <1>4, QuotaAssumption DEF CommitRelease, QuotaTypeOK, TxType
  <2>2. /\ Held(b)' = IF tx[c].found /\ r \in HeldIn(b) THEN Held(b) - Qty[r] ELSE Held(b)
        /\ r \in HeldIn(b) => Held(b) >= Qty[r]
    BY <1>4, ReleaseHeld
  <2>3. CASE tx[c].found
    <3>1. r \in HeldIn(b) <=> b = BucketOf(r)
      <4>1. b = BucketOf(r) => record[r].st = "held"
        BY <1>4, <2>3 DEF CommitRelease, Doubled
      <4> QED
        BY <2>1, <4>1 DEF HeldIn
    <3>2. bucket' = [bucket EXCEPT ![BucketOf(r)] = IF @ >= Qty[r] THEN @ - Qty[r] ELSE @]
      BY <1>4, <2>3 DEF CommitRelease
    <3>3. bucket'[b] = IF b = BucketOf(r) /\ bucket[b] >= Qty[r]
                       THEN bucket[b] - Qty[r] ELSE bucket[b]
      BY <3>2 DEF QuotaTypeOK
    <3> QED
      BY <1>1, <2>1, <2>2, <2>3, <3>1, <3>3
  <2>4. CASE ~tx[c].found
    BY <1>2, <1>4, <2>4 DEF CommitRelease
  <2> QED
    BY <2>3, <2>4
<1> QED
  BY <1>2, <1>3, <1>4 DEF QuotaNext, BeginConsume, BeginRelease, AbandonConsume,
     Rollback, NextPeriod, ChangeTier, quotaVars

\* No transaction is open at first.
LEMMA LedgerInvInit == QuotaInit => LedgerInv
<1>1. QuotaInit => LimitKnown
  BY DEF QuotaInit, LimitKnown, NoTx
<1> QED
  BY <1>1, TypeInit, LedgerInit DEF LedgerInv

\* The inductive invariant of exact ledgers.
LEMMA LedgerInvariant ==
  ASSUME Metered PROVE QuotaSpec => []LedgerInv
<1>1. LedgerInv /\ [QuotaNext]_quotaVars => LedgerInv'
  BY TypeStep, LimitStep, ExactStep DEF LedgerInv
<1> QED
  BY <1>1, LedgerInvInit, PTL DEF QuotaSpec

(***************************************************************************)
(* The bucket counters and the usage records stay in step, but where two   *)
(* releases that overlap have returned one record twice.                   *)
(***************************************************************************)
THEOREM LedgerExactHolds ==
  ASSUME Metered PROVE QuotaSpec => []LedgerExact
<1>1. LedgerInv => LedgerExact
  BY DEF LedgerInv
<1> QED
  BY <1>1, LedgerInvariant, PTL

(***************************************************************************)
(* Concurrent requests cannot pass the limit together: what a charge       *)
(* leaves held in its bucket fits the limit its request resolved.          *)
(***************************************************************************)
LEMMA GrantStep ==
  ASSUME LedgerInv, [QuotaNext]_quotaVars, NEW b \in Buckets \ doubled, Held(b)' > Held(b)
  PROVE  \E c \in Callers :
           /\ tx[c].op = "consume"
           /\ <<Capability[tx[c].res], tx[c].period>> = b
           /\ tx[c].limit # NoLimit => Held(b)' <= tx[c].limit
<1> USE DEF LedgerInv
<1>1. Held(b) \in Nat /\ bucket[b] = Held(b)
  BY HeldBounds DEF LedgerExact
<1>2. ASSUME UNCHANGED record PROVE FALSE
  BY <1>1, <1>2, SameHeld
<1>3. ASSUME NEW c \in Callers, CommitRelease(c) PROVE FALSE
  <2>1. tx[c].res \in Resources /\ Qty[tx[c].res] \in Nat
    BY <1>3, QuotaAssumption DEF CommitRelease, QuotaTypeOK, TxType
  <2>2. Held(b)' = Held(b) - Qty[tx[c].res] \/ Held(b)' = Held(b)
    BY <1>3, ReleaseHeld
  <2> QED
    BY <1>1, <2>1, <2>2
<1>4. PICK c \in Callers : CommitConsume(c)
  BY <1>2, <1>3 DEF QuotaNext, BeginConsume, BeginRelease, AbandonConsume,
     Rollback, NextPeriod, ChangeTier, quotaVars
<1>5. b = <<Capability[tx[c].res], tx[c].period>> /\ Held(b)' = Held(b) + Qty[tx[c].res]
  BY <1>1, <1>4, ChargeHeld
<1>6. tx[c].op = "consume" /\ Fits(tx[c])
  BY <1>4 DEF CommitConsume
<1>7. tx[c].limit # NoLimit => Held(b)' <= tx[c].limit
  BY <1>1, <1>5, <1>6 DEF Fits
<1> QED
  BY <1>5, <1>6, <1>7

\* Every charge that consumeWithClient commits leaves its bucket within the
\* limit that its request resolved, whatever other requests commit.
THEOREM GrantWithinLimitHolds ==
  ASSUME Metered PROVE QuotaSpec => GrantWithinLimit
<1>1. LedgerInv /\ [QuotaNext]_quotaVars =>
        [\A b \in Buckets \ doubled :
           Held(b)' > Held(b) =>
             \E c \in Callers :
               /\ tx[c].op = "consume"
               /\ <<Capability[tx[c].res], tx[c].period>> = b
               /\ tx[c].limit # NoLimit => Held(b)' <= tx[c].limit]_quotaVars
  BY GrantStep
<1> QED
  BY <1>1, LedgerInvariant, PTL DEF QuotaSpec, GrantWithinLimit


(***************************************************************************)
(* A usage record is charged once: whatever transactions are open at its   *)
(* release, none charges it again, as the charge meets the unique key.     *)
(***************************************************************************)
LEMMA ReleasedStep ==
  ASSUME QuotaTypeOK, [QuotaNext]_quotaVars, NEW r \in Resources, record[r].st = "released"
  PROVE  record'[r] = record[r]
<1>1. record \in [Resources -> RecordType] /\ tx \in [Callers -> TxType]
  BY DEF QuotaTypeOK
<1>2. ASSUME NEW c \in Callers, CommitConsume(c) PROVE record'[r] = record[r]
  BY <1>1, <1>2 DEF CommitConsume
<1>3. ASSUME NEW c \in Callers, CommitRelease(c) PROVE record'[r] = record[r]
  <2>1. CASE tx[c].found /\ tx[c].res = r
    <3>1. record' = [record EXCEPT ![r] = [st |-> "released", period |-> @.period]]
      BY <1>3, <2>1 DEF CommitRelease
    <3>2. record'[r] = [st |-> "released", period |-> record[r].period]
      BY <1>1, <3>1
    <3>3. record[r] \in RecordType
      BY <1>1
    <3>4. record[r] = [st |-> record[r].st, period |-> record[r].period]
      BY <3>3 DEF RecordType
    <3> QED BY <3>2, <3>4
  <2>2. CASE tx[c].found /\ tx[c].res # r
    BY <1>1, <1>3, <2>2 DEF CommitRelease
  <2>3. CASE ~tx[c].found
    BY <1>3, <2>3 DEF CommitRelease
  <2> QED BY <2>1, <2>2, <2>3
<1>4. ASSUME UNCHANGED record PROVE record'[r] = record[r]
  BY <1>4
<1> QED
  BY <1>2, <1>3, <1>4
     DEF QuotaNext, quotaVars, BeginConsume, BeginRelease, AbandonConsume, Rollback, NextPeriod, ChangeTier

\* After its release no duplicate of the request charges a usage record again, whatever
\* transactions overlap.
THEOREM ReleasedForGoodHolds == QuotaSpec => ReleasedForGood
<1>1. QuotaTypeOK /\ [QuotaNext]_quotaVars =>
        [\A r \in Resources : record[r].st = "released" => record'[r] = record[r]]_quotaVars
  BY ReleasedStep
<1> QED
  BY <1>1, QuotaTypeCorrect, PTL DEF QuotaSpec, ReleasedForGood
=============================================================================
