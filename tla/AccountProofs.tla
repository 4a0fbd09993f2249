--------------------------- MODULE AccountProofs ---------------------------
(***************************************************************************)
(* Proofs about an account's two faces: its subscription, for any number   *)
(* of orders, handlers, days and subscriptions, and for whatever the       *)
(* providers send; and the tab it is signed in to, for any number of goals *)
(* and jobs, and for any acts of the user, in any order of the answers.    *)
(*                                                                         *)
(* The two components share no state: each half is about one of them.      *)
(***************************************************************************)
EXTENDS Billing, WebClient, WellFoundedInduction, TLAPS

Settled == {"PAID"} \cup Revoked
OrderRow == [status : OrderStatus, sub : Subs \cup {None}]
SubRow == [status : SubStatus, end : Nat]

\* What a handler does is about an order, and its transaction is of the kind its
\* notice asks for.
Terms == \A h \in Handlers :
  /\ run[h].at \in {"read", "tx"} => run[h].notice.order \in Orders
  /\ run[h].at = "tx" =>
       /\ run[h].write.do = "activate" => run[h].notice.status \notin Revoked
       /\ run[h].write.do = "revoke" => run[h].notice.status \in Revoked

\* Two transactions of one order exclude each other.
OneTx == \A g, h \in Handlers :
  run[g].at = "tx" /\ run[h].at = "tx" /\ run[g].notice.order = run[h].notice.order => g = h

\* An order that was activated, one notice at a time, is settled, and nobody is
\* going to activate a settled one: who has read it saw it settled, or brings a
\* notice that is recorded or does not pay.
Harmless(h) ==
  /\ run[h].at = "read" => \/ run[h].seen.status \in Settled
                           \/ run[h].notice \in processed
                           \/ run[h].notice.status \in {"FAILED", "CANCELED"} \cup Revoked
  /\ run[h].at = "tx" => run[h].write.do # "activate"
Once(o) == regular[o] =>
  /\ times[o] <= 1
  /\ \A g, h \in Handlers : Busy(g, o) /\ Busy(h, o) => run[g].notice = run[h].notice
  /\ times[o] # 0 => order[o].status \in Settled
  /\ order[o].status \in Settled => \A h \in Handlers : Busy(h, o) => Harmless(h)

\* A refund, one notice at a time, is of the subscription that the order has.
Steady(o) == regular[o] =>
  \A h \in Handlers : Busy(h, o) /\ run[h].notice.status \in Revoked =>
    /\ run[h].at = "read" => run[h].seen.sub = order[o].sub
    /\ run[h].at = "tx" /\ run[h].write.do = "revoke" => run[h].write.sub = order[o].sub

\* A subscription that does not run has no days left.
Ended == \A s \in Subs : subs[s].status # "ACTIVE" => subs[s].end <= today

\* Subscriptions that somebody names have been opened.
Taken(s) == s = None \/ subs[s].status # "NONE"
Known ==
  /\ \A o \in Orders : Taken(order[o].sub) /\ (order[o].status = "NONE" => order[o].sub = None)
  /\ \A h \in Handlers :
       /\ run[h].at = "read" => Taken(run[h].seen.sub)
       /\ run[h].at = "tx" /\ run[h].write.do \in {"activate", "revoke"} => Taken(run[h].write.sub)

\* While transactions do not overlap, there is one that writes, one subscription
\* that runs, and what a transaction has read is still so.
Exclusive == \A g, h \in Handlers : InTx(g) /\ InTx(h) => g = h
OneRuns == \A s, t \in Current : s = t
SeenStill(h) ==
  run[h].at = "read" /\ run[h].seen.sub \in Current
    => order[run[h].notice.order].sub = run[h].seen.sub
WriteStill(h) ==
  /\ run[h].at = "tx" /\ run[h].write.do = "revoke" =>
       /\ run[h].write.sub \in Current => order[run[h].notice.order].sub = run[h].write.sub
       /\ membership.status = "MANUAL" /\ membership.end > today => run[h].write.shown = membership
       /\ run[h].write.shown.plan = "PRO" /\ run[h].write.shown.status = "ACTIVE" /\ run[h].write.shown.end > today
            => \E s \in Current : s # run[h].write.sub /\ subs[s].end = run[h].write.shown.end
  /\ run[h].at = "tx" /\ run[h].write.do = "activate" =>
       /\ run[h].write.end >= today
       /\ run[h].write.sub = None => Current = {}
       /\ run[h].write.sub # None =>
            run[h].write.sub \in Current /\ run[h].write.end >= subs[run[h].write.sub].end
Snapshots == calm => Exclusive /\ OneRuns /\ \A h \in Handlers : SeenStill(h) /\ WriteStill(h)

Holds == TypeOK /\ Terms /\ OneTx
Paid == EntitledIsPaid /\ \A o \in Orders : Once(o) /\ Steady(o)
Kept == Ended /\ Known /\ Snapshots

(***************************************************************************)
(* Data.                                                                   *)
(***************************************************************************)
\* What the proofs use of the assumption on the constants.
LEMMA Bounds == Days \in [Orders -> Nat] /\ MaxDay \in Nat /\ MaxSubs \in Nat
BY BillingAssumption

\* What a run remembers, by where it is.
LEMMA RunIs ==
  ASSUME run \in [Handlers -> Run], NEW h \in Handlers
  PROVE  /\ run[h].at \in {"idle", "read", "tx", "grant"}
         /\ run[h].at = "idle" <=> run[h] = Idle
         /\ run[h].at = "read" => run[h].notice \in Notice /\ run[h].seen \in OrderRow
         /\ run[h].at = "tx" => run[h].notice \in Notice /\ run[h].write \in Write
         /\ run[h].at = "grant" => run[h].membership \in Grants
<1>1. run[h] \in Run
  OBVIOUS
<1> QED
  BY <1>1 DEF Run, Idle, OrderRow

\* What a transaction is going to write, by what it does.
LEMMA WriteIs ==
  ASSUME NEW w \in Write
  PROVE  /\ w.do \in {"activate", "revoke", "cancel", "fail", "book", "nothing"}
         /\ w.do = "activate" => w.sub \in Subs \cup {None} /\ w.end \in Nat
         /\ w.do = "revoke" => w.sub \in Subs \cup {None} /\ w.shown \in Membership
         /\ w.do = "book" => w.as \in BookStatus
BY DEF Write, Activation, Revocation, Other

\* The administrator's refund is a refund.
LEMMA Paying ==
  ASSUME NEW n \in Notice, n.status \notin Revoked
  PROVE  n \in Notices
<1>1. \A o \in Orders : AdminRefund(o).status \in Revoked
  BY DEF AdminRefund, Revoked
<1> QED
  BY <1>1, BillingAssumption DEF Notice

\* None is no subscription.
LEMMA SubsAreNat == \A s \in Subs : s \in Nat /\ s # None
BY Bounds DEF Subs, None

(***************************************************************************)
(* How runs change.                                                        *)
(***************************************************************************)
Others(h) == \A g \in Handlers : g # h => run'[g] = run[g]

\* A handler goes on.
LEMMA RunStep ==
  ASSUME run \in [Handlers -> Run], NEW h \in Handlers, NEW v \in Run,
         run' = [run EXCEPT ![h] = v]
  PROVE  run' \in [Handlers -> Run] /\ run'[h] = v /\ Others(h)
BY DEF Others

\* The end of a transaction.
Through(h) ==
  /\ run[h].at = "tx"
  /\ run' \in [Handlers -> Run] /\ run'[h] = Idle /\ Others(h)
  /\ processed' = processed \cup ({run[h].notice} \cap Notices)
  /\ processed' \subseteq Notices
  /\ booked' \in [Payments -> BookStatus]

\* A payment's entry is one of the known ones.
LEMMA Booked ==
  ASSUME booked \in [Payments -> BookStatus], NEW n, NEW as \in BookStatus, Book(n, as)
  PROVE  booked' \in [Payments -> BookStatus]
BY DEF Book

\* What is recorded is a notice.
LEMMA Recorded ==
  ASSUME TypeOK, NEW h \in Handlers, run[h].at = "tx", Record(h),
         booked' \in [Payments -> BookStatus]
  PROVE  Through(h)
<1>1. Idle \in Run
  BY DEF Idle, Run
<1> QED
  BY <1>1, RunStep DEF Record, Through, TypeOK

\* What a transaction is, with its notice and what it writes.
LEMMA TxIs ==
  ASSUME Holds, NEW h \in Handlers, run[h].at = "tx"
  PROVE  /\ run[h].notice \in Notice /\ run[h].notice.order \in Orders
         /\ run[h].write \in Write
         /\ run[h].write.do = "activate" => run[h].notice.status \notin Revoked
         /\ run[h].write.do = "revoke" => run[h].notice.status \in Revoked
BY RunIs DEF Holds, TypeOK, Terms

(***************************************************************************)
(* What each step does.                                                    *)
(***************************************************************************)
\* A period that is bought: the order, its subscription, its entitlements and the
\* membership.
LEMMA ActivationDoes ==
  ASSUME Holds, NEW h \in Handlers, CommitActivation(h)
  PROVE  LET n == run[h].notice
             w == run[h].write IN
         /\ Through(h) /\ w.do = "activate" /\ w.end \in Nat /\ n.order \in Orders
         /\ UNCHANGED <<today, open, granted, regular, calm>>
         /\ until' \in [Orders -> Nat]
         /\ \A o \in Orders : until'[o] >= until[o] /\ (o # n.order => until'[o] = until[o])
         /\ membership' = [plan |-> "PRO", status |-> "ACTIVE", end |-> w.end]
         /\ times' \in [Orders -> 0..2]
         /\ times'[n.order] = IF times[n.order] = 2 THEN 2 ELSE times[n.order] + 1
         /\ \A o \in Orders : o # n.order => times'[o] = times[o]
         /\ \E s \in Subs :
              /\ IF w.sub = None THEN subs[s].status = "NONE" ELSE s = w.sub
              /\ subs' = [subs EXCEPT ![s] = [status |-> "ACTIVE", end |-> w.end]]
              /\ order' = [order EXCEPT ![n.order] = [status |-> "PAID", sub |-> s]]
<1> DEFINE n == run[h].notice
           w == run[h].write
<1>1. run[h].at = "tx" /\ w.do = "activate"
  BY DEF CommitActivation
<1>2. n \in Notice /\ n.order \in Orders /\ w.end \in Nat
  BY <1>1, TxIs, WriteIs
<1>3. Through(h)
  <2>1. Book(n, "SUCCEEDED") /\ Record(h)
    BY DEF CommitActivation
  <2>2. booked' \in [Payments -> BookStatus]
    BY <2>1, Booked DEF Holds, TypeOK, BookStatus
  <2> QED
    BY <1>1, <2>1, <2>2, Recorded DEF Holds
<1>4. /\ until' \in [Orders -> Nat]
      /\ \A o \in Orders : until'[o] >= until[o] /\ (o # n.order => until'[o] = until[o])
  <2>1. until' = [until EXCEPT ![n.order] = IF w.end > @ THEN w.end ELSE @]
    BY DEF CommitActivation, GrantProEntitlements
  <2>2. until \in [Orders -> Nat]
    BY DEF Holds, TypeOK
  <2> QED
    BY <1>2, <2>1, <2>2
<1>5. /\ times' \in [Orders -> 0..2]
      /\ times'[n.order] = IF times[n.order] = 2 THEN 2 ELSE times[n.order] + 1
      /\ \A o \in Orders : o # n.order => times'[o] = times[o]
  <2>1. times' = [times EXCEPT ![n.order] = IF @ = 2 THEN 2 ELSE @ + 1]
    BY DEF CommitActivation
  <2>2. times \in [Orders -> 0..2]
    BY DEF Holds, TypeOK
  <2> QED
    BY <1>2, <2>1, <2>2
<1>6. PICK s \in Subs :
        /\ IF w.sub = None THEN subs[s].status = "NONE" ELSE s = w.sub
        /\ subs' = [subs EXCEPT ![s] = [status |-> "ACTIVE", end |-> w.end]]
        /\ order' = [order EXCEPT ![n.order] = [status |-> "PAID", sub |-> s]]
  BY DEF CommitActivation
<1>7. /\ UNCHANGED <<today, open, granted, regular, calm>>
      /\ membership' = [plan |-> "PRO", status |-> "ACTIVE", end |-> w.end]
  BY DEF CommitActivation
<1> QED
  BY <1>1, <1>2, <1>3, <1>4, <1>5, <1>6, <1>7

\* A period that ends: the order's entitlements and subscription.
LEMMA RevocationDoes ==
  ASSUME Holds, NEW h \in Handlers, CommitRevocation(h)
  PROVE  LET n == run[h].notice
             w == run[h].write IN
         /\ Through(h) /\ w.do = "revoke" /\ n.order \in Orders /\ n.status \in Revoked
         /\ w.sub \in Subs \cup {None} /\ w.shown \in Membership
         /\ UNCHANGED <<today, open, granted, times, regular, calm>>
         /\ until' \in [Orders -> Nat]
         /\ until'[n.order] <= today
         /\ \A o \in Orders : o # n.order => until'[o] = until[o]
         /\ membership' = w.shown
         /\ order' = [order EXCEPT ![n.order] = [status |-> n.status, sub |-> order[n.order].sub]]
         /\ subs' = IF w.sub = None THEN subs
                    ELSE [subs EXCEPT ![w.sub] = [status |-> "CANCELED", end |-> today]]
<1> DEFINE n == run[h].notice
           w == run[h].write
<1>1. run[h].at = "tx" /\ w.do = "revoke"
  BY DEF CommitRevocation
<1>2. /\ n.order \in Orders /\ n.status \in Revoked
      /\ w.sub \in Subs \cup {None} /\ w.shown \in Membership
  BY <1>1, TxIs, WriteIs
<1>3. Through(h)
  <2>1. Book(n, n.status) /\ Record(h)
    BY DEF CommitRevocation
  <2>2. booked' \in [Payments -> BookStatus]
    BY <1>2, <2>1, Booked DEF Holds, TypeOK, BookStatus
  <2> QED
    BY <1>1, <2>1, <2>2, Recorded DEF Holds
<1>4. /\ until' \in [Orders -> Nat]
      /\ until'[n.order] <= today
      /\ \A o \in Orders : o # n.order => until'[o] = until[o]
  <2>1. until' = [until EXCEPT ![n.order] = IF @ > today THEN today ELSE @]
    BY DEF CommitRevocation, Cut
  <2>2. until \in [Orders -> Nat] /\ today \in Nat
    BY Bounds DEF Holds, TypeOK
  <2> QED
    BY <1>2, <2>1, <2>2
<1>5. /\ UNCHANGED <<today, open, granted, times, regular, calm>>
      /\ membership' = w.shown
      /\ subs' = IF w.sub = None THEN subs
                 ELSE [subs EXCEPT ![w.sub] = [status |-> "CANCELED", end |-> today]]
  BY DEF CommitRevocation, history
<1>6. order' = [order EXCEPT ![n.order] = [status |-> n.status, sub |-> order[n.order].sub]]
  BY <1>2 DEF CommitRevocation, Holds, TypeOK
<1> QED
  BY <1>1, <1>2, <1>3, <1>4, <1>5, <1>6

\* What the end of a period changes when it is only not renewed.
LEMMA CancellationDoes ==
  ASSUME Holds, NEW h \in Handlers, CommitCancellation(h)
  PROVE  LET n == run[h].notice IN
         /\ Through(h) /\ run[h].write.do = "cancel" /\ n.order \in Orders
         /\ UNCHANGED <<today, open, subs, until, granted, membership, times, calm>>
         /\ order' = [order EXCEPT ![n.order] = [status |-> "CANCELED", sub |-> order[n.order].sub]]
         /\ regular' = [regular EXCEPT ![n.order] = FALSE]
<1>1. run[h].at = "tx" /\ run[h].notice.order \in Orders
  BY TxIs DEF CommitCancellation
<1>2. Book(run[h].notice, "CANCELED") /\ Record(h)
  BY DEF CommitCancellation
<1>3. Through(h)
  BY <1>1, <1>2, Booked, Recorded DEF Holds, TypeOK, BookStatus
<1> QED
  BY <1>1, <1>3 DEF CommitCancellation, Holds, TypeOK

\* What a failed payment changes.
LEMMA FailureDoes ==
  ASSUME Holds, NEW h \in Handlers, CommitFailure(h)
  PROVE  LET n == run[h].notice IN
         /\ Through(h) /\ run[h].write.do = "fail" /\ n.order \in Orders
         /\ UNCHANGED <<today, open, subs, until, granted, membership, times, regular, calm>>
         /\ \/ order' = order
            \/ /\ order[n.order].status = "PENDING"
               /\ order' = [order EXCEPT ![n.order] = [status |-> "FAILED", sub |-> order[n.order].sub]]
<1>1. run[h].at = "tx" /\ run[h].notice.order \in Orders
  BY TxIs DEF CommitFailure
<1>2. Book(run[h].notice, "FAILED") /\ Record(h)
  BY DEF CommitFailure
<1>3. Through(h)
  BY <1>1, <1>2, Booked, Recorded DEF Holds, TypeOK, BookStatus
<1> QED
  BY <1>1, <1>3 DEF CommitFailure, Holds, TypeOK, history

\* A notice that changes no order.
LEMMA NothingDoes ==
  ASSUME Holds, NEW h \in Handlers, CommitNothing(h)
  PROVE  /\ Through(h) /\ run[h].write.do \in {"book", "nothing"}
         /\ UNCHANGED <<today, open, order, subs, until, granted, membership, times, regular, calm>>
<1>1. run[h].at = "tx" /\ run[h].write \in Write /\ Record(h)
  BY TxIs DEF CommitNothing
<1>2. booked' \in [Payments -> BookStatus]
  <2>1. CASE run[h].write.do = "book"
    BY <1>1, <2>1, WriteIs, Booked DEF CommitNothing, Holds, TypeOK
  <2>2. CASE run[h].write.do # "book"
    BY <2>2 DEF CommitNothing, Holds, TypeOK
  <2> QED
    BY <2>1, <2>2
<1>3. Through(h)
  BY <1>1, <1>2, Recorded DEF Holds
<1> QED
  BY <1>3 DEF CommitNothing, history

\* A notice is taken up: the order is read, and whether it is the only one at work
\* is remembered.
LEMMA ReceiveDoes ==
  ASSUME Holds, NEW h \in Handlers, NEW n \in Notice, Receive(h, n)
  PROVE  /\ n.order \in Orders /\ run[h] = Idle
         /\ run' \in [Handlers -> Run] /\ Others(h)
         /\ run'[h].at = "read" /\ run'[h].notice = n /\ run'[h].seen = order[n.order]
         /\ UNCHANGED <<today, open, rows, times, calm>>
         /\ regular' \in [Orders -> BOOLEAN]
         /\ \A o \in Orders : o # n.order => regular'[o] = regular[o]
         /\ regular'[n.order] => /\ regular[n.order]
                                 /\ \A g \in Handlers : Busy(g, n.order) => g = h \/ run[g].notice = n
<1>1. n.order \in Orders /\ order[n.order] \in OrderRow
  BY DEF Receive, Holds, TypeOK, OrderRow
<1> DEFINE v == [at |-> "read", notice |-> n, seen |-> order[n.order]]
<1>2. v \in Run
  BY <1>1 DEF Run, OrderRow
<1>3. run' = [run EXCEPT ![h] = v] /\ run[h] = Idle
  BY DEF Receive
<1>4. v.at = "read" /\ v.notice = n /\ v.seen = order[n.order]
  OBVIOUS
<1> HIDE DEF v
<1>5. run' \in [Handlers -> Run] /\ run'[h] = v /\ Others(h)
  BY <1>2, <1>3, RunStep DEF Holds, TypeOK
<1> DEFINE same == \A g \in Handlers \ {h} : Busy(g, n.order) => run[g].notice = n
<1>6. regular' = [regular EXCEPT ![n.order] = regular[n.order] /\ same]
  BY DEF Receive
<1>7. same => \A g \in Handlers : Busy(g, n.order) => g = h \/ run[g].notice = n
  OBVIOUS
<1>8. (regular[n.order] /\ same) \in BOOLEAN
  OBVIOUS
<1> HIDE DEF same
<1>9. /\ regular' \in [Orders -> BOOLEAN]
      /\ \A o \in Orders : o # n.order => regular'[o] = regular[o]
      /\ regular'[n.order] = (regular[n.order] /\ same)
  BY <1>1, <1>6, <1>8 DEF Holds, TypeOK
<1>10. UNCHANGED <<today, open, rows, times, calm>>
  BY DEF Receive
<1> QED
  BY <1>1, <1>3, <1>4, <1>5, <1>7, <1>9, <1>10

\* What the notice of a failure asks for.
LEMMA FailureWrites ==
  ASSUME NEW n, NEW seen, n.status = "FAILED"
  PROVE  Writes(n, seen) = {[do |-> "fail"]}
<1>1. n.status \notin Revoked /\ n.status # "CANCELED"
  BY DEF Revoked
<1> QED
  BY <1>1, ZenonT(30) DEF Writes

\* What a refund or a dispute asks for.
LEMMA RevocationWrites ==
  ASSUME NEW n, NEW seen, n.status \in Revoked
  PROVE  Writes(n, seen) = {[do |-> "revoke", sub |-> seen.sub, shown |-> m] : m \in Projections(seen.sub)}
<1>1. n.status # "FAILED" /\ n.status # "CANCELED"
  BY DEF Revoked
<1> QED
  BY <1>1, ZenonT(30) DEF Writes

\* What a transaction is going to write is typed.
LEMMA WritesTyped ==
  ASSUME Holds, NEW h \in Handlers, run[h].at = "read", NEW w \in Writes(run[h].notice, run[h].seen)
  PROVE  /\ w \in Write
         /\ w.do = "activate" => run[h].notice.status \notin {"FAILED", "CANCELED"} \cup Revoked
         /\ w.do = "activate" => run[h].seen.status \notin Settled
         /\ w.do = "revoke" => run[h].notice.status \in Revoked
         /\ w.do = "activate" => w \in Extended(run[h].notice.order)
         /\ w.do = "revoke" => w.sub = run[h].seen.sub /\ w.shown \in Projections(run[h].seen.sub)
<1> DEFINE n == run[h].notice
           seen == run[h].seen
<1>1. n.order \in Orders /\ seen \in OrderRow
  BY RunIs DEF Holds, TypeOK, Terms
<1>2. CASE n.status = "FAILED"
  <2>1. Writes(n, seen) = {[do |-> "fail"]}
    BY <1>2, FailureWrites
  <2> QED
    BY <1>2, <2>1 DEF Write, Other
<1>3. CASE n.status # "FAILED" /\ n.status \in Revoked
  <2>0. Writes(n, seen) = {[do |-> "revoke", sub |-> seen.sub, shown |-> m] : m \in Projections(seen.sub)}
    BY <1>3, RevocationWrites
  <2>1. PICK m \in Projections(seen.sub) : w = [do |-> "revoke", sub |-> seen.sub, shown |-> m]
    BY <2>0
  <2>2. m \in Membership
    <3>1. membership \in Membership
      BY DEF Holds, TypeOK
    <3>2. Free \in Membership
      BY Bounds DEF Holds, TypeOK, Free, Membership
    <3>3. \A S \in SUBSET Current : Shown(S) \subseteq Membership
      BY DEF Holds, TypeOK, Shown, Latest, Current, Membership
    <3> QED
      BY <3>1, <3>2, <3>3 DEF Projections
  <2>3. w.do = "revoke" /\ w.sub = seen.sub /\ w.shown = m
    BY <2>1
  <2>4. w \in Revocation
    BY <1>1, <2>1, <2>2 DEF Revocation, OrderRow
  <2> QED
    BY <1>3, <2>3, <2>4 DEF Write
<1>4. CASE n.status \notin {"FAILED"} \cup Revoked /\ n.status = "CANCELED"
  <2>1. w = IF seen.sub = None THEN [do |-> "nothing"] ELSE [do |-> "cancel", sub |-> seen.sub]
    BY <1>4 DEF Writes
  <2> QED
    BY <1>1, <2>1 DEF Write, Other, OrderRow
<1>5. CASE n.status \notin {"FAILED", "CANCELED"} \cup Revoked
  <2>1. w \in Activations(n, seen)
    BY <1>5 DEF Writes
  <2>2. CASE seen.status = "PAID"
    BY <2>1, <2>2 DEF Activations, Write, Other, BookStatus
  <2>3. CASE seen.status # "PAID" /\ seen.status \in Revoked
    BY <2>1, <2>3 DEF Activations, Write, Other, BookStatus
  <2>4. CASE seen.status \notin Settled
    <3>1. w \in Extended(n.order)
      BY <2>1, <2>4 DEF Activations, Settled
    <3>2. w \in Activation
      <4>1. today + Days[n.order] \in Nat
        BY <1>1, Bounds DEF Holds, TypeOK
      <4>2. \A s \in Current : s \in Subs /\ subs[s].end + Days[n.order] \in Nat
        BY <1>1, Bounds DEF Holds, TypeOK, Current
      <4> QED
        BY <3>1, <4>1, <4>2 DEF Extended, Activation, Latest
    <3>3. w.do = "activate"
      BY <3>1 DEF Extended
    <3> QED
      BY <1>5, <2>4, <3>1, <3>2, <3>3 DEF Write
  <2> QED
    BY <2>2, <2>3, <2>4 DEF Settled
<1> QED
  BY <1>2, <1>3, <1>4, <1>5

\* A transaction begins, unless its notice was recorded in the meantime.
LEMMA BeginDoes ==
  ASSUME Holds, NEW h \in Handlers, Begin(h)
  PROVE  LET n == run[h].notice IN
         /\ run[h].at = "read" /\ n.order \in Orders
         /\ run' \in [Handlers -> Run] /\ Others(h)
         /\ \A g \in Handlers : g # h /\ run[g].at = "tx" => run[g].notice.order # n.order
         /\ \/ run'[h] = Idle
            \/ /\ n \notin processed
               /\ run'[h].at = "tx" /\ run'[h].notice = n
               /\ run'[h].write \in Writes(n, run[h].seen)
         /\ UNCHANGED <<today, open, rows, times, regular>>
         /\ calm' \in BOOLEAN
         /\ calm' => calm /\ \A g \in Handlers : g # h => ~InTx(g)
<1> DEFINE n == run[h].notice
<1>1. run[h].at = "read" /\ n.order \in Orders
  BY DEF Begin, Holds, Terms
<1>2. \A g \in Handlers : g # h /\ run[g].at = "tx" => run[g].notice.order # n.order
  BY DEF Begin
<1>3. /\ run' \in [Handlers -> Run] /\ Others(h)
      /\ \/ run'[h] = Idle
         \/ /\ n \notin processed
            /\ run'[h].at = "tx" /\ run'[h].notice = n
            /\ run'[h].write \in Writes(n, run[h].seen)
  <2>1. CASE run' = [run EXCEPT ![h] = Idle]
    BY <2>1, RunStep DEF Holds, TypeOK, Run, Idle
  <2>2. CASE n \notin processed /\ \E w \in Writes(n, run[h].seen) :
               run' = [run EXCEPT ![h] = [at |-> "tx", notice |-> n, write |-> w]]
    <3>1. PICK w \in Writes(n, run[h].seen) :
            run' = [run EXCEPT ![h] = [at |-> "tx", notice |-> n, write |-> w]]
      BY <2>2
    <3> DEFINE v == [at |-> "tx", notice |-> n, write |-> w]
    <3>2. v \in Run
      BY <1>1, WritesTyped, RunIs DEF Run, Holds, TypeOK
    <3>3. v.at = "tx" /\ v.notice = n /\ v.write = w
      OBVIOUS
    <3> HIDE DEF v
    <3>4. run' \in [Handlers -> Run] /\ run'[h] = v /\ Others(h)
      BY <3>1, <3>2, RunStep DEF Holds, TypeOK, v
    <3> QED
      BY <2>2, <3>3, <3>4
  <2> QED
    BY <2>1, <2>2 DEF Begin
<1>4. /\ UNCHANGED <<today, open, rows, times, regular>>
      /\ calm' = (calm /\ \A g \in Handlers \ {h} : ~InTx(g))
  BY DEF Begin
<1> QED
  BY <1>1, <1>2, <1>3, <1>4

\* The administrator shows a membership, before the entitlements follow.
LEMMA MembershipDoes ==
  ASSUME Holds, NEW h \in Handlers, NEW m \in Grants, GrantMembership(h, m)
  PROVE  /\ run[h] = Idle /\ m \in Membership /\ membership' = m
         /\ run' \in [Handlers -> Run] /\ run'[h].at = "grant" /\ Others(h)
         /\ UNCHANGED <<today, open, order, subs, until, granted, processed, booked, times, regular>>
         /\ calm' \in BOOLEAN
         /\ calm' => calm /\ \A g \in Handlers : g # h => ~InTx(g)
<1>1. m \in Membership
  BY BillingAssumption DEF Membership
<1> DEFINE v == [at |-> "grant", membership |-> m]
<1>2. v \in Run /\ v.at = "grant"
  BY DEF Run
<1>3. run' = [run EXCEPT ![h] = v]
  BY DEF GrantMembership
<1> HIDE DEF v
<1>4. run' \in [Handlers -> Run] /\ run'[h] = v /\ Others(h)
  BY <1>2, <1>3, RunStep DEF Holds, TypeOK
<1>5. /\ run[h] = Idle /\ membership' = m
      /\ UNCHANGED <<today, open, order, subs, until, granted, processed, booked, times, regular>>
      /\ calm' = (calm /\ \A g \in Handlers \ {h} : ~InTx(g))
  BY DEF GrantMembership
<1> QED
  BY <1>1, <1>2, <1>4, <1>5

\* A handler ends without a commit, or the administrator's entitlements follow.
LEMMA LeaveDoes ==
  ASSUME Holds, NEW h \in Handlers, Abort(h) \/ GrantEntitlements(h)
  PROVE  /\ run' \in [Handlers -> Run] /\ run'[h] = Idle /\ Others(h)
         /\ granted' \in Nat
         /\ UNCHANGED <<today, open, order, subs, until, membership, processed, booked, times, regular, calm>>
<1>1. run' = [run EXCEPT ![h] = Idle]
  BY DEF Abort, GrantEntitlements
<1>2. run' \in [Handlers -> Run] /\ run'[h] = Idle /\ Others(h)
  BY <1>1, RunStep DEF Holds, TypeOK, Run, Idle
<1>3. granted' \in Nat
  <2>1. CASE Abort(h)
    BY <2>1 DEF Abort, rows, Holds, TypeOK
  <2>2. CASE GrantEntitlements(h)
    <3>1. run[h].membership \in Grants /\ run[h].membership.end \in Nat
      BY <2>2, RunIs, BillingAssumption DEF GrantEntitlements, Holds, TypeOK
    <3>2. today \in Nat /\ granted \in Nat
      BY Bounds DEF Holds, TypeOK
    <3> QED
      BY <2>2, <3>1, <3>2 DEF GrantEntitlements
  <2> QED
    BY <2>1, <2>2
<1>4. UNCHANGED <<today, open, order, subs, until, membership, processed, booked, times, regular, calm>>
  BY DEF Abort, GrantEntitlements, rows, history
<1> QED
  BY <1>2, <1>3, <1>4

(***************************************************************************)
(* Types, terms and one transaction of an order at a time.                 *)
(***************************************************************************)
\* An order that is written stays an order.
LEMMA OrdersTyped ==
  ASSUME order \in [Orders -> [status : OrderStatus, sub : Subs \cup {None}]],
         NEW o \in Orders, NEW st \in OrderStatus, NEW s \in Subs \cup {None},
         order' = [order EXCEPT ![o] = [status |-> st, sub |-> s]]
  PROVE  order' \in [Orders -> [status : OrderStatus, sub : Subs \cup {None}]]
OBVIOUS

\* Every step keeps the types.
LEMMA TypeStep == Holds /\ [Next]_vars => TypeOK'
<1> SUFFICES ASSUME Holds, [Next]_vars PROVE TypeOK'
  OBVIOUS
<1>0. TypeOK /\ Idle \in Run
  BY DEF Holds, Idle, Run
<1>1. CASE Tick
  BY <1>0, <1>1, Bounds DEF Tick, rows, history, TypeOK
<1>2. ASSUME NEW o \in Orders, CreateOrder(o) PROVE TypeOK'
  <2>1. order' \in [Orders -> [status : OrderStatus, sub : Subs \cup {None}]]
    BY <1>0, <1>2 DEF CreateOrder, TypeOK, OrderStatus
  <2>2. UNCHANGED <<today, open, subs, until, granted, membership, processed, booked, run, times, regular, calm>>
    BY <1>2 DEF CreateOrder, history
  <2> QED
    BY <1>0, <2>1, <2>2 DEF TypeOK
<1>3. ASSUME NEW o \in Orders, CreateCheckout(o) PROVE TypeOK'
  BY <1>0, <1>3 DEF CreateCheckout, rows, history, TypeOK
<1>4. ASSUME NEW h \in Handlers, NEW n \in Notice, Receive(h, n) PROVE TypeOK'
  BY <1>0, <1>4, ReceiveDoes DEF rows, TypeOK
<1>5. ASSUME NEW h \in Handlers, NEW m \in Grants, GrantMembership(h, m) PROVE TypeOK'
  BY <1>0, <1>5, MembershipDoes DEF TypeOK
<1>6. ASSUME NEW h \in Handlers, Begin(h) PROVE TypeOK'
  BY <1>0, <1>6, BeginDoes DEF rows, TypeOK
<1>7. ASSUME NEW h \in Handlers, CommitActivation(h) PROVE TypeOK'
  <2>1. PICK s \in Subs :
          /\ subs' = [subs EXCEPT ![s] = [status |-> "ACTIVE", end |-> run[h].write.end]]
          /\ order' = [order EXCEPT ![run[h].notice.order] = [status |-> "PAID", sub |-> s]]
    BY <1>7, ActivationDoes
  <2>2. run[h].write.end \in Nat
    BY <1>7, ActivationDoes
  <2>3. subs' \in [Subs -> [status : SubStatus, end : Nat]]
    BY <1>0, <2>1, <2>2 DEF TypeOK, SubStatus
  <2>4. order' \in [Orders -> [status : OrderStatus, sub : Subs \cup {None}]]
    BY <1>0, <2>1 DEF TypeOK, OrderStatus
  <2>5. membership' \in Membership
    BY <1>7, <2>2, ActivationDoes DEF Membership
  <2>6. /\ UNCHANGED <<today, open, granted, regular, calm>>
        /\ until' \in [Orders -> Nat] /\ times' \in [Orders -> 0..2] /\ Through(h)
    BY <1>7, ActivationDoes
  <2> QED
    BY <1>0, <2>3, <2>4, <2>5, <2>6 DEF TypeOK, Through
<1>8. ASSUME NEW h \in Handlers, CommitRevocation(h) PROVE TypeOK'
  <2> DEFINE n == run[h].notice
             w == run[h].write
  <2>0. /\ n.order \in Orders /\ n.status \in Revoked /\ w.sub \in Subs \cup {None}
        /\ order' = [order EXCEPT ![n.order] = [status |-> n.status, sub |-> order[n.order].sub]]
        /\ subs' = IF w.sub = None THEN subs
                   ELSE [subs EXCEPT ![w.sub] = [status |-> "CANCELED", end |-> today]]
    BY <1>8, RevocationDoes
  <2>1. order' \in [Orders -> [status : OrderStatus, sub : Subs \cup {None}]]
    <3>1. n.status \in OrderStatus /\ order[n.order].sub \in Subs \cup {None}
      BY <1>0, <2>0 DEF TypeOK, OrderStatus, Revoked
    <3> QED
      BY <1>0, <2>0, <3>1, OrdersTyped DEF TypeOK
  <2>2. subs' \in [Subs -> [status : SubStatus, end : Nat]]
    <3>1. today \in Nat /\ subs \in [Subs -> [status : SubStatus, end : Nat]]
      BY <1>0, Bounds DEF TypeOK
    <3> HIDE DEF w
    <3> QED
      BY <2>0, <3>1 DEF SubStatus
  <2>3. /\ UNCHANGED <<today, open, granted, times, regular, calm>>
        /\ until' \in [Orders -> Nat] /\ membership' \in Membership /\ Through(h)
    BY <1>8, RevocationDoes
  <2> QED
    BY <1>0, <2>1, <2>2, <2>3 DEF TypeOK, Through
<1>9. ASSUME NEW h \in Handlers, CommitCancellation(h) PROVE TypeOK'
  <2>1. order' \in [Orders -> [status : OrderStatus, sub : Subs \cup {None}]]
    <3>1. /\ run[h].notice.order \in Orders
          /\ order' = [order EXCEPT ![run[h].notice.order] =
                                        [status |-> "CANCELED", sub |-> order[run[h].notice.order].sub]]
      BY <1>9, CancellationDoes
    <3>2. order[run[h].notice.order].sub \in Subs \cup {None} /\ "CANCELED" \in OrderStatus
      BY <1>0, <3>1 DEF TypeOK, OrderStatus
    <3> QED
      BY <1>0, <3>1, <3>2, OrdersTyped DEF TypeOK
  <2>2. regular' \in [Orders -> BOOLEAN]
    BY <1>0, <1>9, CancellationDoes DEF TypeOK
  <2>3. /\ UNCHANGED <<today, open, subs, until, granted, membership, times, calm>>
        /\ Through(h)
    BY <1>9, CancellationDoes
  <2> QED
    BY <1>0, <2>1, <2>2, <2>3 DEF TypeOK, Through
<1>10. ASSUME NEW h \in Handlers, CommitFailure(h) PROVE TypeOK'
  <2>1. order' \in [Orders -> [status : OrderStatus, sub : Subs \cup {None}]]
    <3>1. /\ run[h].notice.order \in Orders
          /\ order' = order \/ order' = [order EXCEPT ![run[h].notice.order] =
                                        [status |-> "FAILED", sub |-> order[run[h].notice.order].sub]]
      BY <1>10, FailureDoes
    <3>2. order[run[h].notice.order].sub \in Subs \cup {None} /\ "FAILED" \in OrderStatus
      BY <1>0, <3>1 DEF TypeOK, OrderStatus
    <3> QED
      BY <1>0, <3>1, <3>2, OrdersTyped DEF TypeOK
  <2>2. /\ UNCHANGED <<today, open, subs, until, granted, membership, times, regular, calm>>
        /\ Through(h)
    BY <1>10, FailureDoes
  <2> QED
    BY <1>0, <2>1, <2>2 DEF TypeOK, Through
<1>11. ASSUME NEW h \in Handlers, CommitNothing(h) PROVE TypeOK'
  BY <1>0, <1>11, NothingDoes DEF TypeOK, Through
<1>12. ASSUME NEW h \in Handlers, Abort(h) \/ GrantEntitlements(h) PROVE TypeOK'
  BY <1>0, <1>12, LeaveDoes DEF TypeOK
<1>13. CASE UNCHANGED vars
  BY <1>0, <1>13 DEF vars, rows, history, TypeOK
<1> QED
  BY <1>1, <1>2, <1>3, <1>4, <1>5, <1>6, <1>7, <1>8, <1>9, <1>10, <1>11, <1>12, <1>13 DEF Next

\* What every step does to the runs: at most one changes, to rest, to a notice that
\* is read, or to its transaction.
LEMMA RunsChange ==
  ASSUME Holds, [Next]_vars, run' # run
  PROVE  \E h \in Handlers :
           /\ Others(h)
           /\ \/ run'[h].at = "idle"
              \/ \E m \in Grants : GrantMembership(h, m) /\ run'[h].at = "grant"
              \/ \E n \in Notice : Receive(h, n)
              \/ Begin(h) /\ run'[h].at = "tx"
<1>1. ASSUME NEW h \in Handlers, NEW n \in Notice, Receive(h, n)
      PROVE  Others(h)
  BY <1>1, ReceiveDoes
<1>2. ASSUME NEW h \in Handlers, NEW m \in Grants, GrantMembership(h, m)
      PROVE  Others(h) /\ run'[h].at = "grant"
  BY <1>2, MembershipDoes
<1>3. ASSUME NEW h \in Handlers, Begin(h)
      PROVE  Others(h) /\ (run'[h].at = "idle" \/ run'[h].at = "tx")
  BY <1>3, BeginDoes DEF Idle
<1>4. ASSUME NEW h \in Handlers,
             \/ CommitActivation(h) \/ CommitRevocation(h) \/ CommitCancellation(h)
             \/ CommitFailure(h) \/ CommitNothing(h)
      PROVE  Others(h) /\ run'[h].at = "idle"
  <2>1. Through(h)
    BY <1>4, ActivationDoes, RevocationDoes, CancellationDoes, FailureDoes, NothingDoes
  <2> QED
    BY <2>1 DEF Through, Idle
<1>5. ASSUME NEW h \in Handlers, Abort(h) \/ GrantEntitlements(h)
      PROVE  Others(h) /\ run'[h].at = "idle"
  BY <1>5, LeaveDoes DEF Idle
<1>6. \/ \E h \in Handlers : \E n \in Notice : Receive(h, n)
      \/ \E h \in Handlers : \E m \in Grants : GrantMembership(h, m)
      \/ \E h \in Handlers : Begin(h)
      \/ \E h \in Handlers :
           \/ CommitActivation(h) \/ CommitRevocation(h) \/ CommitCancellation(h)
           \/ CommitFailure(h) \/ CommitNothing(h)
      \/ \E h \in Handlers : Abort(h) \/ GrantEntitlements(h)
  BY DEF Next, Tick, CreateOrder, CreateCheckout, vars
<1> QED
  BY <1>1, <1>2, <1>3, <1>4, <1>5, <1>6

\* Every step keeps what runs are about, and one transaction of an order at a time.
LEMMA TermsStep == Holds /\ [Next]_vars => Terms' /\ OneTx'
<1> SUFFICES ASSUME Holds, [Next]_vars PROVE Terms' /\ OneTx'
  OBVIOUS
<1>0. Terms /\ OneTx
  BY DEF Holds
<1>1. CASE run' = run
  BY <1>0, <1>1 DEF Terms, OneTx
<1>2. CASE run' # run
  <2>1. PICK h \in Handlers :
          /\ Others(h)
          /\ \/ run'[h].at = "idle"
             \/ \E m \in Grants : GrantMembership(h, m) /\ run'[h].at = "grant"
             \/ \E n \in Notice : Receive(h, n)
             \/ Begin(h) /\ run'[h].at = "tx"
    BY <1>2, RunsChange
  <2>2. CASE run'[h].at \in {"idle", "grant"}
    BY <1>0, <2>1, <2>2 DEF Terms, OneTx, Others
  <2>4. ASSUME NEW n \in Notice, Receive(h, n) PROVE Terms' /\ OneTx'
    <3>1. run'[h].at = "read" /\ run'[h].notice = n /\ n.order \in Orders
      BY <2>4, ReceiveDoes
    <3> QED
      BY <1>0, <2>1, <3>1 DEF Terms, OneTx, Others
  <2>3. CASE Begin(h) /\ run'[h].at = "tx"
    <3>1. /\ run[h].at = "read" /\ run[h].notice.order \in Orders
          /\ run'[h].notice = run[h].notice
          /\ run'[h].write \in Writes(run[h].notice, run[h].seen)
          /\ \A g \in Handlers : g # h /\ run[g].at = "tx" => run[g].notice.order # run[h].notice.order
      BY <2>3, BeginDoes DEF Idle
    <3>2. /\ run'[h].write.do = "activate" => run'[h].notice.status \notin Revoked
          /\ run'[h].write.do = "revoke" => run'[h].notice.status \in Revoked
      BY <3>1, WritesTyped
    <3>3. Terms'
      BY <1>0, <2>1, <2>3, <3>1, <3>2 DEF Terms, Others
    <3>4. OneTx'
      BY <1>0, <2>1, <2>3, <3>1 DEF OneTx, Others
    <3> QED
      BY <3>3, <3>4
  <2> QED
    BY <2>1, <2>2, <2>3, <2>4
<1> QED
  BY <1>1, <1>2

(***************************************************************************)
(* What is paid, once.                                                     *)
(***************************************************************************)
\* The end of an order's entitlements is a day.
LEMMA UntilIsDay == TypeOK => today \in Nat /\ \A o \in Orders : until[o] \in Nat
BY Bounds DEF TypeOK

\* An order keeps what it is entitled to as long as it stays paid.
LEMMA EntitledStep == Holds /\ EntitledIsPaid /\ [Next]_vars => EntitledIsPaid'
<1> SUFFICES ASSUME Holds, EntitledIsPaid, [Next]_vars, NEW o \in Orders, until'[o] > today'
             PROVE  order'[o].status \in {"PAID", "CANCELED"}
  BY DEF EntitledIsPaid
<1>0. /\ until[o] > today => order[o].status \in {"PAID", "CANCELED"}
      /\ today \in Nat /\ until[o] \in Nat
      /\ order \in [Orders -> OrderRow]
  BY UntilIsDay DEF EntitledIsPaid, Holds, TypeOK, OrderRow
<1> DEFINE Same == order' = order /\ until' = until /\ (today' = today \/ today' = today + 1)
<1>1. CASE Same
  BY <1>0, <1>1
<1>2. ASSUME NEW p \in Orders, CreateOrder(p) PROVE order'[o].status \in {"PAID", "CANCELED"}
  <2>1. order[p].status = "NONE" /\ until' = until /\ today' = today
    BY <1>2 DEF CreateOrder
  <2>2. o # p => order'[o] = order[o]
    BY <1>0, <1>2 DEF CreateOrder
  <2> QED
    BY <1>0, <2>1, <2>2
<1>3. ASSUME NEW h \in Handlers, CommitActivation(h) PROVE order'[o].status \in {"PAID", "CANCELED"}
  <2>1. PICK s \in Subs : order' = [order EXCEPT ![run[h].notice.order] = [status |-> "PAID", sub |-> s]]
    BY <1>3, ActivationDoes
  <2>2. today' = today /\ (o # run[h].notice.order => until'[o] = until[o])
    BY <1>3, ActivationDoes
  <2>3. o = run[h].notice.order => order'[o].status = "PAID"
    BY <1>0, <2>1
  <2>4. o # run[h].notice.order => order'[o] = order[o]
    BY <1>0, <2>1
  <2> QED
    BY <1>0, <2>2, <2>3, <2>4
<1>4. ASSUME NEW h \in Handlers, CommitRevocation(h) PROVE order'[o].status \in {"PAID", "CANCELED"}
  <2>1. /\ today' = today /\ until'[o] \in Nat /\ until'[run[h].notice.order] <= today
        /\ o # run[h].notice.order => until'[o] = until[o]
        /\ order' = [order EXCEPT ![run[h].notice.order] =
                                    [status |-> run[h].notice.status, sub |-> order[run[h].notice.order].sub]]
    BY <1>4, RevocationDoes
  <2>2. o # run[h].notice.order
    BY <1>0, <2>1
  <2>3. order'[o] = order[o]
    BY <1>0, <2>1, <2>2
  <2> QED
    BY <1>0, <2>1, <2>2, <2>3
<1>5. ASSUME NEW h \in Handlers, CommitCancellation(h) PROVE order'[o].status \in {"PAID", "CANCELED"}
  <2>1. /\ today' = today /\ until' = until
        /\ order' = [order EXCEPT ![run[h].notice.order] =
                                    [status |-> "CANCELED", sub |-> order[run[h].notice.order].sub]]
    BY <1>5, CancellationDoes
  <2> QED
    BY <1>0, <2>1
<1>6. ASSUME NEW h \in Handlers, CommitFailure(h) PROVE order'[o].status \in {"PAID", "CANCELED"}
  <2>1. /\ today' = today /\ until' = until
        /\ \/ order' = order
           \/ /\ order[run[h].notice.order].status = "PENDING"
              /\ order' = [order EXCEPT ![run[h].notice.order] =
                                          [status |-> "FAILED", sub |-> order[run[h].notice.order].sub]]
    BY <1>6, FailureDoes
  <2>2. o = run[h].notice.order \/ order'[o] = order[o]
    BY <1>0, <2>1
  <2> QED
    BY <1>0, <2>1, <2>2
<1>7. ASSUME NEW h \in Handlers, CommitNothing(h) PROVE Same
  BY <1>7, NothingDoes
<1>8. ASSUME NEW h \in Handlers, Abort(h) \/ GrantEntitlements(h) PROVE Same
  BY <1>8, LeaveDoes
<1>9. ASSUME NEW h \in Handlers, NEW m \in Grants, GrantMembership(h, m) PROVE Same
  BY <1>9 DEF GrantMembership
<1>10. ASSUME NEW h \in Handlers, Begin(h) PROVE Same
  BY <1>10 DEF Begin, rows
<1>11. ASSUME NEW h \in Handlers, NEW n \in Notice, Receive(h, n) PROVE Same
  BY <1>11 DEF Receive, rows
<1>12. ASSUME NEW p \in Orders, CreateCheckout(p) PROVE Same
  BY <1>12 DEF CreateCheckout, rows
<1>13. CASE Tick \/ UNCHANGED vars
  BY <1>1, <1>13 DEF Tick, vars, rows
<1> HIDE DEF Same
<1> QED
  BY <1>1, <1>2, <1>3, <1>4, <1>5, <1>6, <1>7, <1>8, <1>9, <1>10, <1>11, <1>12, <1>13 DEF Next

\* An order stays activated at most once while it stays settled and nobody new is
\* at work on it.
LEMMA OnceKept ==
  ASSUME NEW o \in Orders, Once(o), times'[o] = times[o],
         regular'[o] => regular[o],
         order[o].status \in Settled <=> order'[o].status \in Settled,
         processed \subseteq processed',
         \A h \in Handlers : run'[h] = run[h] \/ ~Busy(h, o)'
  PROVE  Once(o)'
<1> SUFFICES ASSUME regular'[o]
             PROVE  /\ times'[o] <= 1
                    /\ \A g, h \in Handlers : Busy(g, o)' /\ Busy(h, o)' => run'[g].notice = run'[h].notice
                    /\ times'[o] # 0 => order'[o].status \in Settled
                    /\ order'[o].status \in Settled => \A h \in Handlers : Busy(h, o)' => Harmless(h)'
  BY DEF Once
<1>1. /\ times[o] <= 1
      /\ \A g, h \in Handlers : Busy(g, o) /\ Busy(h, o) => run[g].notice = run[h].notice
      /\ times[o] # 0 => order[o].status \in Settled
      /\ order[o].status \in Settled => \A h \in Handlers : Busy(h, o) => Harmless(h)
  BY DEF Once
<1>2. \A h \in Handlers : Busy(h, o)' => Busy(h, o) /\ run'[h] = run[h]
  BY DEF Busy
<1>3. \A h \in Handlers : run'[h] = run[h] /\ Harmless(h) => Harmless(h)'
  BY DEF Harmless
<1> QED
  BY <1>1, <1>2, <1>3

\* A notice of the order is taken up.
LEMMA OnceRead ==
  ASSUME Holds, NEW h \in Handlers, NEW n \in Notice, Receive(h, n), Once(n.order)
  PROVE  Once(n.order)'
<1> DEFINE o == n.order
<1>1. /\ o \in Orders /\ run[h] = Idle /\ Others(h)
      /\ run'[h].at = "read" /\ run'[h].notice = n /\ run'[h].seen = order[o]
      /\ order' = order /\ processed' = processed /\ times' = times
      /\ regular'[o] => regular[o] /\ \A g \in Handlers : Busy(g, o) => g = h \/ run[g].notice = n
  BY ReceiveDoes DEF rows
<1> SUFFICES ASSUME regular'[o]
             PROVE  /\ times'[o] <= 1
                    /\ \A f, g \in Handlers : Busy(f, o)' /\ Busy(g, o)' => run'[f].notice = run'[g].notice
                    /\ times'[o] # 0 => order'[o].status \in Settled
                    /\ order'[o].status \in Settled => \A g \in Handlers : Busy(g, o)' => Harmless(g)'
  BY DEF Once
<1>2. /\ times[o] <= 1
      /\ times[o] # 0 => order[o].status \in Settled
      /\ order[o].status \in Settled => \A g \in Handlers : Busy(g, o) => Harmless(g)
  BY <1>1 DEF Once
<1>3. \A g \in Handlers : Busy(g, o)' => run'[g].notice = n
  BY <1>1 DEF Busy, Others
<1>4. ASSUME order[o].status \in Settled, NEW g \in Handlers, Busy(g, o)' PROVE Harmless(g)'
  <2>1. CASE g = h
    BY <1>1, <1>2, <1>4, <2>1 DEF Harmless
  <2>2. CASE g # h
    BY <1>1, <1>2, <1>4, <2>2 DEF Harmless, Busy, Others
  <2> QED
    BY <2>1, <2>2
<1> QED
  BY <1>1, <1>2, <1>3, <1>4

\* A transaction of the order begins.
LEMMA OnceBegun ==
  ASSUME Holds, NEW h \in Handlers, Begin(h), NEW o, o = run[h].notice.order, Once(o)
  PROVE  Once(o)'
<1> DEFINE n == run[h].notice
<1>1. /\ run[h].at = "read" /\ o \in Orders /\ Others(h)
      /\ \/ run'[h] = Idle
         \/ /\ n \notin processed
            /\ run'[h].at = "tx" /\ run'[h].notice = n
            /\ run'[h].write \in Writes(n, run[h].seen)
      /\ order' = order /\ processed' = processed /\ times' = times /\ regular' = regular
  BY BeginDoes DEF rows
<1>2. CASE run'[h] = Idle
  <2>1. \A g \in Handlers : run'[g] = run[g] \/ ~Busy(g, o)'
    BY <1>1, <1>2 DEF Busy, Idle, Others
  <2> QED
    BY <1>1, <2>1, OnceKept
<1>3. CASE run'[h] # Idle
  <2>1. /\ n \notin processed /\ run'[h].at = "tx" /\ run'[h].notice = n
        /\ run'[h].write \in Writes(n, run[h].seen)
    BY <1>1, <1>3
  <2>2. /\ run'[h].write.do = "activate" => n.status \notin {"FAILED", "CANCELED"} \cup Revoked
        /\ run'[h].write.do = "activate" => run[h].seen.status \notin Settled
    BY <1>1, <2>1, WritesTyped
  <2>3. Harmless(h) => Harmless(h)'
    BY <1>1, <2>1, <2>2 DEF Harmless
  <2>4. \A g \in Handlers : g # h => (Harmless(g) => Harmless(g)')
    BY <1>1 DEF Harmless, Others
  <2>5. \A g \in Handlers : (Busy(g, o)' <=> Busy(g, o)) /\ (Busy(g, o) => run'[g].notice = run[g].notice)
    BY <1>1, <2>1 DEF Busy, Others
  <2>6. \A g \in Handlers : Harmless(g) => Harmless(g)'
    BY <2>3, <2>4
  <2> QED
    BY <1>1, <2>5, <2>6 DEF Once
<1> QED
  BY <1>2, <1>3

\* The order is activated: nobody else is going to.
LEMMA OnceActivated ==
  ASSUME Holds, NEW h \in Handlers, CommitActivation(h), NEW o, o = run[h].notice.order, Once(o)
  PROVE  Once(o)'
<1> DEFINE n == run[h].notice
<1>1. /\ run[h].at = "tx" /\ run[h].write.do = "activate"
      /\ n \in Notices /\ o \in Orders
  <2>1. run[h].at = "tx" /\ run[h].write.do = "activate"
    BY DEF CommitActivation
  <2>2. n \in Notice /\ n.status \notin Revoked /\ o \in Orders
    BY <2>1, TxIs
  <2> QED
    BY <2>1, <2>2, Paying
<1>2. /\ run'[h] = Idle /\ Others(h) /\ n \in processed' /\ regular' = regular
      /\ times'[o] = IF times[o] = 2 THEN 2 ELSE times[o] + 1
  BY <1>1, ActivationDoes DEF Through
<1>3. order'[o].status = "PAID"
  <2>1. PICK s \in Subs : order' = [order EXCEPT ![o] = [status |-> "PAID", sub |-> s]]
    BY ActivationDoes
  <2>2. order \in [Orders -> OrderRow]
    BY DEF Holds, TypeOK, OrderRow
  <2> QED
    BY <1>1, <2>1, <2>2
<1> SUFFICES ASSUME regular'[o]
             PROVE  /\ times'[o] <= 1
                    /\ \A f, g \in Handlers : Busy(f, o)' /\ Busy(g, o)' => run'[f].notice = run'[g].notice
                    /\ times'[o] # 0 => order'[o].status \in Settled
                    /\ order'[o].status \in Settled => \A g \in Handlers : Busy(g, o)' => Harmless(g)'
  BY DEF Once
<1>4. regular[o] /\ Busy(h, o)
  BY <1>1, <1>2 DEF Busy
<1>5. times[o] = 0
  BY <1>1, <1>4 DEF Once, Harmless
<1>6. \A g \in Handlers : Busy(g, o)' => /\ g # h /\ run'[g] = run[g] /\ Busy(g, o)
                                         /\ run[g].at = "read" /\ run[g].notice = n
  <2> SUFFICES ASSUME NEW g \in Handlers, Busy(g, o)'
               PROVE  g # h /\ run'[g] = run[g] /\ Busy(g, o) /\ run[g].at = "read" /\ run[g].notice = n
    OBVIOUS
  <2>1. g # h
    BY <1>2 DEF Busy, Idle
  <2>2. run'[g] = run[g] /\ Busy(g, o)
    BY <1>2, <2>1 DEF Others, Busy
  <2>3. run[g].notice = n
    BY <1>4, <2>2 DEF Once
  <2>4. run[g].at # "tx"
    BY <1>1, <2>1, <2>3 DEF Holds, OneTx
  <2> QED
    BY <2>1, <2>2, <2>3, <2>4 DEF Busy
<1>7. \A g \in Handlers : Busy(g, o)' => Harmless(g)'
  BY <1>2, <1>6 DEF Harmless
<1> QED
  BY <1>2, <1>3, <1>5, <1>6, <1>7 DEF Settled

\* The order is refunded: nobody else is going to activate it.
LEMMA OnceRevoked ==
  ASSUME Holds, NEW h \in Handlers, CommitRevocation(h), NEW o, o = run[h].notice.order, Once(o)
  PROVE  Once(o)'
<1> DEFINE n == run[h].notice
<1>1. /\ run[h].at = "tx" /\ n.status \in Revoked /\ o \in Orders
      /\ run'[h] = Idle /\ Others(h) /\ regular' = regular /\ times' = times
  BY RevocationDoes DEF Through
<1>2. order'[o].status \in Settled
  <2>1. order \in [Orders -> OrderRow] /\ order' = [order EXCEPT ![o] = [status |-> n.status, sub |-> order[o].sub]]
    BY RevocationDoes DEF Holds, TypeOK, OrderRow
  <2> QED
    BY <1>1, <2>1 DEF Settled
<1> SUFFICES ASSUME regular'[o]
             PROVE  /\ times'[o] <= 1
                    /\ \A f, g \in Handlers : Busy(f, o)' /\ Busy(g, o)' => run'[f].notice = run'[g].notice
                    /\ times'[o] # 0 => order'[o].status \in Settled
                    /\ order'[o].status \in Settled => \A g \in Handlers : Busy(g, o)' => Harmless(g)'
  BY DEF Once
<1>3. regular[o] /\ Busy(h, o)
  BY <1>1 DEF Busy
<1>4. \A g \in Handlers : Busy(g, o)' => run'[g] = run[g] /\ run[g].at = "read" /\ run[g].notice = n
  <2> SUFFICES ASSUME NEW g \in Handlers, Busy(g, o)'
               PROVE  run'[g] = run[g] /\ run[g].at = "read" /\ run[g].notice = n
    OBVIOUS
  <2>1. g # h
    BY <1>1 DEF Busy, Idle
  <2>2. run'[g] = run[g] /\ Busy(g, o)
    BY <1>1, <2>1 DEF Others, Busy
  <2>3. run[g].notice = n
    BY <1>3, <2>2 DEF Once
  <2>4. run[g].at # "tx"
    BY <1>1, <2>1, <2>3 DEF Holds, OneTx
  <2> QED
    BY <2>2, <2>3, <2>4 DEF Busy
<1>5. \A g \in Handlers : Busy(g, o)' => Harmless(g)'
  BY <1>1, <1>4 DEF Harmless
<1> QED
  BY <1>1, <1>2, <1>3, <1>4, <1>5 DEF Once

\* A handler at rest, or one of another order, is not at work on the order.
LEMMA NotBusy ==
  ASSUME NEW h \in Handlers, Others(h), NEW o,
         run'[h].at \in {"read", "tx"} => run'[h].notice.order # o
  PROVE  \A g \in Handlers : run'[g] = run[g] \/ ~Busy(g, o)'
BY DEF Others, Busy

\* Every step keeps that an order is activated once.
LEMMA OnceStep ==
  ASSUME Holds, NEW o \in Orders, Once(o), [Next]_vars
  PROVE  Once(o)'
<1>0. order \in [Orders -> OrderRow]
  BY DEF Holds, TypeOK, OrderRow
<1>1. CASE Tick \/ UNCHANGED vars
  BY <1>1, OnceKept DEF Tick, vars, rows, history
<1>2. ASSUME NEW p \in Orders, CreateOrder(p) PROVE Once(o)'
  <2>1. order[o].status \in Settled <=> order'[o].status \in Settled
    BY <1>0, <1>2 DEF CreateOrder, Settled, Revoked
  <2> QED
    BY <1>2, <2>1, OnceKept DEF CreateOrder, history
<1>3. ASSUME NEW p \in Orders, CreateCheckout(p) PROVE Once(o)'
  BY <1>3, OnceKept DEF CreateCheckout, rows, history
<1>4. ASSUME NEW h \in Handlers, NEW n \in Notice, Receive(h, n) PROVE Once(o)'
  <2>1. CASE o = n.order
    BY <1>4, <2>1, OnceRead
  <2>2. CASE o # n.order
    <3>1. /\ Others(h) /\ run'[h].notice = n /\ regular'[o] = regular[o]
          /\ order' = order /\ processed' = processed /\ times' = times
      BY <1>4, <2>2, ReceiveDoes DEF rows
    <3> QED
      BY <2>2, <3>1, NotBusy, OnceKept
  <2> QED
    BY <2>1, <2>2
<1>5. ASSUME NEW h \in Handlers, NEW m \in Grants, GrantMembership(h, m) PROVE Once(o)'
  <2>1. /\ Others(h) /\ run'[h].at = "grant" /\ regular' = regular
        /\ order' = order /\ processed' = processed /\ times' = times
    BY <1>5, MembershipDoes
  <2> QED
    BY <2>1, NotBusy, OnceKept
<1>6. ASSUME NEW h \in Handlers, Begin(h) PROVE Once(o)'
  <2>1. CASE o = run[h].notice.order
    BY <1>6, <2>1, OnceBegun
  <2>2. CASE o # run[h].notice.order
    <3>1. /\ Others(h) /\ (run'[h] = Idle \/ run'[h].notice = run[h].notice)
          /\ regular' = regular /\ order' = order /\ processed' = processed /\ times' = times
      BY <1>6, BeginDoes DEF rows
    <3>2. run'[h].at \in {"read", "tx"} => run'[h].notice.order # o
      BY <2>2, <3>1 DEF Idle
    <3> QED
      BY <3>1, <3>2, NotBusy, OnceKept
  <2> QED
    BY <2>1, <2>2
<1>7. ASSUME NEW h \in Handlers, CommitActivation(h) PROVE Once(o)'
  <2>1. CASE o = run[h].notice.order
    BY <1>7, <2>1, OnceActivated
  <2>2. CASE o # run[h].notice.order
    <3>1. PICK s \in Subs : order' = [order EXCEPT ![run[h].notice.order] = [status |-> "PAID", sub |-> s]]
      BY <1>7, ActivationDoes
    <3>2. order'[o] = order[o]
      BY <1>0, <2>2, <3>1
    <3>3. Through(h) /\ regular' = regular /\ times'[o] = times[o]
      BY <1>7, <2>2, ActivationDoes
    <3> QED
      BY <3>2, <3>3, NotBusy, OnceKept DEF Through, Idle
  <2> QED
    BY <2>1, <2>2
<1>8. ASSUME NEW h \in Handlers, CommitRevocation(h) PROVE Once(o)'
  <2>1. /\ Through(h) /\ regular' = regular /\ times' = times
        /\ run[h].notice.status \in Revoked
        /\ order' = [order EXCEPT ![run[h].notice.order] =
                                    [status |-> run[h].notice.status, sub |-> order[run[h].notice.order].sub]]
    BY <1>8, RevocationDoes
  <2>2. CASE o = run[h].notice.order
    BY <1>8, <2>2, OnceRevoked
  <2>3. CASE o # run[h].notice.order
    <3>1. order'[o] = order[o]
      BY <1>0, <2>1, <2>3
    <3> QED
      BY <2>1, <3>1, NotBusy, OnceKept DEF Through, Idle
  <2> QED
    BY <2>2, <2>3
<1>9. ASSUME NEW h \in Handlers, CommitCancellation(h) PROVE Once(o)'
  <2>1. /\ Through(h) /\ times' = times
        /\ order' = [order EXCEPT ![run[h].notice.order] =
                                    [status |-> "CANCELED", sub |-> order[run[h].notice.order].sub]]
        /\ regular' = [regular EXCEPT ![run[h].notice.order] = FALSE]
    BY <1>9, CancellationDoes
  <2>2. regular \in [Orders -> BOOLEAN]
    BY DEF Holds, TypeOK
  <2>3. CASE o = run[h].notice.order
    BY <2>1, <2>2, <2>3 DEF Once
  <2>4. CASE o # run[h].notice.order
    <3>1. order'[o] = order[o] /\ regular'[o] = regular[o]
      BY <1>0, <2>1, <2>2, <2>4
    <3> QED
      BY <2>1, <3>1, NotBusy, OnceKept DEF Through, Idle
  <2> QED
    BY <2>3, <2>4
<1>10. ASSUME NEW h \in Handlers, CommitFailure(h) PROVE Once(o)'
  <2>1. /\ Through(h) /\ regular' = regular /\ times' = times
        /\ \/ order' = order
           \/ /\ order[run[h].notice.order].status = "PENDING"
              /\ order' = [order EXCEPT ![run[h].notice.order] =
                                          [status |-> "FAILED", sub |-> order[run[h].notice.order].sub]]
    BY <1>10, FailureDoes
  <2>2. order[o].status \in Settled <=> order'[o].status \in Settled
    BY <1>0, <2>1 DEF Settled, Revoked
  <2> QED
    BY <2>1, <2>2, NotBusy, OnceKept DEF Through, Idle
<1>11. ASSUME NEW h \in Handlers, CommitNothing(h) PROVE Once(o)'
  <2>1. Through(h) /\ UNCHANGED <<order, times, regular>>
    BY <1>11, NothingDoes
  <2> QED
    BY <2>1, NotBusy, OnceKept DEF Through, Idle
<1>12. ASSUME NEW h \in Handlers, Abort(h) \/ GrantEntitlements(h) PROVE Once(o)'
  <2>1. run'[h] = Idle /\ Others(h) /\ UNCHANGED <<order, times, regular, processed>>
    BY <1>12, LeaveDoes
  <2> QED
    BY <2>1, NotBusy, OnceKept DEF Idle
<1> QED
  BY <1>1, <1>2, <1>3, <1>4, <1>5, <1>6, <1>7, <1>8, <1>9, <1>10, <1>11, <1>12 DEF Next

(***************************************************************************)
(* What is kept: subscriptions.                                            *)
(***************************************************************************)
\* A revocation leaves every order on its subscription.
LEMMA RevocationOrders ==
  ASSUME Holds, NEW h \in Handlers, CommitRevocation(h)
  PROVE  /\ order'[run[h].notice.order].status \in Revoked
         /\ \A o \in Orders : /\ order'[o].sub = order[o].sub
                              /\ order'[o].status = "NONE" => order[o].status = "NONE"
<1>1. order \in [Orders -> OrderRow]
  BY DEF Holds, TypeOK, OrderRow
<1>2. /\ run[h].notice.order \in Orders /\ run[h].notice.status \in Revoked
      /\ order' = [order EXCEPT ![run[h].notice.order] =
                                  [status |-> run[h].notice.status, sub |-> order[run[h].notice.order].sub]]
  BY RevocationDoes
<1>3. "NONE" \notin Revoked
  BY DEF Revoked
<1> QED
  BY <1>1, <1>2, <1>3

\* Subscriptions change by an activation or a revocation, and only an activation moves
\* an order to another one.
LEMMA RowsChange ==
  ASSUME Holds, Known, [Next]_vars
  PROVE  \/ \E h \in Handlers : CommitActivation(h) \/ CommitRevocation(h)
         \/ /\ subs' = subs /\ (today' = today \/ Tick)
            /\ \A o \in Orders : /\ order'[o].sub = order[o].sub
                                 /\ order'[o].status = "NONE" => order[o].status = "NONE"
                                 /\ order'[o].status \in Revoked => order[o].status \in Revoked
<1> DEFINE Same == /\ subs' = subs /\ (today' = today \/ Tick)
                   /\ \A o \in Orders : /\ order'[o].sub = order[o].sub
                                        /\ order'[o].status = "NONE" => order[o].status = "NONE"
                                        /\ order'[o].status \in Revoked => order[o].status \in Revoked
<1>0. order \in [Orders -> OrderRow]
  BY DEF Holds, TypeOK, OrderRow
<1>1. CASE subs' = subs /\ order' = order /\ (today' = today \/ Tick)
  BY <1>1
<1>2. ASSUME NEW p \in Orders, CreateOrder(p) PROVE Same
  <2>1. /\ order[p].sub = None /\ subs' = subs /\ today' = today
        /\ order' = [order EXCEPT ![p] = [status |-> "PENDING", sub |-> None]]
    BY <1>2 DEF CreateOrder, Known
  <2> QED
    BY <1>0, <2>1 DEF Revoked
<1>3. ASSUME NEW h \in Handlers, CommitCancellation(h) PROVE Same
  <2>1. /\ subs' = subs /\ today' = today
        /\ order' = [order EXCEPT ![run[h].notice.order] =
                                    [status |-> "CANCELED", sub |-> order[run[h].notice.order].sub]]
    BY <1>3, CancellationDoes
  <2> QED
    BY <1>0, <2>1 DEF Revoked
<1>4. ASSUME NEW h \in Handlers, CommitFailure(h) PROVE Same
  <2>1. /\ subs' = subs /\ today' = today
        /\ \/ order' = order
           \/ order' = [order EXCEPT ![run[h].notice.order] =
                                       [status |-> "FAILED", sub |-> order[run[h].notice.order].sub]]
    BY <1>4, FailureDoes
  <2> QED
    BY <1>0, <2>1 DEF Revoked
<1>5. ASSUME NEW h \in Handlers, CommitNothing(h) PROVE Same
  BY <1>5, NothingDoes
<1>6. ASSUME NEW h \in Handlers, Abort(h) \/ GrantEntitlements(h) PROVE Same
  BY <1>6, LeaveDoes
<1>7. ASSUME NEW h \in Handlers, NEW m \in Grants, GrantMembership(h, m) PROVE Same
  BY <1>7 DEF GrantMembership
<1>8. ASSUME NEW h \in Handlers, Begin(h) PROVE Same
  BY <1>8 DEF Begin, rows
<1>9. ASSUME NEW h \in Handlers, NEW n \in Notice, Receive(h, n) PROVE Same
  BY <1>9 DEF Receive, rows
<1>10. ASSUME NEW p \in Orders, CreateCheckout(p) PROVE Same
  BY <1>10 DEF CreateCheckout, rows
<1>11. CASE Tick \/ UNCHANGED vars
  BY <1>1, <1>11 DEF Tick, vars, rows
<1> HIDE DEF Same
<1>12. (\E h \in Handlers : CommitActivation(h) \/ CommitRevocation(h)) \/ Same
  BY <1>2, <1>3, <1>4, <1>5, <1>6, <1>7, <1>8, <1>9, <1>10, <1>11 DEF Next, Same
<1> QED
  BY <1>12 DEF Same

\* Every step keeps that what does not run has ended.
LEMMA EndedStep == Holds /\ Ended /\ Known /\ [Next]_vars => Ended'
<1> SUFFICES ASSUME Holds, Ended, Known, [Next]_vars, NEW s \in Subs, subs'[s].status # "ACTIVE"
             PROVE  subs'[s].end <= today'
  BY DEF Ended
<1>0. /\ today \in Nat /\ subs \in [Subs -> SubRow]
      /\ subs[s].status # "ACTIVE" => subs[s].end <= today
      /\ subs[s].end \in Nat
  BY Bounds DEF Holds, TypeOK, SubRow, Ended
<1>1. CASE subs' = subs /\ (today' = today \/ Tick)
  <2>1. today' = today \/ today' = today + 1
    BY <1>1 DEF Tick
  <2> QED
    BY <1>0, <1>1, <2>1
<1>2. ASSUME NEW h \in Handlers, CommitActivation(h) PROVE subs'[s].end <= today'
  <2>1. PICK t \in Subs : subs' = [subs EXCEPT ![t] = [status |-> "ACTIVE", end |-> run[h].write.end]]
    BY <1>2, ActivationDoes
  <2>2. today' = today
    BY <1>2, ActivationDoes
  <2> QED
    BY <1>0, <2>1, <2>2
<1>3. ASSUME NEW h \in Handlers, CommitRevocation(h) PROVE subs'[s].end <= today'
  <2> DEFINE w == run[h].write
  <2>1. /\ today' = today
        /\ subs' = IF w.sub = None THEN subs
                   ELSE [subs EXCEPT ![w.sub] = [status |-> "CANCELED", end |-> today]]
    BY <1>3, RevocationDoes
  <2> HIDE DEF w
  <2> QED
    BY <1>0, <2>1
<1> QED
  BY <1>1, <1>2, <1>3, RowsChange

\* The same, after a step.
TakenAfter(s) == s = None \/ subs'[s].status # "NONE"

\* Subscriptions that were opened stay opened.
LEMMA TakenStays ==
  ASSUME Holds, Known, [Next]_vars, NEW s \in Subs \cup {None}, Taken(s)
  PROVE  TakenAfter(s)
<1>0. subs \in [Subs -> SubRow]
  BY DEF Holds, TypeOK, SubRow
<1>1. ASSUME NEW h \in Handlers, CommitActivation(h) PROVE TakenAfter(s)
  <2>1. PICK t \in Subs : subs' = [subs EXCEPT ![t] = [status |-> "ACTIVE", end |-> run[h].write.end]]
    BY <1>1, ActivationDoes
  <2> QED
    BY <1>0, <2>1 DEF Taken, TakenAfter
<1>2. ASSUME NEW h \in Handlers, CommitRevocation(h) PROVE TakenAfter(s)
  <2> DEFINE w == run[h].write
  <2>1. subs' = IF w.sub = None THEN subs
                ELSE [subs EXCEPT ![w.sub] = [status |-> "CANCELED", end |-> today]]
    BY <1>2, RevocationDoes
  <2> HIDE DEF w
  <2> QED
    BY <1>0, <2>1 DEF Taken, TakenAfter
<1> QED
  BY <1>1, <1>2, RowsChange DEF Taken, TakenAfter

\* What a transaction is going to write is on a subscription that was opened.
LEMMA BegunIsTaken ==
  ASSUME Holds, Known, NEW h \in Handlers, run[h].at = "read",
         NEW w \in Writes(run[h].notice, run[h].seen), w.do \in {"activate", "revoke"}
  PROVE  Taken(w.sub)
<1>1. CASE w.do = "revoke"
  BY <1>1, WritesTyped DEF Known
<1>2. CASE w.do = "activate"
  <2>1. w \in Extended(run[h].notice.order)
    BY <1>2, WritesTyped
  <2> QED
    BY <2>1 DEF Extended, Latest, Current, Taken
<1> QED
  BY <1>1, <1>2

\* Every step keeps that subscriptions somebody names have been opened.
LEMMA KnownStep == Holds /\ Known /\ [Next]_vars => Known'
<1> SUFFICES ASSUME Holds, Known, [Next]_vars PROVE Known'
  OBVIOUS
<1>0. order \in [Orders -> OrderRow] /\ subs \in [Subs -> SubRow]
  BY DEF Holds, TypeOK, OrderRow, SubRow
<1>1. \A o \in Orders : TakenAfter(order'[o].sub) /\ (order'[o].status = "NONE" => order'[o].sub = None)
  <2> SUFFICES ASSUME NEW o \in Orders
               PROVE  TakenAfter(order'[o].sub) /\ (order'[o].status = "NONE" => order'[o].sub = None)
    OBVIOUS
  <2>1. /\ order[o].sub \in Subs \cup {None} /\ Taken(order[o].sub)
        /\ order[o].status = "NONE" => order[o].sub = None
    BY <1>0 DEF Known, OrderRow
  <2>2. CASE order'[o].sub = order[o].sub /\ (order'[o].status = "NONE" => order[o].status = "NONE")
    BY <2>1, <2>2, TakenStays DEF Taken, TakenAfter
  <2>3. ASSUME NEW h \in Handlers, CommitActivation(h)
        PROVE  TakenAfter(order'[o].sub) /\ (order'[o].status = "NONE" => order'[o].sub = None)
    <3>1. PICK s \in Subs :
            /\ subs' = [subs EXCEPT ![s] = [status |-> "ACTIVE", end |-> run[h].write.end]]
            /\ order' = [order EXCEPT ![run[h].notice.order] = [status |-> "PAID", sub |-> s]]
      BY <2>3, ActivationDoes
    <3>2. CASE o = run[h].notice.order
      BY <1>0, <3>1, <3>2 DEF Taken, TakenAfter
    <3>3. CASE o # run[h].notice.order
      <4>1. order'[o] = order[o]
        BY <1>0, <3>1, <3>3
      <4> QED
        BY <2>2, <4>1
    <3> QED
      BY <3>2, <3>3
  <2>4. ASSUME NEW h \in Handlers, CommitRevocation(h)
        PROVE  TakenAfter(order'[o].sub) /\ (order'[o].status = "NONE" => order'[o].sub = None)
    BY <2>2, <2>4, RevocationOrders
  <2> QED
    BY <2>2, <2>3, <2>4, RowsChange
<1>2. \A h \in Handlers : /\ run'[h].at = "read" => TakenAfter(run'[h].seen.sub)
                          /\ run'[h].at = "tx" /\ run'[h].write.do \in {"activate", "revoke"}
                               => TakenAfter(run'[h].write.sub)
  <2> SUFFICES ASSUME NEW h \in Handlers
               PROVE  /\ run'[h].at = "read" => TakenAfter(run'[h].seen.sub)
                      /\ run'[h].at = "tx" /\ run'[h].write.do \in {"activate", "revoke"}
                           => TakenAfter(run'[h].write.sub)
    OBVIOUS
  <2>1. CASE run'[h] = run[h]
    <3>1. run[h].at = "read" => run[h].seen.sub \in Subs \cup {None} /\ Taken(run[h].seen.sub)
      BY RunIs DEF Holds, TypeOK, Known, OrderRow
    <3>2. run[h].at = "tx" /\ run[h].write.do \in {"activate", "revoke"}
            => run[h].write.sub \in Subs \cup {None} /\ Taken(run[h].write.sub)
      BY TxIs, WriteIs DEF Known
    <3> QED
      BY <2>1, <3>1, <3>2, TakenStays DEF Taken, TakenAfter
  <2>2. ASSUME NEW n \in Notice, Receive(h, n)
        PROVE  run'[h].at = "read" /\ TakenAfter(run'[h].seen.sub)
    <3>1. run'[h].at = "read" /\ run'[h].seen = order[n.order] /\ n.order \in Orders /\ subs' = subs
      BY <2>2, ReceiveDoes DEF rows
    <3> QED
      BY <3>1 DEF Known, Taken, TakenAfter
  <2>3. ASSUME Begin(h), run'[h].at = "tx", run'[h].write.do \in {"activate", "revoke"}
        PROVE  TakenAfter(run'[h].write.sub)
    <3>1. run[h].at = "read" /\ run'[h].write \in Writes(run[h].notice, run[h].seen) /\ subs' = subs
      BY <2>3, BeginDoes DEF rows, Idle
    <3>2. Taken(run'[h].write.sub)
      BY <2>3, <3>1, BegunIsTaken
    <3> QED
      BY <3>1, <3>2 DEF Taken, TakenAfter
  <2>4. \/ run'[h] = run[h] \/ run'[h].at \in {"idle", "grant"}
        \/ \E n \in Notice : Receive(h, n)
        \/ Begin(h) /\ run'[h].at = "tx"
    BY RunsChange DEF Others
  <2> QED
    BY <2>1, <2>2, <2>3, <2>4
<1> QED
  BY <1>1, <1>2 DEF Known, Taken, TakenAfter

(***************************************************************************)
(* What is kept: what transactions have read, while they do not overlap.   *)
(***************************************************************************)
\* Once transactions overlapped, it is remembered.
LEMMA CalmBefore ==
  ASSUME Holds, [Next]_vars, calm'
  PROVE  calm
<1>1. ASSUME NEW h \in Handlers, NEW n \in Notice, Receive(h, n) PROVE calm' = calm
  BY <1>1 DEF Receive
<1>2. ASSUME NEW h \in Handlers,
             \/ CommitActivation(h) \/ CommitRevocation(h) \/ CommitCancellation(h)
             \/ CommitFailure(h) \/ CommitNothing(h)
      PROVE  calm' = calm
  BY <1>2, ActivationDoes, RevocationDoes, CancellationDoes, FailureDoes, NothingDoes
<1>3. ASSUME NEW h \in Handlers, Abort(h) \/ GrantEntitlements(h) PROVE calm' = calm
  BY <1>3, LeaveDoes
<1>4. ASSUME NEW h \in Handlers, NEW m \in Grants, GrantMembership(h, m) PROVE calm
  BY <1>4, MembershipDoes
<1>5. ASSUME NEW h \in Handlers, Begin(h) PROVE calm
  BY <1>5, BeginDoes
<1>6. ASSUME NEW o \in Orders, CreateOrder(o) \/ CreateCheckout(o) PROVE calm' = calm
  BY <1>6 DEF CreateOrder, CreateCheckout, history
<1>7. CASE Tick \/ UNCHANGED vars
  BY <1>7 DEF Tick, vars, history
<1> QED
  BY <1>1, <1>2, <1>3, <1>4, <1>5, <1>6, <1>7 DEF Next

\* While they do not overlap, a transaction begins alone.
LEMMA ExclusiveStep ==
  ASSUME Holds, Exclusive, [Next]_vars, calm'
  PROVE  Exclusive'
<1>1. CASE run' = run
  BY <1>1 DEF Exclusive, InTx
<1>2. CASE run' # run
  <2>1. PICK h \in Handlers :
          /\ Others(h)
          /\ \/ run'[h].at = "idle"
             \/ \E m \in Grants : GrantMembership(h, m) /\ run'[h].at = "grant"
             \/ \E n \in Notice : Receive(h, n)
             \/ Begin(h) /\ run'[h].at = "tx"
    BY <1>2, RunsChange
  <2>2. CASE run'[h].at \in {"idle", "read"}
    BY <2>1, <2>2 DEF Exclusive, InTx, Others
  <2>3. CASE \A g \in Handlers : g # h => ~InTx(g)
    BY <2>1, <2>3 DEF Exclusive, InTx, Others
  <2> QED
    BY <2>1, <2>2, <2>3, ReceiveDoes, BeginDoes, MembershipDoes
<1> QED
  BY <1>1, <1>2

\* No subscription runs that did not, unless it is activated.
LEMMA CurrentShrinks ==
  ASSUME Holds, Known, [Next]_vars, ~\E h \in Handlers : CommitActivation(h)
  PROVE  Current' \subseteq Current
<1>0. today \in Nat /\ subs \in [Subs -> SubRow]
  BY Bounds DEF Holds, TypeOK, SubRow
<1>1. CASE subs' = subs /\ (today' = today \/ Tick)
  <2>1. today' = today \/ today' = today + 1
    BY <1>1 DEF Tick
  <2>2. \A s \in Subs : subs[s].end > today' => subs[s].end > today
    BY <1>0, <2>1 DEF SubRow
  <2> QED
    BY <1>1, <2>2 DEF Current
<1>2. ASSUME NEW h \in Handlers, CommitRevocation(h) PROVE Current' \subseteq Current
  <2> DEFINE w == run[h].write
  <2>1. /\ today' = today
        /\ subs' = IF w.sub = None THEN subs
                   ELSE [subs EXCEPT ![w.sub] = [status |-> "CANCELED", end |-> today]]
    BY <1>2, RevocationDoes
  <2> HIDE DEF w
  <2>2. \A s \in Subs : subs'[s].status = "ACTIVE" => subs'[s] = subs[s]
    BY <1>0, <2>1
  <2> QED
    BY <2>1, <2>2 DEF Current
<1> QED
  BY <1>1, <1>2, RowsChange

\* Of the subscriptions only the one that is activated runs afterwards, and nobody has
\* read it but of the order it is booked on.
LEMMA ActivationCurrent ==
  ASSUME Holds, Known, Exclusive, OneRuns, \A g \in Handlers : SeenStill(g) /\ WriteStill(g),
         NEW h \in Handlers, CommitActivation(h)
  PROVE  /\ OneRuns'
         /\ \A g \in Handlers : run'[g].at = "read" /\ run'[g].seen.sub \in Current'
              => order'[run'[g].notice.order].sub = run'[g].seen.sub
<1> DEFINE w == run[h].write
           o == run[h].notice.order
<1>0. order \in [Orders -> OrderRow] /\ subs \in [Subs -> SubRow]
  BY DEF Holds, TypeOK, OrderRow, SubRow
<1>1. PICK s \in Subs :
        /\ IF w.sub = None THEN subs[s].status = "NONE" ELSE s = w.sub
        /\ subs' = [subs EXCEPT ![s] = [status |-> "ACTIVE", end |-> w.end]]
        /\ order' = [order EXCEPT ![o] = [status |-> "PAID", sub |-> s]]
  BY ActivationDoes
<1>2. /\ run[h].at = "tx" /\ w.do = "activate" /\ o \in Orders /\ today' = today
      /\ run'[h] = Idle /\ Others(h)
  BY ActivationDoes DEF Through
<1>3. Current \subseteq {s}
  <2>1. CASE w.sub = None
    BY <1>2, <2>1 DEF WriteStill
  <2>2. CASE w.sub # None
    BY <1>1, <1>2, <2>2 DEF WriteStill, OneRuns
  <2> QED
    BY <2>1, <2>2
<1>4. Current' \subseteq {s}
  <2>1. \A t \in Subs : t # s => subs'[t] = subs[t]
    BY <1>0, <1>1
  <2> QED
    BY <1>2, <1>3, <2>1 DEF Current
<1>5. OneRuns'
  BY <1>4 DEF OneRuns
<1>6. ASSUME NEW g \in Handlers, run'[g].at = "read", run'[g].seen.sub \in Current'
      PROVE  order'[run'[g].notice.order].sub = run'[g].seen.sub
  <2>1. g # h /\ run'[g] = run[g] /\ run[g].at = "read" /\ run[g].seen.sub = s
    BY <1>2, <1>4, <1>6 DEF Idle, Others
  <2>2. run[g].notice.order \in Orders
    BY <2>1 DEF Holds, Terms
  <2>3. CASE run[g].notice.order = o
    BY <1>0, <1>1, <2>1, <2>2, <2>3
  <2>4. CASE run[g].notice.order # o
    <3>1. order'[run[g].notice.order] = order[run[g].notice.order]
      BY <1>0, <1>1, <2>2, <2>4
    <3>2. w.sub # None
      BY <1>1, <2>1, SubsAreNat DEF Known, Taken
    <3>3. s \in Current
      BY <1>1, <1>2, <3>2 DEF WriteStill
    <3> QED
      BY <2>1, <3>1, <3>3 DEF SeenStill
  <2> QED
    BY <2>3, <2>4
<1> QED
  BY <1>5, <1>6

\* What a transaction has read is so when it begins.
LEMMA BegunIsStill ==
  ASSUME Holds, NEW h \in Handlers, SeenStill(h), Begin(h), run'[h].at = "tx"
  PROVE  WriteStill(h)'
<1> DEFINE n == run[h].notice
           w == run'[h].write
<1>1. /\ run[h].at = "read" /\ run'[h].notice = n /\ w \in Writes(n, run[h].seen)
      /\ UNCHANGED <<today, rows>>
  BY BeginDoes DEF Idle
<1>2. UNCHANGED <<today, order, subs, membership>> /\ Current' = Current
  BY <1>1 DEF rows, Current
<1>3. ASSUME w.do = "revoke"
      PROVE  /\ w.sub \in Current => order[n.order].sub = w.sub
             /\ membership.status = "MANUAL" /\ membership.end > today => w.shown = membership
             /\ w.shown.plan = "PRO" /\ w.shown.status = "ACTIVE" /\ w.shown.end > today
                  => \E s \in Current : s # w.sub /\ subs[s].end = w.shown.end
  <2>1. w.sub = run[h].seen.sub /\ w.shown \in Projections(run[h].seen.sub)
    BY <1>1, <1>3, WritesTyped
  <2>2. ASSUME w.shown.plan = "PRO", w.shown.status = "ACTIVE", w.shown.end > today
        PROVE  \E s \in Current : s # w.sub /\ subs[s].end = w.shown.end
    <3>1. w.shown # membership \/ membership.status # "MANUAL"
      BY <2>2
    <3>2. w.shown # Free
      BY <2>2 DEF Free
    <3>3. w.shown \in Shown(Current \ {w.sub})
      BY <2>1, <3>1, <3>2 DEF Projections
    <3> QED
      BY <3>3 DEF Shown, Latest
  <2> QED
    BY <1>1, <2>1, <2>2 DEF SeenStill, Projections
<1>4. ASSUME w.do = "activate"
      PROVE  /\ w.end >= today
             /\ w.sub = None => Current = {}
             /\ w.sub # None => w.sub \in Current /\ w.end >= subs[w.sub].end
  <2>1. w \in Extended(n.order) /\ n.order \in Orders
    BY <1>1, <1>4, WritesTyped, BeginDoes
  <2>2. Days[n.order] \in Nat /\ today \in Nat /\ subs \in [Subs -> SubRow]
    BY <2>1, Bounds DEF Holds, TypeOK, SubRow
  <2>3. CASE Current = {}
    <3>1. w = [do |-> "activate", sub |-> None, end |-> today + Days[n.order]]
      BY <2>1, <2>3 DEF Extended
    <3> QED
      BY <2>2, <2>3, <3>1
  <2>4. CASE Current # {}
    <3>1. PICK s \in Latest(Current) : w = [do |-> "activate", sub |-> s, end |-> subs[s].end + Days[n.order]]
      BY <2>1, <2>4 DEF Extended
    <3>2. s \in Current /\ s \in Subs /\ subs[s].end \in Nat /\ subs[s].end > today
      BY <2>2 DEF Latest, Current, SubRow
    <3>3. s # None
      BY <3>2, SubsAreNat
    <3>4. w.sub = s /\ w.end = subs[s].end + Days[n.order]
      BY <3>1
    <3> QED
      BY <2>2, <3>2, <3>3, <3>4
  <2> QED
    BY <2>3, <2>4
<1> QED
  BY <1>1, <1>2, <1>3, <1>4 DEF WriteStill

\* While a transaction goes on alone, nothing of what it has read changes.
LEMMA Undisturbed ==
  ASSUME Holds, Known, Exclusive, [Next]_vars, calm',
         NEW g \in Handlers, run[g].at = "tx", run'[g] = run[g]
  PROVE  UNCHANGED <<today, subs, membership>> /\ \A o \in Orders : order'[o].sub = order[o].sub
<1> DEFINE Same == UNCHANGED <<today, subs, membership>> /\ \A o \in Orders : order'[o].sub = order[o].sub
<1>0. InTx(g) /\ \A h \in Handlers : InTx(h) => h = g
  BY DEF InTx, Exclusive
<1>1. CASE UNCHANGED <<today, subs, membership, order>>
  BY <1>1
<1>2. ASSUME NEW p \in Orders, CreateOrder(p) PROVE Same
  <2>1. /\ order[p].sub = None /\ UNCHANGED <<today, subs, membership>>
        /\ order' = [order EXCEPT ![p] = [status |-> "PENDING", sub |-> None]]
    BY <1>2 DEF CreateOrder, Known
  <2> QED
    BY <2>1 DEF Holds, TypeOK
<1>3. ASSUME NEW h \in Handlers,
             \/ CommitActivation(h) \/ CommitRevocation(h) \/ CommitCancellation(h)
             \/ CommitFailure(h) \/ CommitNothing(h)
      PROVE  FALSE
  <2>1. Through(h)
    BY <1>3, ActivationDoes, RevocationDoes, CancellationDoes, FailureDoes, NothingDoes
  <2> QED
    BY <1>0, <2>1 DEF Through, InTx, Idle
<1>4. ASSUME NEW h \in Handlers, Abort(h) \/ GrantEntitlements(h) PROVE Same
  BY <1>4, LeaveDoes
<1>5. ASSUME NEW h \in Handlers, NEW m \in Grants, GrantMembership(h, m) PROVE FALSE
  BY <1>0, <1>5, MembershipDoes DEF InTx, Idle
<1>6. ASSUME NEW h \in Handlers, Begin(h) PROVE Same
  BY <1>6 DEF Begin, rows
<1>7. ASSUME NEW h \in Handlers, NEW n \in Notice, Receive(h, n) PROVE Same
  BY <1>7 DEF Receive, rows
<1>8. ASSUME NEW p \in Orders, CreateCheckout(p) PROVE Same
  BY <1>8 DEF CreateCheckout, rows
<1>9. CASE Tick
  BY <1>0, <1>9 DEF Tick
<1>10. CASE UNCHANGED vars
  BY <1>1, <1>10 DEF vars, rows
<1> HIDE DEF Same
<1>11. Same
  BY <1>2, <1>3, <1>4, <1>5, <1>6, <1>7, <1>8, <1>9, <1>10 DEF Next, Same
<1> QED
  BY <1>11 DEF Same

\* Every step keeps what transactions have read, while they do not overlap.
LEMMA SnapshotsStep == Holds /\ Known /\ Snapshots /\ [Next]_vars => Snapshots'
<1> SUFFICES ASSUME Holds, Known, Snapshots, [Next]_vars, calm'
             PROVE  Exclusive' /\ OneRuns' /\ \A g \in Handlers : SeenStill(g)' /\ WriteStill(g)'
  BY DEF Snapshots
<1>1. Exclusive /\ OneRuns /\ \A g \in Handlers : SeenStill(g) /\ WriteStill(g)
  BY CalmBefore DEF Snapshots
<1>2. Exclusive'
  BY <1>1, ExclusiveStep
<1>3. ASSUME NEW h \in Handlers, CommitActivation(h)
      PROVE  OneRuns' /\ \A g \in Handlers : SeenStill(g)'
  BY <1>1, <1>3, ActivationCurrent DEF SeenStill
<1>4. ASSUME ~\E h \in Handlers : CommitActivation(h)
      PROVE  OneRuns' /\ \A g \in Handlers : SeenStill(g)'
  <2>1. Current' \subseteq Current
    BY <1>4, CurrentShrinks
  <2>2. \A o \in Orders : order'[o].sub = order[o].sub
    BY <1>4, RowsChange, RevocationOrders
  <2>3. ASSUME NEW g \in Handlers PROVE SeenStill(g)'
    <3>1. CASE run'[g] = run[g]
      <4>1. run[g].at = "read" => run[g].notice.order \in Orders
        BY DEF Holds, Terms
      <4> QED
        BY <1>1, <2>1, <2>2, <3>1, <4>1 DEF SeenStill
    <3>2. ASSUME NEW n \in Notice, Receive(g, n) PROVE SeenStill(g)'
      <4>1. run'[g].seen = order[n.order] /\ run'[g].notice = n /\ order' = order
        BY <3>2, ReceiveDoes DEF rows
      <4> QED
        BY <4>1 DEF SeenStill
    <3>3. CASE run'[g].at # "read"
      BY <3>3 DEF SeenStill
    <3> QED
      BY <3>1, <3>2, <3>3, RunsChange DEF Others
  <2> QED
    BY <1>1, <2>1, <2>3 DEF OneRuns
<1>5. ASSUME NEW g \in Handlers PROVE WriteStill(g)'
  <2>1. CASE run'[g].at # "tx"
    BY <2>1 DEF WriteStill
  <2>2. CASE run'[g].at = "tx" /\ run'[g] = run[g]
    <3>1. /\ UNCHANGED <<today, subs, membership>> /\ \A o \in Orders : order'[o].sub = order[o].sub
          /\ run[g].notice.order \in Orders
      BY <1>1, <2>2, Undisturbed, TxIs
    <3>2. Current' = Current
      BY <3>1 DEF Current
    <3> QED
      BY <1>1, <2>2, <3>1, <3>2 DEF WriteStill
  <2>3. CASE Begin(g) /\ run'[g].at = "tx"
    BY <1>1, <2>3, BegunIsStill
  <2>4. run'[g].at # "tx" \/ run'[g] = run[g] \/ Begin(g)
    BY RunsChange, ReceiveDoes DEF Others
  <2> QED
    BY <2>1, <2>2, <2>3, <2>4
<1> QED
  BY <1>2, <1>3, <1>4, <1>5

(***************************************************************************)
(* What is kept: the order, its period and the membership that is shown.   *)
(***************************************************************************)
\* Once notices of an order overlapped, it is remembered.
LEMMA RegularBefore ==
  ASSUME Holds, [Next]_vars, NEW o \in Orders, regular'[o]
  PROVE  regular[o]
<1>1. ASSUME NEW h \in Handlers, NEW n \in Notice, Receive(h, n) PROVE regular[o]
  BY <1>1, ReceiveDoes
<1>2. ASSUME NEW h \in Handlers, CommitCancellation(h) PROVE regular[o]
  BY <1>2, CancellationDoes DEF Holds, TypeOK
<1>3. ASSUME NEW h \in Handlers,
             CommitActivation(h) \/ CommitRevocation(h) \/ CommitFailure(h) \/ CommitNothing(h)
      PROVE  regular' = regular
  BY <1>3, ActivationDoes, RevocationDoes, FailureDoes, NothingDoes
<1>4. ASSUME NEW h \in Handlers, Abort(h) \/ GrantEntitlements(h) PROVE regular' = regular
  BY <1>4, LeaveDoes
<1>5. ASSUME NEW h \in Handlers, NEW m \in Grants, GrantMembership(h, m) PROVE regular' = regular
  BY <1>5, MembershipDoes
<1>6. ASSUME NEW h \in Handlers, Begin(h) PROVE regular' = regular
  BY <1>6, BeginDoes
<1>7. ASSUME NEW p \in Orders, CreateOrder(p) \/ CreateCheckout(p) PROVE regular' = regular
  BY <1>7 DEF CreateOrder, CreateCheckout, history
<1>8. CASE Tick \/ UNCHANGED vars
  BY <1>8 DEF Tick, vars, history
<1> QED
  BY <1>1, <1>2, <1>3, <1>4, <1>5, <1>6, <1>7, <1>8 DEF Next

\* Every step keeps that a refund is of the subscription that the order has.
LEMMA SteadyStep ==
  ASSUME Holds, Known, NEW o \in Orders, Once(o), Steady(o), [Next]_vars
  PROVE  Steady(o)'
<1> SUFFICES ASSUME regular'[o], NEW g \in Handlers, Busy(g, o)', run'[g].notice.status \in Revoked
             PROVE  /\ run'[g].at = "read" => run'[g].seen.sub = order'[o].sub
                    /\ run'[g].at = "tx" /\ run'[g].write.do = "revoke" => run'[g].write.sub = order'[o].sub
  BY DEF Steady
<1>0. /\ regular[o] /\ order \in [Orders -> OrderRow]
      /\ Busy(g, o) /\ run[g].notice.status \in Revoked =>
           /\ run[g].at = "read" => run[g].seen.sub = order[o].sub
           /\ run[g].at = "tx" /\ run[g].write.do = "revoke" => run[g].write.sub = order[o].sub
  BY RegularBefore DEF Steady, Holds, TypeOK, OrderRow
<1>1. CASE run'[g] = run[g]
  <2>1. Busy(g, o) /\ run[g].notice.status \in Revoked
    BY <1>1 DEF Busy
  <2>2. order'[o].sub = order[o].sub
    <3>1. ASSUME NEW h \in Handlers, CommitActivation(h) PROVE order'[o] = order[o]
      <4>1. run[h].at = "tx" /\ run[h].notice.status \notin Revoked
        BY <3>1, TxIs, ActivationDoes DEF Through
      <4>2. run[h].notice.order # o
        BY <1>0, <2>1, <4>1 DEF Once, Busy
      <4> QED
        BY <1>0, <3>1, <4>2, ActivationDoes
    <3> QED
      BY <3>1, RowsChange, RevocationOrders
  <2> QED
    BY <1>0, <1>1, <2>1, <2>2
<1>2. ASSUME NEW n \in Notice, Receive(g, n)
      PROVE  run'[g].at = "read" /\ run'[g].seen.sub = order'[o].sub
  <2>1. run'[g].at = "read" /\ run'[g].notice = n /\ run'[g].seen = order[n.order] /\ order' = order
    BY <1>2, ReceiveDoes DEF rows
  <2> QED
    BY <2>1 DEF Busy
<1>3. ASSUME Begin(g), run'[g].at = "tx", run'[g].write.do = "revoke"
      PROVE  run'[g].write.sub = order'[o].sub
  <2>1. /\ run[g].at = "read" /\ run'[g].notice = run[g].notice /\ order' = order
        /\ run'[g].write \in Writes(run[g].notice, run[g].seen)
    BY <1>3, BeginDoes DEF rows, Idle
  <2>2. run'[g].write.sub = run[g].seen.sub
    BY <1>3, <2>1, WritesTyped
  <2> QED
    BY <1>0, <2>1, <2>2 DEF Busy
<1>4. \/ run'[g] = run[g] \/ run'[g].at \in {"idle", "grant"}
      \/ \E n \in Notice : Receive(g, n)
      \/ Begin(g) /\ run'[g].at = "tx"
  BY RunsChange DEF Others
<1> QED
  BY <1>1, <1>2, <1>3, <1>4 DEF Busy

\* Every step keeps that what is refunded does not run on.
LEMMA RefundStep ==
  ASSUME Holds, Kept, RefundEndsPeriod, \A o \in Orders : Once(o) /\ Steady(o), [Next]_vars
  PROVE  RefundEndsPeriod'
<1> SUFFICES ASSUME NEW o \in Orders, calm', regular'[o], order'[o].status \in Revoked, order'[o].sub # None
             PROVE  subs'[order'[o].sub].status = "CANCELED"
  BY DEF RefundEndsPeriod
<1>0. /\ calm /\ regular[o] /\ Known /\ \A h \in Handlers : WriteStill(h)
      /\ order \in [Orders -> OrderRow] /\ subs \in [Subs -> SubRow]
      /\ order[o].sub \in Subs \cup {None}
      /\ order[o].status \in Revoked /\ order[o].sub # None => subs[order[o].sub].status = "CANCELED"
  BY CalmBefore, RegularBefore DEF Kept, Snapshots, Holds, TypeOK, OrderRow, SubRow, RefundEndsPeriod
<1>1. ASSUME NEW h \in Handlers, CommitActivation(h) PROVE subs'[order'[o].sub].status = "CANCELED"
  <2> DEFINE w == run[h].write
  <2>1. PICK s \in Subs :
          /\ IF w.sub = None THEN subs[s].status = "NONE" ELSE s = w.sub
          /\ subs' = [subs EXCEPT ![s] = [status |-> "ACTIVE", end |-> w.end]]
          /\ order' = [order EXCEPT ![run[h].notice.order] = [status |-> "PAID", sub |-> s]]
    BY <1>1, ActivationDoes
  <2>2. run[h].at = "tx" /\ w.do = "activate"
    BY <1>1, ActivationDoes DEF Through
  <2>3. o # run[h].notice.order
    BY <1>0, <2>1 DEF Revoked
  <2>4. order'[o] = order[o] /\ subs[order[o].sub].status = "CANCELED"
    BY <1>0, <2>1, <2>3
  <2>5. s # order[o].sub
    <3>1. subs[s].status \in {"NONE", "ACTIVE"}
      BY <1>0, <2>1, <2>2 DEF WriteStill, Current
    <3> QED
      BY <2>4, <3>1
  <2> QED
    BY <1>0, <2>1, <2>4, <2>5
<1>2. ASSUME NEW h \in Handlers, CommitRevocation(h) PROVE subs'[order'[o].sub].status = "CANCELED"
  <2> DEFINE w == run[h].write
             n == run[h].notice
  <2>1. /\ run[h].at = "tx" /\ w.do = "revoke" /\ n.status \in Revoked
        /\ w.sub \in Subs \cup {None}
        /\ order' = [order EXCEPT ![n.order] = [status |-> n.status, sub |-> order[n.order].sub]]
        /\ subs' = IF w.sub = None THEN subs
                   ELSE [subs EXCEPT ![w.sub] = [status |-> "CANCELED", end |-> today]]
    BY <1>2, RevocationDoes DEF Through
  <2>2. order'[o].sub = order[o].sub
    BY <1>2, RevocationOrders
  <2>3. CASE o = n.order
    <3>1. w.sub = order[o].sub
      BY <1>0, <2>1, <2>3 DEF Steady, Busy
    <3> HIDE DEF w
    <3> QED
      BY <1>0, <2>1, <2>2, <3>1
  <2>4. CASE o # n.order
    <3>1. order'[o] = order[o] /\ subs[order[o].sub].status = "CANCELED"
      BY <1>0, <2>1, <2>4
    <3> HIDE DEF w
    <3> QED
      BY <1>0, <2>1, <2>2, <3>1
  <2> QED
    BY <2>3, <2>4
<1>3. CASE /\ subs' = subs /\ order'[o].sub = order[o].sub
           /\ order'[o].status \in Revoked => order[o].status \in Revoked
  BY <1>0, <1>3
<1> QED
  BY <1>0, <1>1, <1>2, <1>3, RowsChange

\* Every step keeps that the membership that is shown is backed.
LEMMA BackedStep ==
  ASSUME Holds, Kept, ProIsBacked, [Next]_vars
  PROVE  ProIsBacked'
<1> SUFFICES ASSUME calm', membership'.plan = "PRO", membership'.status = "ACTIVE", membership'.end > today',
                    membership' \notin Grants
             PROVE  \E s \in Subs : subs'[s].status = "ACTIVE" /\ subs'[s].end > today'
                                    /\ subs'[s].end = membership'.end
  BY DEF ProIsBacked, Current
<1>0. /\ calm /\ Known /\ \A h \in Handlers : WriteStill(h)
      /\ subs \in [Subs -> SubRow] /\ today \in Nat /\ membership.end \in Nat
  BY Bounds, CalmBefore DEF Kept, Snapshots, Holds, TypeOK, SubRow, Membership
<1>1. CASE UNCHANGED <<subs, membership>> /\ (today' = today \/ today' = today + 1)
  <2>1. membership.end > today
    BY <1>0, <1>1
  <2>2. PICK s \in Current : subs[s].end = membership.end
    BY <1>0, <1>1, <2>1 DEF ProIsBacked
  <2> QED
    BY <1>1, <2>2 DEF Current
<1>2. ASSUME NEW h \in Handlers, CommitActivation(h)
      PROVE  \E s \in Subs : subs'[s].status = "ACTIVE" /\ subs'[s].end > today' /\ subs'[s].end = membership'.end
  <2>1. PICK s \in Subs : subs' = [subs EXCEPT ![s] = [status |-> "ACTIVE", end |-> run[h].write.end]]
    BY <1>2, ActivationDoes
  <2>2. membership' = [plan |-> "PRO", status |-> "ACTIVE", end |-> run[h].write.end]
    BY <1>2, ActivationDoes
  <2>3. membership'.end = run[h].write.end
    BY <2>2
  <2> QED
    BY <1>0, <2>1, <2>3
<1>3. ASSUME NEW h \in Handlers, CommitRevocation(h)
      PROVE  \E s \in Subs : subs'[s].status = "ACTIVE" /\ subs'[s].end > today' /\ subs'[s].end = membership'.end
  <2> DEFINE w == run[h].write
  <2>1. /\ run[h].at = "tx" /\ w.do = "revoke" /\ membership' = w.shown /\ today' = today
        /\ subs' = IF w.sub = None THEN subs
                   ELSE [subs EXCEPT ![w.sub] = [status |-> "CANCELED", end |-> today]]
    BY <1>3, RevocationDoes DEF Through
  <2>2. PICK s \in Current : s # w.sub /\ subs[s].end = w.shown.end
    BY <1>0, <2>1 DEF WriteStill
  <2>3. s \in Subs /\ subs[s].status = "ACTIVE" /\ subs[s].end > today
    BY <2>2 DEF Current
  <2>4. subs'[s] = subs[s]
    <3>1. s # w.sub
      BY <2>2
    <3> HIDE DEF w
    <3> QED
      BY <1>0, <2>1, <2>3, <3>1
  <2> QED
    BY <2>1, <2>2, <2>3, <2>4
<1>4. ASSUME NEW h \in Handlers, CommitCancellation(h) \/ CommitFailure(h) \/ CommitNothing(h)
      PROVE  UNCHANGED <<subs, membership, today>>
  BY <1>4, CancellationDoes, FailureDoes, NothingDoes
<1>5. ASSUME NEW h \in Handlers, Abort(h) \/ GrantEntitlements(h) PROVE UNCHANGED <<subs, membership, today>>
  BY <1>5, LeaveDoes
<1>6. ASSUME NEW h \in Handlers, NEW m \in Grants, GrantMembership(h, m) PROVE FALSE
  BY <1>6, MembershipDoes
<1>7. ASSUME NEW h \in Handlers, Begin(h) PROVE UNCHANGED <<subs, membership, today>>
  BY <1>7 DEF Begin, rows
<1>8. ASSUME NEW h \in Handlers, NEW n \in Notice, Receive(h, n) PROVE UNCHANGED <<subs, membership, today>>
  BY <1>8 DEF Receive, rows
<1>9. ASSUME NEW p \in Orders, CreateOrder(p) \/ CreateCheckout(p) PROVE UNCHANGED <<subs, membership, today>>
  BY <1>9 DEF CreateOrder, CreateCheckout, rows
<1>10. CASE Tick \/ UNCHANGED vars
  BY <1>1, <1>10 DEF Tick, vars, rows
<1> QED
  BY <1>1, <1>2, <1>3, <1>4, <1>5, <1>6, <1>7, <1>8, <1>9, <1>10 DEF Next

(***************************************************************************)
(* What a step may not do.                                                 *)
(***************************************************************************)
\* A period gets shorter only by the refund of an order that is booked on it.
LEMMA PeriodStep ==
  ASSUME Holds, Kept, [Next]_vars, NEW s \in Subs, calm', subs'[s].end < subs[s].end
  PROVE  \E o \in Orders : order[o].sub = s /\ order'[o].status \in Revoked
<1>0. /\ today \in Nat /\ subs \in [Subs -> SubRow] /\ subs[s].end \in Nat
      /\ Ended /\ Known /\ calm
      /\ \A h \in Handlers : WriteStill(h)
  BY Bounds, CalmBefore DEF Holds, TypeOK, SubRow, Kept, Snapshots
<1>1. ASSUME NEW h \in Handlers, CommitActivation(h) PROVE FALSE
  <2> DEFINE w == run[h].write
  <2>1. PICK t \in Subs :
          /\ IF w.sub = None THEN subs[t].status = "NONE" ELSE t = w.sub
          /\ subs' = [subs EXCEPT ![t] = [status |-> "ACTIVE", end |-> w.end]]
    BY <1>1, ActivationDoes
  <2>2. run[h].at = "tx" /\ w.do = "activate" /\ w.end \in Nat
    BY <1>1, ActivationDoes DEF Through
  <2>3. t = s /\ w.end < subs[s].end
    BY <1>0, <2>1, <2>2
  <2>4. CASE w.sub = None
    BY <1>0, <2>1, <2>2, <2>3, <2>4 DEF Ended, WriteStill
  <2>5. CASE w.sub # None
    BY <1>0, <2>1, <2>2, <2>3, <2>5 DEF WriteStill
  <2> QED
    BY <2>4, <2>5
<1>2. ASSUME NEW h \in Handlers, CommitRevocation(h)
      PROVE  \E o \in Orders : order[o].sub = s /\ order'[o].status \in Revoked
  <2> DEFINE w == run[h].write
             n == run[h].notice
  <2>1. /\ run[h].at = "tx" /\ w.do = "revoke" /\ n.order \in Orders
        /\ subs' = IF w.sub = None THEN subs
                   ELSE [subs EXCEPT ![w.sub] = [status |-> "CANCELED", end |-> today]]
    BY <1>2, RevocationDoes DEF Through
  <2>2. w.sub = s /\ today < subs[s].end
    <3> HIDE DEF w
    <3> QED
      BY <1>0, <2>1
  <2>3. s \in Current
    BY <1>0, <2>2 DEF Ended, Current
  <2>4. order[n.order].sub = s
    BY <1>0, <2>1, <2>2, <2>3 DEF WriteStill
  <2> QED
    BY <1>2, <2>1, <2>4, RevocationOrders
<1> QED
  BY <1>0, <1>1, <1>2, RowsChange

\* Entitlements get shorter only by the refund of the order that bought them.
LEMMA EntitlementStep ==
  ASSUME Holds, [Next]_vars, NEW o \in Orders, until'[o] < until[o]
  PROVE  order'[o].status \in Revoked
<1>0. until \in [Orders -> Nat]
  BY DEF Holds, TypeOK
<1>1. until' # until
  BY <1>0
<1>2. ASSUME NEW h \in Handlers, CommitActivation(h) PROVE FALSE
  <2>1. until'[o] >= until[o] /\ until' \in [Orders -> Nat]
    BY <1>2, ActivationDoes
  <2> QED
    BY <1>0, <2>1
<1>3. ASSUME NEW h \in Handlers, CommitRevocation(h) PROVE order'[o].status \in Revoked
  <2>0. o # run[h].notice.order => until'[o] = until[o]
    BY <1>3, RevocationDoes
  <2>1. o = run[h].notice.order
    BY <1>0, <2>0
  <2> QED
    BY <1>3, <2>1, RevocationOrders
<1>4. ASSUME NEW h \in Handlers, CommitCancellation(h) \/ CommitFailure(h) \/ CommitNothing(h) PROVE FALSE
  BY <1>1, <1>4, CancellationDoes, FailureDoes, NothingDoes
<1>5. ASSUME NEW h \in Handlers, Abort(h) \/ GrantEntitlements(h) PROVE FALSE
  BY <1>1, <1>5, LeaveDoes
<1>6. ASSUME NEW h \in Handlers, NEW m \in Grants, GrantMembership(h, m) PROVE FALSE
  BY <1>1, <1>6, MembershipDoes
<1>7. ASSUME NEW h \in Handlers, Begin(h) PROVE FALSE
  BY <1>1, <1>7 DEF Begin, rows
<1>8. ASSUME NEW h \in Handlers, NEW n \in Notice, Receive(h, n) PROVE FALSE
  BY <1>1, <1>8 DEF Receive, rows
<1>9. ASSUME NEW p \in Orders, CreateOrder(p) \/ CreateCheckout(p) PROVE FALSE
  BY <1>1, <1>9 DEF CreateOrder, CreateCheckout, rows
<1>10. CASE Tick \/ UNCHANGED vars
  BY <1>1, <1>10 DEF Tick, vars, rows
<1> QED
  BY <1>2, <1>3, <1>4, <1>5, <1>6, <1>7, <1>8, <1>9, <1>10 DEF Next

\* A refund or a dispute is final, of an order whose notices came one at a time.
LEMMA FinalStep ==
  ASSUME Holds, [Next]_vars, NEW o \in Orders, Once(o), regular'[o], order[o].status \in Revoked
  PROVE  order'[o].status \in Revoked
<1>0. regular[o] /\ order \in [Orders -> OrderRow] /\ order[o].status \in Settled
  BY RegularBefore DEF Holds, TypeOK, OrderRow, Settled
<1>1. ASSUME NEW h \in Handlers, CommitActivation(h) PROVE order'[o].status \in Revoked
  <2>1. run[h].at = "tx" /\ run[h].write.do = "activate"
    BY <1>1, ActivationDoes DEF Through
  <2>2. run[h].notice.order # o
    BY <1>0, <2>1 DEF Once, Busy, Harmless
  <2>3. PICK s \in Subs : order' = [order EXCEPT ![run[h].notice.order] = [status |-> "PAID", sub |-> s]]
    BY <1>1, ActivationDoes
  <2>4. order'[o] = order[o]
    BY <1>0, <2>2, <2>3
  <2> QED
    BY <2>4
<1>2. ASSUME NEW h \in Handlers, CommitRevocation(h) PROVE order'[o].status \in Revoked
  <2>1. /\ run[h].notice.status \in Revoked
        /\ order' = [order EXCEPT ![run[h].notice.order] =
                                    [status |-> run[h].notice.status, sub |-> order[run[h].notice.order].sub]]
    BY <1>2, RevocationDoes
  <2>2. order'[o] = order[o] \/ order'[o].status = run[h].notice.status
    BY <1>0, <2>1
  <2> QED
    BY <2>1, <2>2
<1>3. ASSUME NEW h \in Handlers, CommitCancellation(h) PROVE order'[o].status \in Revoked
  <2>1. /\ order' = [order EXCEPT ![run[h].notice.order] =
                                    [status |-> "CANCELED", sub |-> order[run[h].notice.order].sub]]
        /\ regular' = [regular EXCEPT ![run[h].notice.order] = FALSE]
    BY <1>3, CancellationDoes
  <2>2. run[h].notice.order # o
    BY <2>1 DEF Holds, TypeOK
  <2>3. order'[o] = order[o]
    BY <1>0, <2>1, <2>2
  <2> QED
    BY <2>3
<1>4. ASSUME NEW h \in Handlers, CommitFailure(h) PROVE order'[o].status \in Revoked
  <2>1. \/ order' = order
        \/ /\ order[run[h].notice.order].status = "PENDING"
           /\ order' = [order EXCEPT ![run[h].notice.order] =
                                       [status |-> "FAILED", sub |-> order[run[h].notice.order].sub]]
    BY <1>4, FailureDoes
  <2>2. order'[o] = order[o]
    BY <1>0, <2>1 DEF Revoked
  <2> QED
    BY <2>2
<1>5. ASSUME NEW h \in Handlers, CommitNothing(h) PROVE order' = order
  BY <1>5, NothingDoes
<1>6. ASSUME NEW h \in Handlers, Abort(h) \/ GrantEntitlements(h) PROVE order' = order
  BY <1>6, LeaveDoes
<1>7. ASSUME NEW h \in Handlers, NEW m \in Grants, GrantMembership(h, m) PROVE order' = order
  BY <1>7, MembershipDoes
<1>8. ASSUME NEW h \in Handlers, Begin(h) PROVE order' = order
  BY <1>8 DEF Begin, rows
<1>9. ASSUME NEW h \in Handlers, NEW n \in Notice, Receive(h, n) PROVE order' = order
  BY <1>9 DEF Receive, rows
<1>10. ASSUME NEW p \in Orders, CreateOrder(p) PROVE order'[o] = order[o]
  <2>1. p # o
    BY <1>10 DEF CreateOrder, Revoked
  <2> QED
    BY <1>0, <1>10, <2>1 DEF CreateOrder
<1>11. ASSUME NEW p \in Orders, CreateCheckout(p) PROVE order' = order
  BY <1>11 DEF CreateCheckout, rows
<1>12. CASE Tick \/ UNCHANGED vars
  BY <1>12 DEF Tick, vars, rows
<1> QED
  BY <1>1, <1>2, <1>3, <1>4, <1>5, <1>6, <1>7, <1>8, <1>9, <1>10, <1>11, <1>12 DEF Next

\* A membership set by hand yields, while it is valid, to a payment and the administrator.
LEMMA ManualStep ==
  ASSUME Holds, Kept, [Next]_vars, calm',
         membership.status = "MANUAL", membership.end > today, membership' # membership
  PROVE  \E h \in Handlers : \/ run[h].at = "tx" /\ run[h].write.do = "activate" /\ run'[h] = Idle
                             \/ run[h] = Idle /\ run'[h].at = "grant"
<1>1. \A g \in Handlers : WriteStill(g)
  BY CalmBefore DEF Kept, Snapshots
<1>2. ASSUME NEW g \in Handlers, CommitActivation(g)
      PROVE  run[g].at = "tx" /\ run[g].write.do = "activate" /\ run'[g] = Idle
  BY <1>2, ActivationDoes DEF Through
<1>3. ASSUME NEW g \in Handlers, NEW m \in Grants, GrantMembership(g, m)
      PROVE  run[g] = Idle /\ run'[g].at = "grant"
  BY <1>3, MembershipDoes DEF GrantMembership
<1>4. ASSUME NEW g \in Handlers, CommitRevocation(g) PROVE membership' = membership
  <2>1. run[g].at = "tx" /\ run[g].write.do = "revoke" /\ membership' = run[g].write.shown
    BY <1>4, RevocationDoes DEF Through
  <2> QED
    BY <1>1, <2>1 DEF WriteStill
<1>5. ASSUME NEW g \in Handlers, CommitCancellation(g) \/ CommitFailure(g) \/ CommitNothing(g)
      PROVE  membership' = membership
  BY <1>5, CancellationDoes, FailureDoes, NothingDoes
<1>6. ASSUME NEW g \in Handlers, Abort(g) \/ GrantEntitlements(g) PROVE membership' = membership
  BY <1>6, LeaveDoes
<1>7. ASSUME NEW g \in Handlers, Begin(g) PROVE membership' = membership
  BY <1>7 DEF Begin, rows
<1>8. ASSUME NEW g \in Handlers, NEW n \in Notice, Receive(g, n) PROVE membership' = membership
  BY <1>8 DEF Receive, rows
<1>9. ASSUME NEW p \in Orders, CreateOrder(p) \/ CreateCheckout(p) PROVE membership' = membership
  BY <1>9 DEF CreateOrder, CreateCheckout, rows
<1>10. CASE Tick \/ UNCHANGED vars
  BY <1>10 DEF Tick, vars, rows
<1> QED
  BY <1>2, <1>3, <1>4, <1>5, <1>6, <1>7, <1>8, <1>9, <1>10 DEF Next

(***************************************************************************)
(* In every reachable state.                                               *)
(***************************************************************************)
BillingInv == Holds /\ Paid /\ Kept /\ RefundEndsPeriod /\ ProIsBacked

\* At the start there are no orders.
LEMMA InitHolds == Init => BillingInv
<1> SUFFICES ASSUME Init PROVE BillingInv
  OBVIOUS
<1>1. TypeOK
  <2>1. today \in 0..MaxDay /\ open \subseteq Orders
    BY Bounds DEF Init
  <2>2. order \in [Orders -> [status : OrderStatus, sub : Subs \cup {None}]]
    BY DEF Init, OrderStatus
  <2>3. subs \in [Subs -> [status : SubStatus, end : Nat]]
    BY DEF Init, SubStatus
  <2>4. until \in [Orders -> Nat] /\ granted \in Nat /\ membership \in Membership
    BY DEF Init, Membership
  <2>5. processed \subseteq Notices /\ booked \in [Payments -> BookStatus]
    BY DEF Init, BookStatus
  <2>6. run \in [Handlers -> Run]
    BY DEF Init, Run, Idle
  <2>7. times \in [Orders -> 0..2] /\ regular \in [Orders -> BOOLEAN] /\ calm \in BOOLEAN
    BY DEF Init
  <2> QED
    BY <2>1, <2>2, <2>3, <2>4, <2>5, <2>6, <2>7 DEF TypeOK
<1>2. \A h \in Handlers : run[h].at = "idle"
  BY DEF Init, Idle
<1>3. Holds
  BY <1>1, <1>2 DEF Holds, Terms, OneTx
<1>4. Paid
  <2>1. EntitledIsPaid
    BY DEF Init, EntitledIsPaid
  <2>2. ASSUME NEW o \in Orders PROVE Once(o) /\ Steady(o)
    BY <1>2 DEF Init, Once, Steady, Busy
  <2> QED
    BY <2>1, <2>2 DEF Paid
<1>5. Kept
  <2>1. Ended
    BY DEF Init, Ended
  <2>2. Known
    BY <1>2 DEF Init, Known, Taken
  <2>3. Snapshots
    BY <1>2 DEF Init, Snapshots, Exclusive, OneRuns, Current, SeenStill, WriteStill, InTx
  <2> QED
    BY <2>1, <2>2, <2>3 DEF Kept
<1>6. RefundEndsPeriod /\ ProIsBacked
  BY DEF Init, RefundEndsPeriod, ProIsBacked
<1> QED
  BY <1>3, <1>4, <1>5, <1>6 DEF BillingInv

\* Every step keeps the invariant.
LEMMA NextKeeps == BillingInv /\ [Next]_vars => BillingInv'
<1> SUFFICES ASSUME BillingInv, [Next]_vars PROVE BillingInv'
  OBVIOUS
<1>1. Holds /\ EntitledIsPaid /\ Ended /\ Known /\ Snapshots
  BY DEF BillingInv, Paid, Kept
<1>2. Holds'
  BY <1>1, TypeStep, TermsStep DEF Holds
<1>3. Paid'
  <2>1. \A o \in Orders : Once(o)' /\ Steady(o)'
    BY <1>1, OnceStep, SteadyStep DEF BillingInv, Paid
  <2> QED
    BY <1>1, <2>1, EntitledStep DEF Paid
<1>4. Kept'
  BY <1>1, EndedStep, KnownStep, SnapshotsStep DEF Kept
<1>5. RefundEndsPeriod' /\ ProIsBacked'
  BY <1>1, RefundStep, BackedStep DEF BillingInv, Paid
<1> QED
  BY <1>2, <1>3, <1>4, <1>5 DEF BillingInv

\* The invariant holds, and with it the types.
THEOREM BillingInvariant == Spec => []BillingInv
<1> QED
  BY InitHolds, NextKeeps, PTL DEF Spec

\* For any orders, notices and handlers, whatever comes twice or late: only an order that is
\* paid now entitles; each payment counts once and a refund is final, unless two different
\* notices of the order overlapped or a cancellation came between.
THEOREM PaidForOnceHolds == Spec => PaidForOnce
<1>1. BillingInv => EntitledIsPaid /\ PaidOnce
  BY DEF BillingInv, Paid, Once, PaidOnce
<1>2. BillingInv /\ [Next]_vars
      => [\A o \in Orders : regular'[o] /\ order[o].status \in Revoked => order'[o].status \in Revoked]_vars
  BY FinalStep DEF BillingInv, Paid
<1> QED
  BY <1>1, <1>2, BillingInvariant, PTL DEF Spec, PaidForOnce, RefundIsFinal

\* While no two transactions overlap, the order, its period and the membership that
\* is shown tell the same story.
THEOREM BooksAgreeHolds == Spec => []BooksAgree
<1>1. BillingInv => BooksAgree
  BY DEF BillingInv, Holds, BooksAgree
<1> QED
  BY <1>1, BillingInvariant, PTL

\* What the user has gets less only so: a subscription by the refund of an order booked on
\* it, an order's entitlements by its own refund, a membership set by hand by a payment or
\* the administrator; the first and the last while no two transactions overlapped.
THEOREM OnlyRefundTakesHolds == Spec => OnlyRefundTakes
<1>1. BillingInv /\ [Next]_vars
      => [\A s \in Subs : calm' /\ subs'[s].end < subs[s].end
            => \E o \in Orders : order[o].sub = s /\ order'[o].status \in Revoked]_vars
  BY PeriodStep DEF BillingInv
<1>2. BillingInv /\ [Next]_vars
      => [\A o \in Orders : until'[o] < until[o] => order'[o].status \in Revoked]_vars
  BY EntitlementStep DEF BillingInv
<1>3. BillingInv /\ [Next]_vars
      => [calm' /\ membership.status = "MANUAL" /\ membership.end > today /\ membership' # membership
            => \E h \in Handlers :
                 \/ run[h].at = "tx" /\ run[h].write.do = "activate" /\ run'[h] = Idle
                 \/ run[h] = Idle /\ run'[h].at = "grant"]_vars
  BY ManualStep DEF BillingInv
<1> QED
  BY <1>1, <1>2, <1>3, BillingInvariant, PTL
  DEF Spec, OnlyRefundTakes, PeriodIsKept, RefundTakesOwn, ManualYields
-----------------------------------------------------------------------------
(* The web client.  The inductive invariant is ClientInv: see the definitions below. *)

Ops == {"signin", "me", "leave", "list", "daily", "board", "report", "trend", "plan", "card", "milestone",
        "poll", "refresh", "cancel", "generate", "replan", "confirm", "create", "delete", "settle", "restart"}
Buttons == {"refresh", "cancel"}
Thens == {"none", "settled", "restarted", "created", "deleted", "confirmed", "milestone"}
UI == [session : Tokens \cup {0}, page : Pages, sel : Goals \cup {0}, list : [Goals -> GoalStatus],
       of : Tokens \cup {0}, created : [goal : Goals \cup {0}, status : GoalStatus], plan : Goals \cup {0},
       panel : [Panels -> Goals \cup {0}], tracked : [job : Jobs \cup {0}, status : JobStatus],
       busy : SUBSET Flags]
Answer == [ok : BOOLEAN, list : [Goals -> GoalStatus], goal : Goals \cup {0}, job : Jobs \cup {0},
           status : GoalStatus \cup JobStatus, ready : BOOLEAN]
Call == [op : Ops, at : {"sent", "back"}, token : Tokens \cup {0}, goal : Goals \cup {0}, job : Jobs \cup {0},
         sel : Goals \cup {0}, pref : Goals \cup {0}, then : Thens, res : Answer, got : Answer]

\* What an answer carries, by what was asked for, and what a handler may go on with.
Carried(c) == c.got.ok =>
  /\ c.op \in {"poll", "refresh", "cancel", "generate", "replan", "settle"} => c.got.status \in JobStatus
  /\ c.op = "confirm" => c.got.status \in GoalStatus
  /\ c.op \in {"generate", "replan", "confirm"} => c.got.goal \in Goals
  /\ c.op \in Buttons => c.job \in Jobs
Follows(c) ==
  /\ c.op = "daily" => c.then \in {"none", "confirmed"}
  /\ c.op = "signin" => c.token \in Tokens
  /\ c.then = "settled" => c.res.status \in JobStatus /\ c.pref = c.res.goal

\* The goals of a list are an account's, and so is the goal in an answer.
Owned(list, t) == \A g \in Goals : list[g] # "none" => goal[g] # "none" /\ owner[g] = t
OwnGoals(c) ==
  /\ Owned(c.got.list, c.token)
  /\ c.got.ok /\ c.op \in {"generate", "replan", "confirm"} =>
                 goal[c.got.goal] # "none" /\ owner[c.got.goal] = c.token
Sound(c) == c \in Call /\ Carried(c) /\ Follows(c) /\ OwnGoals(c)

\* One request of this kind, at most.
Single(s, op) == \A k, n \in DOMAIN s : s[k].op = op /\ s[n].op = op => k = n
Absent(s, op) == \A k \in DOMAIN s : s[k].op # op

\* A sequence without its i-th element.
LEMMA Removed ==
  ASSUME NEW S, NEW s \in Seq(S), NEW i \in DOMAIN s
  PROVE  /\ RemoveAt(s, i) \in Seq(S)
         /\ Len(RemoveAt(s, i)) = Len(s) - 1
         /\ \A k \in 1..Len(s) - 1 : RemoveAt(s, i)[k] = s[IF k < i THEN k ELSE k + 1]
<1>1. i \in 1..Len(s) /\ Len(s) \in Nat
  OBVIOUS
<1> DEFINE a == SubSeq(s, 1, i - 1)
           b == SubSeq(s, i + 1, Len(s))
<1>2. a \in Seq(S) /\ Len(a) = i - 1 /\ \A k \in 1..i - 1 : a[k] = s[k]
  BY <1>1
<1>3. b \in Seq(S) /\ Len(b) = Len(s) - i /\ \A k \in 1..Len(s) - i : b[k] = s[i + k]
  BY <1>1
<1> HIDE DEF a, b
<1>4. a \o b \in Seq(S) /\ Len(a \o b) = Len(s) - 1
  BY <1>1, <1>2, <1>3
<1>5. ASSUME NEW k \in 1..Len(s) - 1 PROVE (a \o b)[k] = s[IF k < i THEN k ELSE k + 1]
  <2>1. CASE k < i
    BY <1>1, <1>2, <1>3, <2>1
  <2>2. CASE ~(k < i)
    <3>1. (a \o b)[k] = b[k - (i - 1)]
      BY <1>1, <1>2, <1>3, <2>2
    <3>2. k - (i - 1) \in 1..Len(s) - i /\ i + (k - (i - 1)) = k + 1
      BY <1>1, <2>2
    <3> QED
      BY <1>1, <1>3, <2>2, <3>1, <3>2
  <2> QED
    BY <2>1, <2>2
<1> QED
  BY <1>4, <1>5 DEF RemoveAt, a, b
\* What is left of a sequence has no other elements, and no more of a kind.
LEMMA RemovedKeeps ==
  ASSUME NEW S, NEW s \in Seq(S), NEW i \in DOMAIN s, NEW op
  PROVE  /\ Range(RemoveAt(s, i)) \subseteq Range(s)
         /\ Range(s) \subseteq Range(RemoveAt(s, i)) \cup {s[i]}
         /\ Single(s, op) => Single(RemoveAt(s, i), op)
         /\ Single(s, op) /\ s[i].op = op => Absent(RemoveAt(s, i), op)
<1> DEFINE r == RemoveAt(s, i)
<1>1. r \in Seq(S) /\ Len(r) = Len(s) - 1 /\ \A k \in 1..Len(s) - 1 : r[k] = s[IF k < i THEN k ELSE k + 1]
  BY Removed
<1> HIDE DEF r
<1>2. DOMAIN s = 1..Len(s) /\ DOMAIN r = 1..Len(s) - 1 /\ Len(s) \in Nat /\ i \in 1..Len(s)
  BY <1>1
<1>3. Range(r) \subseteq Range(s)
  BY <1>1, <1>2 DEF Range
<1>4. ASSUME NEW k \in DOMAIN s, k # i PROVE s[k] \in Range(r)
  <2>1. CASE k < i
    BY <1>1, <1>2, <2>1 DEF Range
  <2>2. CASE ~(k < i)
    <3>1. k - 1 \in 1..Len(s) - 1 /\ ~(k - 1 < i) /\ (k - 1) + 1 = k
      BY <1>2, <1>4, <2>2
    <3> QED
      BY <1>1, <1>2, <3>1 DEF Range
  <2> QED
    BY <2>1, <2>2
<1>5. ASSUME Single(s, op) PROVE Single(r, op)
  <2> SUFFICES ASSUME NEW k \in DOMAIN r, NEW n \in DOMAIN r, r[k].op = op, r[n].op = op PROVE k = n
    BY DEF Single
  <2> DEFINE a == IF k < i THEN k ELSE k + 1
             b == IF n < i THEN n ELSE n + 1
  <2>1. a \in DOMAIN s /\ b \in DOMAIN s /\ r[k] = s[a] /\ r[n] = s[b]
    BY <1>1, <1>2
  <2>2. a = b
    BY <1>5, <2>1 DEF Single
  <2> QED
    BY <1>2, <2>2
<1>6. ASSUME Single(s, op), s[i].op = op PROVE Absent(r, op)
  <2> SUFFICES ASSUME NEW k \in DOMAIN r, r[k].op = op PROVE FALSE
    BY DEF Absent
  <2> DEFINE a == IF k < i THEN k ELSE k + 1
  <2>1. a \in DOMAIN s /\ r[k] = s[a] /\ a # i
    BY <1>1, <1>2
  <2> QED
    BY <1>6, <2>1 DEF Single
<1> QED
  BY <1>3, <1>4, <1>5, <1>6 DEF r, Range

\* Two sequences, one after the other.
LEMMA Joined ==
  ASSUME NEW S, NEW s \in Seq(S), NEW t \in Seq(S), NEW op
  PROVE  /\ s \o t \in Seq(S) /\ Range(s \o t) = Range(s) \cup Range(t)
         /\ Len(s \o t) = Len(s) + Len(t)
         /\ Single(s, op) /\ Absent(t, op) => Single(s \o t, op)
         /\ Absent(s, op) /\ Single(t, op) => Single(s \o t, op)
         /\ Absent(s, op) /\ Absent(t, op) => Absent(s \o t, op)
<1> DEFINE j == s \o t
<1>1. /\ j \in Seq(S) /\ Len(j) = Len(s) + Len(t) /\ Len(s) \in Nat /\ Len(t) \in Nat
      /\ DOMAIN s = 1..Len(s) /\ DOMAIN t = 1..Len(t) /\ DOMAIN j = 1..Len(s) + Len(t)
  OBVIOUS
<1>2. ASSUME NEW k \in DOMAIN j
      PROVE  \/ k \in DOMAIN s /\ j[k] = s[k]
             \/ k - Len(s) \in DOMAIN t /\ j[k] = t[k - Len(s)]
  <2>1. CASE k <= Len(s)
    BY <1>1, <2>1
  <2>2. CASE ~(k <= Len(s))
    <3>1. k - Len(s) \in 1..Len(t)
      BY <1>1, <2>2
    <3> QED
      BY <1>1, <2>2, <3>1
  <2> QED
    BY <2>1, <2>2
<1>3. \A k \in DOMAIN s : k \in DOMAIN j /\ j[k] = s[k]
  BY <1>1
<1>4. \A k \in DOMAIN t : k + Len(s) \in DOMAIN j /\ j[k + Len(s)] = t[k]
  BY <1>1
<1> HIDE DEF j
<1>5. Range(j) = Range(s) \cup Range(t)
  <2>1. Range(j) \subseteq Range(s) \cup Range(t)
    BY <1>2 DEF Range
  <2>2. Range(s) \subseteq Range(j)
    BY <1>3 DEF Range
  <2>3. Range(t) \subseteq Range(j)
    BY <1>4 DEF Range
  <2> QED
    BY <2>1, <2>2, <2>3
<1>6. Single(s, op) /\ Absent(t, op) => Single(j, op)
  BY <1>2 DEF Single, Absent
<1>7. Absent(s, op) /\ Single(t, op) => Single(j, op)
  <2> SUFFICES ASSUME Absent(s, op), Single(t, op), NEW k \in DOMAIN j, NEW n \in DOMAIN j, j[k].op = op, j[n].op = op
               PROVE  k = n
    BY DEF Single
  <2>1. /\ k - Len(s) \in DOMAIN t /\ j[k] = t[k - Len(s)]
        /\ n - Len(s) \in DOMAIN t /\ j[n] = t[n - Len(s)]
    BY <1>2 DEF Absent
  <2>2. k - Len(s) = n - Len(s)
    BY <2>1 DEF Single
  <2> QED
    BY <1>1, <2>2
<1>8. Absent(s, op) /\ Absent(t, op) => Absent(j, op)
  BY <1>2 DEF Absent
<1> QED
  BY <1>1, <1>5, <1>6, <1>7, <1>8 DEF j

\* What is in two sequences, one after the other.
LEMMA Union ==
  ASSUME NEW S, NEW s \in Seq(S), NEW t \in Seq(S)
  PROVE  /\ s \o t \in Seq(S) /\ Range(s \o t) = Range(s) \cup Range(t)
         /\ Len(s \o t) = Len(s) + Len(t)
<1> DEFINE op == "poll"
<1>1. s \o t \in Seq(S) /\ Range(s \o t) = Range(s) \cup Range(t) /\ Len(s \o t) = Len(s) + Len(t)
       /\ (Single(s, op) /\ Absent(t, op) => Single(s \o t, op))
  BY Joined
<1> QED
  BY <1>1

\* One element more, as a sequence that follows.
LEMMA AppendIs == ASSUME NEW S, NEW s \in Seq(S), NEW c \in S PROVE Append(s, c) = s \o <<c>>
  OBVIOUS

\* The polling of a job, for the requests that wait.
LEMMA PollsIs ==
  ASSUME NEW u, NEW w, NEW s \in Seq(Call), AskJob(w, "poll") \in Call, Single(s, "poll")
  PROVE  LET q == Polls(u, w, s) IN
         /\ q \in Seq(Call) /\ Range(q) \subseteq Range(s) \cup {AskJob(w, "poll")}
         /\ \A c \in Range(s) : c.op # "poll" => c \in Range(q)
         /\ Single(q, "poll")
         /\ \A op \in Ops \ {"poll"} : Single(s, op) => Single(q, op)
         /\ \A c \in Range(q) : c.op = "poll" =>
               \/ ~PollRestarts(u, w) /\ c \in Range(s)
               \/ Tracking(w) /\ c = AskJob(w, "poll")
         /\ ~Tracking(w) => Len(q) <= Len(s)
<1> DEFINE polls == {i \in DOMAIN s : IsPoll(s[i])}
           left == IF polls = {} THEN s ELSE RemoveAt(s, CHOOSE k \in polls : TRUE)
           ask == AskJob(w, "poll")
           q == Polls(u, w, s)
<1>0. ask.op = "poll"
  BY DEF AskJob, Ask
<1>1. /\ left \in Seq(Call) /\ Range(left) \subseteq Range(s) /\ Len(left) <= Len(s) /\ Absent(left, "poll")
      /\ \A c \in Range(s) : c.op # "poll" => c \in Range(left)
      /\ \A op \in Ops : Single(s, op) => Single(left, op)
  <2>1. CASE polls = {}
    BY <2>1 DEF Absent, IsPoll, Range
  <2>2. CASE polls # {}
    <3>1. PICK i : i = CHOOSE k \in polls : TRUE
      OBVIOUS
    <3>2. i \in DOMAIN s /\ s[i].op = "poll" /\ left = RemoveAt(s, i)
      BY <2>2, <3>1 DEF IsPoll
    <3>3. left \in Seq(Call) /\ Len(left) = Len(s) - 1
      BY <3>2, Removed
    <3>4. Range(left) \subseteq Range(s) /\ Range(s) \subseteq Range(left) \cup {s[i]} /\ Absent(left, "poll")
      BY <3>2, RemovedKeeps, ZenonT(40)
    <3>5. \A op \in Ops : Single(s, op) => Single(left, op)
      BY <3>2, RemovedKeeps
    <3> HIDE DEF left
    <3>6. Len(left) <= Len(s)
      BY <3>3
    <3> QED
      BY <3>2, <3>3, <3>4, <3>5, <3>6
  <2> QED
    BY <2>1, <2>2
<1>2. q = IF ~PollRestarts(u, w) THEN s ELSE IF Tracking(w) THEN Append(left, ask) ELSE left
  BY DEF Polls
<1> HIDE DEF left, ask, q
<1>3. CASE ~PollRestarts(u, w)
  BY <1>2, <1>3 DEF q
<1>4. CASE PollRestarts(u, w) /\ ~Tracking(w)
  <2>1. q = left
    BY <1>2, <1>4
  <2>2. \A c \in Range(q) : c.op # "poll"
    BY <1>1, <2>1 DEF Absent, Range
  <2>3. Single(q, "poll")
    BY <1>1, <2>1 DEF Absent, Single
  <2> QED
    BY <1>1, <1>4, <2>1, <2>2, <2>3 DEF q, ask
<1>5. CASE PollRestarts(u, w) /\ Tracking(w)
  <2>1. q = left \o <<ask>> /\ <<ask>> \in Seq(Call) /\ Range(<<ask>>) = {ask}
    <3>1. Append(left, ask) = left \o <<ask>>
      BY <1>1, AppendIs DEF ask
    <3>2. Range(<<ask>>) = {ask} /\ <<ask>> \in Seq(Call)
      BY DEF Range, ask
    <3> QED
      BY <1>2, <1>5, <3>1, <3>2
  <2>2. q \in Seq(Call) /\ Range(q) = Range(left) \cup {ask}
    <3>1. left \in Seq(Call)
      BY <1>1
    <3>2. left \o <<ask>> \in Seq(Call) /\ Range(left \o <<ask>>) = Range(left) \cup Range(<<ask>>)
      BY <2>1, <3>1, Union
    <3> QED
      BY <2>1, <3>2
  <2>3. Single(<<ask>>, "poll") /\ \A op \in Ops \ {"poll"} : Absent(<<ask>>, op)
    BY <1>0 DEF Single, Absent
  <2>4. Single(q, "poll")
    BY <1>1, <2>1, <2>3, Joined
  <2>5. ASSUME NEW op \in Ops \ {"poll"}, Single(s, op) PROVE Single(q, op)
    BY <1>1, <2>1, <2>3, <2>5, Joined
  <2>6. \A c \in Range(left) : c.op # "poll"
    BY <1>1 DEF Absent, Range
  <2> QED
    BY <1>1, <1>5, <2>2, <2>4, <2>5, <2>6 DEF q, ask
<1> QED
  BY <1>3, <1>4, <1>5 DEF q

\* A request, as Ask makes it.
LEMMA AskIs ==
  ASSUME NEW u \in UI, NEW op \in Ops, NEW g \in Goals \cup {0}
  PROVE  /\ Ask(u, op, g) \in Call /\ Ask(u, op, g).op = op /\ Ask(u, op, g).token = u.session
         /\ Ask(u, op, g).goal = g /\ Ask(u, op, g).pref = 0 /\ Ask(u, op, g).then = "none"
         /\ Ask(u, op, g).got = NoAnswer /\ Ask(u, op, g).res = NoAnswer /\ Ask(u, op, g).at = "sent"
<1>1. NoAnswer \in Answer
  BY DEF NoAnswer, Answer, NoGoals, GoalStatus
<1> QED
  BY <1>1 DEF Ask, Call, UI, Thens

\* An error carries no goal.
LEMMA NoAnswerKnown == ~NoAnswer.ok /\ \A t : Owned(NoAnswer.list, t)
  BY DEF NoAnswer, Owned, NoGoals

\* The kinds of requests, one by one.
LEMMA OpsAre ==
  /\ "signin" \in Ops /\ "me" \in Ops /\ "leave" \in Ops /\ "list" \in Ops /\ "daily" \in Ops /\ "board" \in Ops
  /\ "report" \in Ops /\ "trend" \in Ops /\ "plan" \in Ops /\ "card" \in Ops /\ "milestone" \in Ops /\ "poll" \in Ops
  /\ "refresh" \in Ops /\ "cancel" \in Ops /\ "generate" \in Ops /\ "replan" \in Ops /\ "confirm" \in Ops
  /\ "create" \in Ops /\ "delete" \in Ops /\ "settle" \in Ops /\ "restart" \in Ops
BY DEF Ops

\* A new request is sound.
LEMMA NewSound ==
  ASSUME NEW c \in Call, c.got = NoAnswer, Follows(c)
  PROVE  Sound(c)
BY NoAnswerKnown DEF Sound, Carried, OwnGoals

\* A request of Ask is sound.
LEMMA AskSound ==
  ASSUME NEW u \in UI, NEW op \in Ops \ {"signin"}, NEW g \in Goals \cup {0}
  PROVE  Sound(Ask(u, op, g))
<1>1. Ask(u, op, g) \in Call /\ Ask(u, op, g).op = op /\ Ask(u, op, g).got = NoAnswer /\ Ask(u, op, g).then = "none"
  BY AskIs
<1> QED
  BY <1>1, NewSound DEF Follows

\* So it is with a goal to prefer.
LEMMA AskPref ==
  ASSUME NEW u \in UI, NEW op \in Ops \ {"signin"}, NEW g \in Goals \cup {0}, NEW n \in Goals \cup {0}
  PROVE  [Ask(u, op, g) EXCEPT !.pref = n] \in Call /\ Sound([Ask(u, op, g) EXCEPT !.pref = n])
<1> DEFINE c == Ask(u, op, g)
           d == [c EXCEPT !.pref = n]
<1>1. c \in Call /\ c.op = op /\ c.got = NoAnswer /\ c.then = "none"
  BY AskIs
<1> HIDE DEF c
<1>2. d \in Call /\ d.op = op /\ d.got = NoAnswer /\ d.then = "none"
  BY <1>1 DEF Call
<1> HIDE DEF d
<1>3. Sound(d)
  BY <1>2, NewSound DEF Follows
<1> QED
  BY <1>2, <1>3 DEF c, d

\* The request for a deletion remembers the job that is followed.
LEMMA DeletionSound ==
  ASSUME NEW u \in UI, NEW g \in Goals \cup {0}, NEW j \in Jobs \cup {0}
  PROVE  LET d == [Ask(u, "delete", g) EXCEPT !.job = j] IN
         d \in Call /\ Sound(d) /\ d.op = "delete" /\ d.token = u.session
<1> DEFINE c == Ask(u, "delete", g)
           d == [c EXCEPT !.job = j]
<1>1. c \in Call /\ c.op = "delete" /\ c.got = NoAnswer /\ c.then = "none" /\ c.token = u.session
  BY AskIs, OpsAre
<1> HIDE DEF c
<1>2. d \in Call /\ d.op = "delete" /\ d.got = NoAnswer /\ d.then = "none" /\ d.token = u.session
  BY <1>1 DEF Call
<1> HIDE DEF d
<1>3. Sound(d)
  BY <1>2, NewSound DEF Follows
<1> QED
  BY <1>2, <1>3 DEF c, d

\* A request for the list, by which no settlement goes on.
LEMMA AskListIs ==
  ASSUME NEW u \in UI, NEW n \in Goals \cup {0}, NEW g \in Goals \cup {0}, NEW then \in Thens \ {"settled"}
  PROVE  /\ AskList(u, n, g, then) \in Call /\ Sound(AskList(u, n, g, then))
         /\ AskList(u, n, g, then).op = "list" /\ AskList(u, n, g, then).token = u.session
         /\ AskList(u, n, g, then).pref = n /\ AskList(u, n, g, then).then = then
<1> DEFINE a == Ask(u, "list", 0)
           c == AskList(u, n, g, then)
<1>1. a \in Call /\ a.op = "list" /\ a.token = u.session /\ a.got = NoAnswer
  BY AskIs, OpsAre
<1>2. c = [a EXCEPT !.pref = n, !.sel = g, !.then = then]
  BY DEF AskList
<1> HIDE DEF a, c
<1>3. c \in Call /\ c.got = NoAnswer /\ c.op = "list" /\ c.token = u.session /\ c.pref = n /\ c.then = then
  BY <1>1, <1>2 DEF Call
<1>4. Sound(c)
  BY <1>3, NewSound DEF Follows
<1> QED
  BY <1>3, <1>4 DEF c

\* The requests of the effects are of the session that is shown; a goal newly selected has the
\* day's data loaded for it, and who has signed out sends none.
LEMMA LoadsIs ==
  ASSUME NEW u, NEW w \in UI
  PROVE  /\ Loads(u, w) \in Seq(Call)
         /\ \A c \in Range(Loads(u, w)) :
              Sound(c) /\ c.token = w.session /\ c.op \in {"list", "board", "report", "daily", "plan"}
         /\ w.session = 0 => Loads(u, w) = <<>>
         /\ w.session # 0 /\ (u.session # w.session \/ u.sel # w.sel) =>
              \E c \in Range(Loads(u, w)) : c.op = "daily" /\ c.goal = w.sel
<1> DEFINE one(enabled, c) == IF enabled THEN <<c>> ELSE <<>>
           in == w.session # 0
           session == u.session # w.session
           chosen == session \/ u.sel # w.sel
           seen == chosen \/ u.page # w.page
           status == SelectedStatus(w)
           known == seen \/ SelectedStatus(u) # status
           b1 == in /\ session
           b2 == in /\ seen /\ w.sel # 0 /\ w.page = "rewards"
           b3 == in /\ known /\ w.sel # 0 /\ w.page = "failure" /\ status = "FAILED"
           b4 == in /\ chosen
           b5 == in /\ known /\ w.sel # 0 /\ w.plan # w.sel
                 /\ (w.page = "plan" \/ status \in {"WAITING_CONFIRMATION", "ACTIVE"})
           c1 == AskList(w, 0, w.sel, "none")
           c2 == Ask(w, "board", w.sel)
           c3 == Ask(w, "report", w.sel)
           c4 == [Ask(w, "daily", w.sel) EXCEPT !.pref = currentGoalId(w)]
           c5 == Ask(w, "plan", w.sel)
<1>1. Loads(u, w) = one(b1, c1) \o one(b2, c2) \o one(b3, c3) \o one(b4, c4) \o one(b5, c5)
  BY DEF Loads
<1>2. w.sel \in Goals \cup {0} /\ 0 \in Goals \cup {0} /\ currentGoalId(w) \in Goals \cup {0}
  BY DEF UI, currentGoalId
<1>4. c2 \in Call /\ Sound(c2) /\ c2.token = w.session /\ c2.op = "board"
  BY <1>2, AskIs, AskSound, OpsAre
<1>5. c3 \in Call /\ Sound(c3) /\ c3.token = w.session /\ c3.op = "report"
  BY <1>2, AskIs, AskSound, OpsAre
<1>6. c5 \in Call /\ Sound(c5) /\ c5.token = w.session /\ c5.op = "plan"
  BY <1>2, AskIs, AskSound, OpsAre
<1>7. c1 \in Call /\ Sound(c1) /\ c1.token = w.session /\ c1.op = "list"
  <2>1. "none" \in Thens \ {"settled"}
    BY DEF Thens
  <2>2. w.sel \in Goals \cup {0} /\ 0 \in Goals \cup {0}
    BY <1>2
  <2> QED
    BY <2>1, <2>2, AskListIs
<1>8. c4 \in Call /\ Sound(c4) /\ c4.token = w.session /\ c4.op = "daily" /\ c4.goal = w.sel
  <2> DEFINE a == Ask(w, "daily", w.sel)
  <2>1. a.token = w.session /\ a.op = "daily" /\ a.goal = w.sel /\ a \in Call
    BY <1>2, AskIs, OpsAre
  <2>2. c4 \in Call /\ Sound(c4)
    BY <1>2, AskPref, OpsAre
  <2> HIDE DEF a
  <2> QED
    BY <2>1, <2>2 DEF Call, a
<1> HIDE DEF c1, c2, c3, c4, c5
<1>9. ASSUME NEW b, NEW c \in Call PROVE one(b, c) \in Seq(Call) /\ Range(one(b, c)) = IF b THEN {c} ELSE {}
  BY DEF Range
<1> DEFINE s1 == one(b1, c1)
           s2 == one(b2, c2)
           s3 == one(b3, c3)
           s4 == one(b4, c4)
           s5 == one(b5, c5)
<1>10. /\ s1 \in Seq(Call) /\ s2 \in Seq(Call) /\ s3 \in Seq(Call) /\ s4 \in Seq(Call) /\ s5 \in Seq(Call)
       /\ Range(s1) \subseteq {c1} /\ Range(s2) \subseteq {c2} /\ Range(s3) \subseteq {c3}
       /\ Range(s4) = (IF b4 THEN {c4} ELSE {}) /\ Range(s5) \subseteq {c5}
  BY <1>4, <1>5, <1>6, <1>7, <1>8, <1>9
<1>11. ~in => s1 = <<>> /\ s2 = <<>> /\ s3 = <<>> /\ s4 = <<>> /\ s5 = <<>>
  OBVIOUS
<1>12. Loads(u, w) = s1 \o s2 \o s3 \o s4 \o s5
  BY <1>1
<1> HIDE DEF s1, s2, s3, s4, s5, one
<1> DEFINE t2 == s1 \o s2
           t3 == t2 \o s3
           t4 == t3 \o s4
<1>13. t2 \in Seq(Call) /\ Range(t2) = Range(s1) \cup Range(s2)
  BY <1>10, Union
<1> HIDE DEF t2
<1>14. t3 \in Seq(Call) /\ Range(t3) = Range(t2) \cup Range(s3)
  BY <1>10, <1>13, Union
<1> HIDE DEF t3
<1>15. t4 \in Seq(Call) /\ Range(t4) = Range(t3) \cup Range(s4)
  BY <1>10, <1>14, Union
<1> HIDE DEF t4
<1>16. t4 \o s5 \in Seq(Call) /\ Range(t4 \o s5) = Range(t4) \cup Range(s5)
  BY <1>10, <1>15, Union
<1>17. ~in => Loads(u, w) = <<>>
  BY <1>11, <1>12
<1>18. Loads(u, w) = t4 \o s5
  BY <1>12 DEF t2, t3, t4
<1>19. \A c \in Range(Loads(u, w)) : c \in {c1, c2, c3, c4, c5}
  BY <1>10, <1>13, <1>14, <1>15, <1>16, <1>18
<1>20. b4 => c4 \in Range(Loads(u, w))
  BY <1>10, <1>13, <1>14, <1>15, <1>16, <1>18
<1> QED
  BY <1>4, <1>5, <1>6, <1>7, <1>8, <1>16, <1>17, <1>18, <1>19, <1>20


\* The requests that wait when the answer to request i, or none, is taken.
Rest(i) == IF i = 0 THEN calls ELSE Without(i)

ClientTypes ==
  /\ ClientTypeOK /\ scene \in Scenes /\ torn \in BOOLEAN
  /\ calls \in Seq(Call) /\ \A c \in Range(calls) : Sound(c)

\* The job that is polled for is the one that is followed, and a button that asks about a
\* job is disabled until it is answered.
Polling == Single(calls, "poll") /\ \A c \in Range(calls) : c.op = "poll" => c.job = ui.tracked.job /\ Tracking(ui)
Pressed == \A op \in Buttons : Single(calls, op) /\ (op \notin ui.busy => Absent(calls, op))

\* Who is signed in, with s stored, has asked for all that waits; who is not waits for one
\* answer at most, to a sign-in or a restoring.
Asked(u, s, S) ==
  /\ u.session # 0 => s = u.session /\ \A c \in S : c.op \notin {"me", "signin"} /\ c.token = u.session
  /\ u.session = 0 => \A c \in S : (c.op = "me" /\ c.token = s) \/ (c.op = "signin" /\ "auth" \in u.busy)
Account == ~torn =>
  /\ ui.of \in {0, ui.session} /\ Owned(ui.list, ui.session)
  /\ ui.session = 0 => ui.sel = 0 /\ ui.list = NoGoals /\ Len(calls) <= 1
  /\ Asked(ui, stored, Range(calls))

\* A panel shows another goal than the selected one only where a load crossed the
\* selection, or, for health, while the load for the selected goal is under way.
Apart(u, p) == u.sel # 0 /\ u.panel[p] \notin {0, u.sel}
PanelsAgree ==
  /\ Crossing(ui, calls) \subseteq crossed
  /\ ~torn => \A p \in Panels : Apart(ui, p) =>
       p \in crossed \/ (p = "health" /\ \E c \in Range(calls) : c.op = "daily" /\ About(c) = ui.sel)

ClientInv == ClientTypes /\ Polling /\ Pressed /\ Account /\ PanelsAgree

\* What a handler may make of the client's state: v, with request i answered and others sent.
Fine(i, v, sent) ==
  /\ v \in UI /\ sent \in Seq(Call) /\ \A c \in Range(sent) : Sound(c) /\ c.op # "poll"
  /\ torn' \in BOOLEAN /\ (torn => torn')
  /\ \A op \in Buttons :
       /\ Absent(sent, op) \/ (op \notin ui.busy /\ op \in v.busy /\ Single(sent, op))
       /\ op \in v.busy \/ Absent(Rest(i), op)
FineAccount(i, v, sent) == ~torn' =>
  /\ v.session # 0 => v.of \in {0, v.session} /\ Owned(v.list, v.session)
  /\ v.session = 0 => /\ ui.session = 0 => v.of = 0 /\ v.sel = 0 /\ v.list = NoGoals
                      /\ Len(Rest(i)) + Len(sent) <= 1
  /\ Asked(v, stored', Range(Rest(i)) \cup Range(sent))
FinePanels(i, v) == ui.sel # 0 =>
  /\ \A p \in Panels : v.panel[p] \in {0, ui.panel[p], ui.sel} \/ p \in Crossing(ui, calls)
  /\ ~torn' /\ i # 0 /\ calls[i].op = "daily" /\ About(calls[i]) = ui.sel => v.panel["health"] \in {0, ui.sel}

\* A panel is crossed where a request fills it for another goal than the selected one.
LEMMA CrossingIs ==
  ASSUME NEW u, NEW s, NEW p
  PROVE  p \in Crossing(u, s) <=> \E c \in Range(s) : About(c) # u.sel /\ p \in PanelsOf(c)
BY DEF Crossing, Range

\* Requests that fill no panel.
LEMMA PanelsOfIs ==
  ASSUME NEW c
  PROVE  /\ PanelsOf(c) \subseteq Panels
         /\ c.op \in {"poll", "me", "signin", "leave", "plan", "card", "milestone", "refresh", "cancel", "generate",
                      "replan", "confirm", "create", "delete", "restart"} => PanelsOf(c) = {}
BY DEF PanelsOf, Panels

\* A render changes what the new selection, or nobody's session, leaves out of date.
LEMMA RenderedIs ==
  ASSUME ui \in UI, NEW v \in UI
  PROVE  LET w == Rendered(ui, v) IN
         /\ w \in UI /\ w.session = v.session /\ w.tracked = v.tracked /\ w.busy = v.busy /\ w.page = v.page
         /\ v.session # 0 \/ ui.session = 0 => w.sel = v.sel /\ w.list = v.list /\ w.of = v.of
         /\ v.session = 0 /\ ui.session # 0 => w.sel = 0 /\ w.list = NoGoals /\ w.of = 0
         /\ w.sel = ui.sel => \A p \in Panels : w.panel[p] \in {0, v.panel[p]}
         /\ w.sel # ui.sel => \A p \in Panels \ {"health"} : w.panel[p] = 0
<1> DEFINE x == SignedOut(ui, v)
           w == Rendered(ui, v)
<1>1. /\ x \in UI /\ x.session = v.session /\ x.tracked = v.tracked /\ x.busy = v.busy /\ x.page = v.page
      /\ v.session # 0 \/ ui.session = 0 => x = v
      /\ v.session = 0 /\ ui.session # 0 => x.sel = 0 /\ x.list = NoGoals /\ x.of = 0
      /\ \A p \in Panels : x.panel[p] \in {0, v.panel[p]}
  <2>1. CASE v.session = 0 /\ ui.session # 0
    <3>1. x = [v EXCEPT !.list = NoGoals, !.of = 0, !.sel = 0, !.panel = [p \in Panels |-> 0]]
      BY <2>1 DEF SignedOut
    <3>2. NoGoals \in [Goals -> GoalStatus]
      BY DEF NoGoals, GoalStatus
    <3> DEFINE none == [p \in Panels |-> 0]
    <3>3. none \in [Panels -> Goals \cup {0}] /\ \A p \in Panels : none[p] = 0
      OBVIOUS
    <3>4. x = [v EXCEPT !.list = NoGoals, !.of = 0, !.sel = 0, !.panel = none]
      BY <3>1
    <3> HIDE DEF x, none
    <3>5. x \in UI
      BY <3>2, <3>3, <3>4 DEF UI
    <3> QED
      BY <2>1, <3>3, <3>4, <3>5 DEF UI
  <2>2. CASE ~(v.session = 0 /\ ui.session # 0)
    BY <2>2 DEF SignedOut
  <2> QED
    BY <2>1, <2>2
<1> HIDE DEF x
<1>2. w = IF x.sel = ui.sel THEN x ELSE [x EXCEPT !.panel = [p \in Panels |-> IF p = "health" THEN @[p] ELSE 0]]
  BY DEF Rendered, Reselected, x
<1> HIDE DEF w
<1>3. /\ w \in UI /\ w.session = x.session /\ w.tracked = x.tracked /\ w.busy = x.busy /\ w.page = x.page
      /\ w.sel = x.sel /\ w.list = x.list /\ w.of = x.of
      /\ x.sel = ui.sel => w.panel = x.panel
      /\ x.sel # ui.sel => \A p \in Panels \ {"health"} : w.panel[p] = 0
  BY <1>1, <1>2 DEF UI
<1> QED
  BY <1>1, <1>3 DEF w


\* The requests left when the i-th is answered, or all of them.
LEMMA RestIs ==
  ASSUME calls \in Seq(Call), NEW i \in {0} \cup DOMAIN calls
  PROVE  /\ Rest(i) \in Seq(Call) /\ Range(Rest(i)) \subseteq Range(calls)
         /\ Len(Rest(i)) = IF i = 0 THEN Len(calls) ELSE Len(calls) - 1
         /\ i = 0 => Rest(i) = calls
         /\ i # 0 => calls[i] \in Range(calls) /\ Range(calls) \subseteq Range(Rest(i)) \cup {calls[i]}
<1>1. CASE i = 0
  BY <1>1 DEF Rest
<1>2. CASE i # 0
  <2>1. i \in DOMAIN calls /\ Rest(i) = RemoveAt(calls, i)
    BY <1>2 DEF Rest, Without
  <2>2. Rest(i) \in Seq(Call) /\ Len(Rest(i)) = Len(calls) - 1
    BY <2>1, Removed
  <2> DEFINE op == "poll"
  <2>3. /\ Range(Rest(i)) \subseteq Range(calls) /\ Range(calls) \subseteq Range(Rest(i)) \cup {calls[i]}
        /\ (Single(calls, op) => Single(Rest(i), op))
    BY <2>1, RemovedKeeps
  <2>4. calls[i] \in Range(calls)
    BY <2>1 DEF Range
  <2> QED
    BY <1>2, <2>2, <2>3, <2>4
<1> QED
  BY <1>1, <1>2

\* No more of a kind are left than there were.
LEMMA RestSingle ==
  ASSUME calls \in Seq(Call), NEW i \in {0} \cup DOMAIN calls, NEW op, Single(calls, op)
  PROVE  /\ Single(Rest(i), op) /\ (i # 0 /\ calls[i].op = op => Absent(Rest(i), op))
         /\ Absent(calls, op) => Absent(Rest(i), op)
<1>1. CASE i = 0
  BY <1>1 DEF Rest
<1>2. CASE i # 0
  <2>1. i \in DOMAIN calls /\ Rest(i) = RemoveAt(calls, i)
    BY <1>2 DEF Rest, Without
  <2>2. /\ Single(Rest(i), op) /\ (calls[i].op = op => Absent(Rest(i), op))
        /\ Range(Rest(i)) \subseteq Range(calls)
    BY <2>1, RemovedKeeps
  <2>3. Absent(calls, op) => Absent(Rest(i), op)
    BY <2>2 DEF Absent, Range
  <2> QED
    BY <2>2, <2>3
<1> QED
  BY <1>1, <1>2

\* A request about the job that is tracked.
LEMMA AskJobIs ==
  ASSUME NEW u \in UI, NEW op \in Ops \ {"signin"}
  PROVE  /\ AskJob(u, op) \in Call /\ Sound(AskJob(u, op)) /\ AskJob(u, op).op = op /\ AskJob(u, op).token = u.session
         /\ AskJob(u, op).job = u.tracked.job
<1> DEFINE a == Ask(u, op, 0)
           c == AskJob(u, op)
<1>1. a \in Call /\ a.op = op /\ a.token = u.session /\ a.got = NoAnswer /\ a.then = "none"
  BY AskIs
<1>2. c = [a EXCEPT !.job = u.tracked.job] /\ u.tracked.job \in Jobs \cup {0}
  BY DEF AskJob, UI
<1> HIDE DEF a, c
<1>3. c \in Call /\ c.got = NoAnswer /\ c.op = op /\ c.token = u.session /\ c.then = "none" /\ c.job = u.tracked.job
  BY <1>1, <1>2 DEF Call
<1>4. Sound(c)
  BY <1>3, NewSound DEF Follows
<1> QED
  BY <1>3, <1>4 DEF c

\* The requests that wait after a step of the client.
LEMMA StepCalls ==
  ASSUME ClientTypes, Polling, Pressed, NEW i \in {0} \cup DOMAIN calls, NEW v, NEW sent, Fine(i, v, sent),
         Step(v, Rest(i), sent)
  PROVE  LET w == Rendered(ui, v)
             asked == Loads(ui, w)
         IN
         /\ w \in UI /\ ui \in UI /\ calls' \in Seq(Call)
         /\ Range(calls') \subseteq Range(Rest(i)) \cup Range(sent) \cup Range(asked) \cup {AskJob(w, "poll")}
         /\ \A c \in Range(Rest(i)) \cup Range(sent) \cup Range(asked) : c.op # "poll" => c \in Range(calls')
         /\ Single(calls', "poll") /\ \A op \in Buttons : Single(Rest(i) \o (sent \o asked), op) => Single(calls', op)
         /\ \A c \in Range(calls') : c.op = "poll" =>
              \/ ~PollRestarts(ui, w) /\ c \in Range(Rest(i))
              \/ Tracking(w) /\ c = AskJob(w, "poll")
         /\ w.session = 0 =>
              Range(calls') \subseteq Range(Rest(i)) \cup Range(sent) /\ Len(calls') <= Len(Rest(i)) + Len(sent)
<1> DEFINE w == Rendered(ui, v)
           asked == Loads(ui, w)
           more == sent \o asked
           all == Rest(i) \o more
<1>1. v \in UI /\ sent \in Seq(Call) /\ (\A c \in Range(sent) : c.op # "poll") /\ ui \in UI /\ calls \in Seq(Call)
  BY DEF Fine, ClientTypes, ClientTypeOK, UI
<1>2. w \in UI
  BY <1>1, RenderedIs
<1>3. calls' = Polls(ui, w, all)
  BY DEF Step
<1> HIDE DEF w
<1>4. /\ asked \in Seq(Call) /\ (\A c \in Range(asked) : c.op # "poll" /\ c.op \notin Buttons)
      /\ w.session = 0 => asked = <<>>
  BY <1>2, LoadsIs DEF Buttons
<1>5. AskJob(w, "poll") \in Call /\ AskJob(w, "poll").op = "poll"
  BY <1>2, AskJobIs, OpsAre
<1> HIDE DEF asked
<1>6. Rest(i) \in Seq(Call) /\ Single(Rest(i), "poll")
  BY <1>1, RestIs, RestSingle DEF Polling
<1>7. more \in Seq(Call) /\ Range(more) = Range(sent) \cup Range(asked) /\ Len(more) = Len(sent) + Len(asked)
  BY <1>1, <1>4, Union
<1>8. Absent(more, "poll")
  BY <1>1, <1>4, <1>7 DEF Absent, Range
<1> HIDE DEF more
<1>9. all \in Seq(Call) /\ Range(all) = Range(Rest(i)) \cup Range(more) /\ Len(all) = Len(Rest(i)) + Len(more)
  BY <1>6, <1>7, Union
<1>10. Single(all, "poll")
  BY <1>6, <1>7, <1>8, Joined
<1> HIDE DEF all
<1> DEFINE q == Polls(ui, w, all)
<1>11. /\ q \in Seq(Call) /\ Range(q) \subseteq Range(all) \cup {AskJob(w, "poll")}
       /\ \A c \in Range(all) : c.op # "poll" => c \in Range(q)
       /\ Single(q, "poll")
       /\ \A op \in Ops \ {"poll"} : Single(all, op) => Single(q, op)
       /\ \A c \in Range(q) : c.op = "poll" =>
            \/ ~PollRestarts(ui, w) /\ c \in Range(all)
            \/ Tracking(w) /\ c = AskJob(w, "poll")
       /\ ~Tracking(w) => Len(q) <= Len(all)
  BY <1>5, <1>9, <1>10, PollsIs
<1>12. calls' = q
  BY <1>3
<1> HIDE DEF q
<1>13. \A c \in Range(all) : c.op = "poll" => c \in Range(Rest(i))
  BY <1>8, <1>9 DEF Absent, Range
<1>14. w.session = 0 => ~Tracking(w) /\ asked = <<>>
  BY <1>4 DEF Tracking
<1>15. ASSUME w.session = 0
       PROVE  Range(q) \subseteq Range(Rest(i)) \cup Range(sent) /\ Len(q) <= Len(Rest(i)) + Len(sent)
  <2>1. Range(asked) = {} /\ Len(asked) = 0
    BY <1>14, <1>15 DEF Range
  <2>2. \A c \in Range(q) : c = AskJob(w, "poll") => c \in Range(all)
    BY <1>5, <1>11, <1>14, <1>15
  <2> QED
    BY <1>6, <1>7, <1>9, <1>11, <1>14, <1>15, <1>1, <2>1, <2>2
<1>16. Buttons \subseteq Ops \ {"poll"}
  BY DEF Buttons, Ops
<1>17. \A op \in Buttons : Single(all, op) => Single(q, op)
  BY <1>11, <1>16
<1>18. all = Rest(i) \o (sent \o asked)
  BY DEF all, more
<1> QED
  BY <1>1, <1>2, <1>7, <1>9, <1>11, <1>12, <1>13, <1>15, <1>17, <1>18 DEF w, asked


\* What a render leaves of what a handler has set.
LEMMA StepUi ==
  ASSUME ui \in UI, NEW v \in UI, NEW kept, NEW sent, Step(v, kept, sent)
  PROVE  LET w == Rendered(ui, v) IN
         /\ w \in UI /\ ui' \in UI /\ w.busy = v.busy /\ w.tracked = v.tracked /\ w.session = v.session
         /\ ui'.session = w.session /\ ui'.page = w.page /\ ui'.sel = w.sel /\ ui'.list = w.list /\ ui'.of = w.of
         /\ ui'.panel = w.panel /\ ui'.tracked = w.tracked
         /\ w.busy \subseteq ui'.busy /\ ui'.busy \subseteq w.busy \cup {"board", "report"}
<1> DEFINE w == Rendered(ui, v)
           loading == {(sent \o Loads(ui, w))[k].op : k \in DOMAIN (sent \o Loads(ui, w))} \cap {"board", "report"}
<1>1. w \in UI /\ w.busy = v.busy /\ w.tracked = v.tracked /\ w.session = v.session
  BY RenderedIs
<1>2. ui' = [w EXCEPT !.busy = @ \cup loading]
  BY DEF Step
<1>3. loading \subseteq {"board", "report"} /\ {"board", "report"} \subseteq Flags
  BY DEF Flags
<1> HIDE DEF w, loading
<1>4. ui' \in UI /\ ui'.busy = w.busy \cup loading
  BY <1>1, <1>2, <1>3 DEF UI
<1>5. /\ ui'.session = w.session /\ ui'.page = w.page /\ ui'.sel = w.sel /\ ui'.list = w.list /\ ui'.of = w.of
      /\ ui'.panel = w.panel /\ ui'.tracked = w.tracked
  BY <1>1, <1>2 DEF UI
<1> QED
  BY <1>1, <1>3, <1>4, <1>5 DEF w

\* Only panels are crossed.
LEMMA CrossingPanels == ASSUME NEW u, NEW s PROVE Crossing(u, s) \subseteq Panels
BY CrossingIs, PanelsOfIs

\* A step of the client keeps the types, and every request sound.
LEMMA StepTypes ==
  ASSUME ClientInv, NEW i \in {0} \cup DOMAIN calls, NEW v, NEW sent, Fine(i, v, sent), Step(v, Rest(i), sent),
         UNCHANGED <<scene, server>>, stored' \in Tokens \cup {0}, latest' \in Jobs \cup {0}, taken' \subseteq Jobs
  PROVE  ClientTypes'
<1> DEFINE w == Rendered(ui, v)
           asked == Loads(ui, w)
           ask == AskJob(w, "poll")
<1>1. ClientTypes /\ Polling /\ Pressed /\ v \in UI /\ ui \in UI
  BY DEF ClientInv, Fine, ClientTypes, ClientTypeOK, UI
<1>2. /\ w \in UI /\ calls' \in Seq(Call)
      /\ Range(calls') \subseteq Range(Rest(i)) \cup Range(sent) \cup Range(asked) \cup {ask}
  BY <1>1, StepCalls
<1>3. ui' \in UI
  BY <1>1, StepUi
<1>4. crossed' \subseteq Panels
  <2>1. crossed' = Crossing(w, calls') \cup {p \in crossed \cup Crossing(ui, calls) : w.panel[p] \notin {0, w.sel}}
    BY DEF Step
  <2>2. crossed \subseteq Panels
    BY <1>1 DEF ClientTypes, ClientTypeOK
  <2> HIDE DEF w
  <2> QED
    BY <2>1, <2>2, CrossingPanels
<1> HIDE DEF w, ask
<1>5. \A c \in Range(asked) \cup {ask} : Sound(c)
  BY <1>2, LoadsIs, AskJobIs, OpsAre DEF ask
<1>6. \A c \in Range(Rest(i)) \cup Range(sent) : Sound(c)
  <2>1. Range(Rest(i)) \subseteq Range(calls)
    BY <1>1, RestIs DEF ClientTypes
  <2> QED
    BY <1>1, <2>1 DEF ClientTypes, Fine
<1> HIDE DEF asked
<1>7. \A c \in Range(calls') : Sound(c)
  BY <1>2, <1>5, <1>6
<1>8. \A c : Sound(c)' <=> Sound(c)
  BY DEF Sound, Carried, Follows, OwnGoals, Owned, server
<1>9. ClientTypeOK'
  BY <1>1, <1>3, <1>4 DEF ClientTypes, ClientTypeOK, server, UI
<1>10. scene' \in Scenes /\ torn' \in BOOLEAN
  BY <1>1 DEF ClientTypes, Fine
<1> QED
  BY <1>2, <1>7, <1>8, <1>9, <1>10 DEF ClientTypes

\* A step of the client keeps one polling at most, of the job that is tracked.
LEMMA StepPolling ==
  ASSUME ClientInv, NEW i \in {0} \cup DOMAIN calls, NEW v, NEW sent, Fine(i, v, sent), Step(v, Rest(i), sent)
  PROVE  Polling'
<1> DEFINE w == Rendered(ui, v)
<1>1. ClientTypes /\ Polling /\ Pressed /\ v \in UI /\ ui \in UI
  BY DEF ClientInv, Fine, ClientTypes, ClientTypeOK, UI
<1>2. /\ w \in UI /\ Single(calls', "poll")
      /\ \A c \in Range(calls') : c.op = "poll" =>
           \/ ~PollRestarts(ui, w) /\ c \in Range(Rest(i))
           \/ Tracking(w) /\ c = AskJob(w, "poll")
  BY <1>1, StepCalls
<1>3. ui'.session = w.session /\ ui'.tracked = w.tracked
  BY <1>1, StepUi
<1>4. Range(Rest(i)) \subseteq Range(calls)
  BY <1>1, RestIs DEF ClientTypes
<1> HIDE DEF w
<1>5. Tracking(w) => Tracking(ui)'
  BY <1>3 DEF Tracking
<1>6. ~PollRestarts(ui, w) => ui'.tracked = ui.tracked /\ (Tracking(ui) => Tracking(ui)')
  BY <1>3 DEF Tracking, PollRestarts
<1>7. ASSUME NEW c \in Range(calls'), c.op = "poll" PROVE c.job = ui'.tracked.job /\ Tracking(ui)'
  <2>1. CASE ~PollRestarts(ui, w) /\ c \in Range(Rest(i))
    BY <1>1, <1>4, <1>6, <1>7, <2>1 DEF Polling
  <2>2. CASE Tracking(w) /\ c = AskJob(w, "poll")
    BY <1>2, <1>3, <1>5, <2>2, AskJobIs, OpsAre
  <2> QED
    BY <1>2, <1>7, <2>1, <2>2
<1> QED
  BY <1>2, <1>7 DEF Polling

\* A step of the client keeps one request of each of the job's buttons, while its flag is set.
LEMMA StepPressed ==
  ASSUME ClientInv, NEW i \in {0} \cup DOMAIN calls, NEW v, NEW sent, Fine(i, v, sent), Step(v, Rest(i), sent)
  PROVE  Pressed'
<1> DEFINE w == Rendered(ui, v)
           asked == Loads(ui, w)
<1>1. ClientTypes /\ Polling /\ Pressed /\ v \in UI /\ ui \in UI
  BY DEF ClientInv, Fine, ClientTypes, ClientTypeOK, UI
<1>2. /\ w \in UI
      /\ Range(calls') \subseteq Range(Rest(i)) \cup Range(sent) \cup Range(asked) \cup {AskJob(w, "poll")}
      /\ \A op \in Buttons : Single(Rest(i) \o (sent \o asked), op) => Single(calls', op)
  BY <1>1, StepCalls
<1>3. v.busy \subseteq ui'.busy
  BY <1>1, StepUi
<1> HIDE DEF w
<1>4. asked \in Seq(Call) /\ \A c \in Range(asked) : c.op \notin Buttons
  BY <1>2, LoadsIs DEF Buttons
<1> HIDE DEF asked
<1>5. Rest(i) \in Seq(Call) /\ sent \in Seq(Call)
  BY <1>1, RestIs DEF ClientTypes, Fine
<1> SUFFICES ASSUME NEW op \in Buttons PROVE Single(calls, op)' /\ (op \notin ui'.busy => Absent(calls, op)')
  BY DEF Pressed
<1>6. /\ Single(calls, op) /\ (op \notin ui.busy => Absent(calls, op))
      /\ Absent(sent, op) \/ (op \notin ui.busy /\ op \in v.busy /\ Single(sent, op))
      /\ op \in v.busy \/ Absent(Rest(i), op)
  BY <1>1 DEF Pressed, Fine
<1>7. Single(Rest(i), op) /\ (Absent(calls, op) => Absent(Rest(i), op))
  BY <1>1, <1>6, RestSingle DEF ClientTypes
<1>8. Absent(asked, op)
  BY <1>4 DEF Absent, Range
<1> DEFINE more == sent \o asked
<1>9. more \in Seq(Call)
  BY <1>4, <1>5
<1>10. (Absent(sent, op) => Absent(more, op)) /\ (Single(sent, op) => Single(more, op))
  BY <1>4, <1>5, <1>8, Joined
<1> HIDE DEF more
<1>11. Single(Rest(i) \o more, op)
  <2>1. CASE Absent(sent, op)
    BY <1>5, <1>7, <1>9, <1>10, <2>1, Joined
  <2>2. CASE op \notin ui.busy /\ Single(sent, op)
    BY <1>5, <1>6, <1>7, <1>9, <1>10, <2>2, Joined
  <2> QED
    BY <1>6, <2>1, <2>2
<1>12. Single(calls', op)
  BY <1>2, <1>11 DEF more
<1>13. ASSUME op \notin ui'.busy PROVE Absent(calls', op)
  <2>1. op \notin v.busy /\ Absent(Rest(i), op) /\ Absent(sent, op)
    BY <1>3, <1>6, <1>13
  <2>2. \A c \in Range(Rest(i)) \cup Range(sent) \cup Range(asked) : c.op # op
    BY <1>8, <2>1 DEF Absent, Range
  <2>3. AskJob(w, "poll").op = "poll" /\ op # "poll"
    BY <1>2, AskJobIs, OpsAre DEF Buttons
  <2>4. \A c \in Range(calls') : c.op # op
    BY <1>2, <2>2, <2>3
  <2> QED
    BY <2>4 DEF Absent, Range
<1> QED
  BY <1>12, <1>13 DEF Single, Absent


\* The account, after a step of the client.
LEMMA StepAccount ==
  ASSUME ClientInv, NEW i \in {0} \cup DOMAIN calls, NEW v, NEW sent, Fine(i, v, sent), FineAccount(i, v, sent),
         Step(v, Rest(i), sent), UNCHANGED server
  PROVE  Account'
<1> SUFFICES ASSUME ~torn' PROVE
      /\ ui'.of \in {0, ui'.session} /\ Owned(ui.list, ui.session)'
      /\ ui'.session = 0 => ui'.sel = 0 /\ ui'.list = NoGoals /\ Len(calls') <= 1
      /\ Asked(ui', stored', Range(calls'))
  BY DEF Account, Asked
<1> DEFINE w == Rendered(ui, v)
           asked == Loads(ui, w)
           ask == AskJob(w, "poll")
           old == Range(Rest(i)) \cup Range(sent)
<1>1. ClientTypes /\ Polling /\ Pressed /\ v \in UI /\ ui \in UI
  BY DEF ClientInv, Fine, ClientTypes, ClientTypeOK, UI
<1>2. /\ w \in UI
      /\ Range(calls') \subseteq old \cup Range(asked) \cup {ask}
      /\ w.session = 0 => Range(calls') \subseteq old /\ Len(calls') <= Len(Rest(i)) + Len(sent)
  BY <1>1, StepCalls
<1>3. /\ ui'.session = v.session /\ ui'.sel = w.sel /\ ui'.list = w.list /\ ui'.of = w.of /\ v.busy \subseteq ui'.busy
      /\ w.session = v.session
  BY <1>1, StepUi
<1>4. /\ v.session # 0 \/ ui.session = 0 => w.sel = v.sel /\ w.list = v.list /\ w.of = v.of
      /\ v.session = 0 /\ ui.session # 0 => w.sel = 0 /\ w.list = NoGoals /\ w.of = 0
  BY <1>1, RenderedIs
<1>5. /\ v.session # 0 => v.of \in {0, v.session} /\ Owned(v.list, v.session)
      /\ v.session = 0 => /\ ui.session = 0 => v.of = 0 /\ v.sel = 0 /\ v.list = NoGoals
                          /\ Len(Rest(i)) + Len(sent) <= 1
      /\ Asked(v, stored', old)
  BY DEF FineAccount
<1> HIDE DEF w
<1>6. /\ ask.token = w.session /\ ask.op = "poll"
      /\ \A c \in Range(asked) : c.token = w.session /\ c.op \notin {"me", "signin"}
  BY <1>2, LoadsIs, AskJobIs, OpsAre
<1> HIDE DEF asked, ask, old
<1>7. CASE v.session # 0
  <2>1. Owned(ui.list, ui.session)'
    BY <1>3, <1>4, <1>5, <1>7 DEF Owned, server
  <2>2. \A c \in Range(calls') : c.op \notin {"me", "signin"} /\ c.token = v.session
    BY <1>2, <1>3, <1>5, <1>6, <1>7 DEF Asked
  <2> QED
    BY <1>3, <1>4, <1>5, <1>7, <2>1, <2>2 DEF Asked
<1>8. CASE v.session = 0
  <2>1. w.sel = 0 /\ w.list = NoGoals /\ w.of = 0
    BY <1>4, <1>5, <1>8
  <2>2. Owned(ui.list, ui.session)'
    BY <1>3, <2>1 DEF Owned, NoGoals
  <2>3. Len(Rest(i)) \in Nat /\ Len(sent) \in Nat /\ calls' \in Seq(Call)
    BY <1>1, RestIs, StepCalls DEF Fine, ClientTypes
  <2>4. Len(calls') <= 1
    BY <1>2, <1>3, <1>5, <1>8, <2>3
  <2>5. Asked(ui', stored', Range(calls'))
    BY <1>2, <1>3, <1>5, <1>8 DEF Asked
  <2> QED
    BY <1>3, <1>8, <2>1, <2>2, <2>4, <2>5
<1> QED
  BY <1>7, <1>8

\* What the panels show, after a step of the client.
LEMMA StepShown ==
  ASSUME ClientInv, NEW i \in {0} \cup DOMAIN calls, NEW v, NEW sent, Fine(i, v, sent), FinePanels(i, v),
         Step(v, Rest(i), sent), Account'
  PROVE  PanelsAgree'
<1> DEFINE w == Rendered(ui, v)
           asked == Loads(ui, w)
           later == {p \in crossed \cup Crossing(ui, calls) : w.panel[p] \notin {0, w.sel}}
<1>1. ClientTypes /\ Polling /\ Pressed /\ PanelsAgree /\ v \in UI /\ ui \in UI /\ calls \in Seq(Call)
  BY DEF ClientInv, Fine, ClientTypes, ClientTypeOK, UI
<1>2. /\ w \in UI
      /\ \A c \in Range(Rest(i)) \cup Range(asked) : c.op # "poll" => c \in Range(calls')
  BY <1>1, StepCalls
<1>3. ui'.session = w.session /\ ui'.sel = w.sel /\ ui'.panel = w.panel
  BY <1>1, StepUi
<1>4. /\ w.sel = ui.sel => \A p \in Panels : w.panel[p] \in {0, v.panel[p]}
      /\ w.sel # ui.sel => \A p \in Panels \ {"health"} : w.panel[p] = 0
  BY <1>1, RenderedIs
<1>5. crossed' = Crossing(w, calls') \cup later
  BY DEF Step
<1> HIDE DEF w
<1>6. Crossing(ui, calls)' \subseteq crossed'
  BY <1>3, <1>5 DEF Crossing
<1>7. ASSUME ~torn', NEW p \in Panels, Apart(ui, p)'
      PROVE  p \in crossed' \/ (p = "health" /\ \E c \in Range(calls') : c.op = "daily" /\ About(c) = ui'.sel)
  <2>1. w.sel # 0 /\ w.panel[p] \notin {0, w.sel}
    BY <1>3, <1>7 DEF Apart
  <2>2. CASE w.sel # ui.sel
    <3>1. p = "health"
      BY <1>4, <2>1, <2>2
    <3>2. w.session # 0
      BY <1>3, <1>7, <2>1 DEF Account
    <3>3. PICK c \in Range(asked) : c.op = "daily" /\ c.goal = w.sel
      BY <1>2, <2>2, <3>2, LoadsIs
    <3>4. c \in Range(calls') /\ About(c) = w.sel
      BY <1>2, <2>1, <3>3 DEF About
    <3> QED
      BY <1>3, <3>1, <3>3, <3>4
  <2>3. CASE w.sel = ui.sel
    <3>1. w.panel[p] = v.panel[p]
      BY <1>4, <2>1, <2>3
    <3>2. CASE p \in Crossing(ui, calls)
      BY <1>5, <2>1, <3>2
    <3>3. CASE p \notin Crossing(ui, calls)
      <4>1. v.panel[p] = ui.panel[p]
        BY <2>1, <2>3, <3>1, <3>3 DEF FinePanels
      <4>2. Apart(ui, p) /\ ~torn
        BY <1>7, <2>1, <2>3, <3>1, <4>1 DEF Apart, Fine
      <4>3. CASE p \in crossed
        BY <1>5, <2>1, <4>3
      <4>4. CASE p \notin crossed
        <5>1. p = "health" /\ \E c \in Range(calls) : c.op = "daily" /\ About(c) = ui.sel
          BY <1>1, <4>2, <4>4 DEF PanelsAgree
        <5>2. PICK c \in Range(calls) : c.op = "daily" /\ About(c) = ui.sel
          BY <5>1
        <5>3. i # 0 => c # calls[i]
          BY <1>7, <2>1, <2>3, <3>1, <5>1, <5>2 DEF FinePanels
        <5>4. c \in Range(Rest(i))
          BY <1>1, <5>3, RestIs
        <5> QED
          BY <1>2, <1>3, <2>3, <5>1, <5>2, <5>4
      <4> QED
        BY <4>3, <4>4
    <3> QED
      BY <3>2, <3>3
  <2> QED
    BY <2>2, <2>3
<1> QED
  BY <1>6, <1>7 DEF PanelsAgree

\* The client's state after a step of it is as good as before.
LEMMA StepInv ==
  ASSUME ClientInv, NEW i \in {0} \cup DOMAIN calls, NEW v, NEW sent, Fine(i, v, sent), FineAccount(i, v, sent),
         FinePanels(i, v), Step(v, Rest(i), sent), UNCHANGED <<scene, server>>,
         stored' \in Tokens \cup {0}, latest' \in Jobs \cup {0}, taken' \subseteq Jobs
  PROVE  ClientInv'
<1>1. ClientTypes'
  BY StepTypes
<1>2. Polling' /\ Pressed'
  BY StepPolling, StepPressed
<1>3. Account'
  BY StepAccount
<1>4. PanelsAgree'
  BY <1>3, StepShown
<1> QED
  BY <1>1, <1>2, <1>3, <1>4 DEF ClientInv

\* Among some numbers up to n there is a least one and a greatest one.
LEMMA Extremes ==
  ASSUME NEW n \in Nat, NEW S, S \subseteq 1..n, S # {}
  PROVE  /\ \E k \in S : \A m \in S : k <= m
         /\ \E k \in S : \A m \in S : m <= k
<1>1. \E k \in S : \A m \in S : k <= m
  <2>1. S \subseteq Nat
    OBVIOUS
  <2>2. PICK x \in S : \A y \in S : <<y, x>> \notin OpToRel(<, Nat)
    BY <2>1, WFMin, NatLessThanWellFounded
  <2>3. \A y \in S : ~(y < x)
    BY <2>1, <2>2 DEF OpToRel
  <2> QED
    BY <2>1, <2>3
<1>2. \E k \in S : \A m \in S : m <= k
  <2> DEFINE T == {n - m : m \in S}
  <2>1. T \subseteq Nat /\ T # {}
    <3>1. \A m \in S : n - m \in Nat
      OBVIOUS
    <3> QED
      BY <3>1, Zenon
  <2>2. PICK x \in T : \A y \in T : <<y, x>> \notin OpToRel(<, Nat)
    <3> HIDE DEF T
    <3> QED
      BY <2>1, WFMin, NatLessThanWellFounded
  <2>3. \A y \in T : ~(y < x)
    <3> HIDE DEF T
    <3> QED
      BY <2>1, <2>2 DEF OpToRel
  <2>4. PICK k \in S : x = n - k
    BY <2>2
  <2>5. \A m \in S : m <= k
    <3> TAKE m \in S
    <3>1. n - m \in T
      OBVIOUS
    <3>2. ~(n - m < n - k)
      BY <2>3, <2>4, <3>1
    <3> QED
      BY <3>2
  <2> QED
    BY <2>5
<1> QED
  BY <1>1, <1>2

\* The next new number is a new one, and the goal chosen for the user is one of the list.
LEMMA NextIs ==
  /\ \A S \in SUBSET Goals : S # {} => Next1(S) \in S
  /\ \A S \in SUBSET Jobs : S # {} => Next1(S) \in S
<1>1. ASSUME NEW n \in Nat, NEW S \in SUBSET (1..n), S # {} PROVE Next1(S) \in S
  <2>1. \E k \in S : \A m \in S : k <= m
    BY <1>1, Extremes
  <2> QED
    BY <2>1 DEF Next1
<1> QED
  BY <1>1, WebClientAssumption DEF Goals, Jobs
\* The goal that is selected by default is in the list, or there is none.
LEMMA DefaultIs ==
  ASSUME NEW list \in [Goals -> GoalStatus]
  PROVE  getDefaultGoalId(list) \in Goals \cup {0}
<1> DEFINE of(S) == {g \in Goals : list[g] \in S}
           first(S) == CHOOSE g \in S : \A h \in S : h <= g
<1>1. getDefaultGoalId(list) =
        IF of({"ACTIVE"}) # {} THEN first(of({"ACTIVE"}))
        ELSE IF of({"WAITING_CONFIRMATION"}) # {} THEN first(of({"WAITING_CONFIRMATION"}))
        ELSE IF of(GoalStatus \ {"none"}) # {} THEN first(of(GoalStatus \ {"none"})) ELSE 0
  BY DEF getDefaultGoalId
<1>2. ASSUME NEW S, of(S) # {} PROVE first(of(S)) \in Goals
  <2>1. of(S) \subseteq 1..MaxGoals /\ of(S) \subseteq Goals
    BY DEF Goals
  <2>2. \E k \in of(S) : \A m \in of(S) : m <= k
    <3> HIDE DEF of
    <3> QED
      BY <1>2, <2>1, Extremes, WebClientAssumption
  <2> HIDE DEF of
  <2>3. first(of(S)) \in of(S)
    BY <2>2
  <2> QED
    BY <2>1, <2>3
<1> HIDE DEF of, first
<1> QED
  BY <1>1, <1>2

\* What the invariant says of the client's state.
LEMMA InvSays ==
  ASSUME ClientInv
  PROVE  /\ ClientTypes /\ Polling /\ Pressed /\ Account /\ PanelsAgree
         /\ ui \in UI /\ calls \in Seq(Call) /\ \A c \in Range(calls) : Sound(c)
         /\ stored \in Tokens \cup {0} /\ latest \in Jobs \cup {0} /\ taken \subseteq Jobs /\ torn \in BOOLEAN
BY DEF ClientInv, ClientTypes, ClientTypeOK, UI

\* A request that waits is one of those that wait.
LEMMA InDomain == ASSUME NEW i \in DOMAIN calls PROVE calls[i] \in Range(calls)
BY DEF Range

\* What the user does: nothing is answered, and who is signed in asks for more.
LEMMA ActInv ==
  ASSUME ClientInv, NEW v \in UI, NEW sent \in Seq(Call), v.session = ui.session, v.of = ui.of, v.list = ui.list,
         v.panel = ui.panel, ui.busy \subseteq v.busy, ui.session = 0 /\ ~torn => v.sel = 0,
         \A c \in Range(sent) : /\ Sound(c) /\ c.op \notin {"poll", "me", "signin"}
                                /\ ui.session # 0 /\ c.token = ui.session,
         \A op \in Buttons : Absent(sent, op) \/ (op \notin ui.busy /\ op \in v.busy /\ Single(sent, op)),
         Len(sent) = 0 \/ ui.session # 0,
         Step(v, calls, sent), UNCHANGED <<scene, server, stored, latest, taken, torn>>
  PROVE  ClientInv'
<1>1. ClientTypes /\ Polling /\ Pressed /\ Account /\ ui \in UI /\ calls \in Seq(Call) /\ torn \in BOOLEAN
      /\ stored \in Tokens \cup {0} /\ latest \in Jobs \cup {0} /\ taken \subseteq Jobs
  BY InvSays
<1>2. Rest(0) = calls /\ 0 \in {0} \cup DOMAIN calls
  BY DEF Rest
<1>3. Fine(0, v, sent)
  BY <1>1, <1>2 DEF Fine, Pressed
<1>4. FineAccount(0, v, sent)
  <2>1. Len(calls) \in Nat
    BY <1>1
  <2> SUFFICES ASSUME ~torn PROVE
        /\ v.session # 0 => v.of \in {0, v.session} /\ Owned(v.list, v.session)
        /\ v.session = 0 => /\ ui.session = 0 => v.of = 0 /\ v.sel = 0 /\ v.list = NoGoals
                            /\ Len(calls) + Len(sent) <= 1
        /\ Asked(v, stored, Range(calls) \cup Range(sent))
    BY <1>2 DEF FineAccount
  <2>2. Asked(v, stored, Range(calls) \cup Range(sent))
    BY <1>1 DEF Account, Asked
  <2> QED
    BY <1>1, <2>1, <2>2 DEF Account
<1>5. FinePanels(0, v)
  BY DEF FinePanels
<1> QED
  BY <1>1, <1>2, <1>3, <1>4, <1>5, StepInv

\* An act that asks for nothing, and one that asks for one thing.
LEMMA NothingSent ==
  /\ <<>> \in Seq(Call) /\ Range(<<>>) = {} /\ Len(<<>>) = 0 /\ \A op : Absent(<<>>, op) /\ Single(<<>>, op)
BY DEF Range, Absent, Single
\* Sending one request.
LEMMA OneSent ==
  ASSUME NEW c \in Call
  PROVE  /\ <<c>> \in Seq(Call) /\ Range(<<c>>) = {c} /\ Len(<<c>>) = 1 /\ \A op : Single(<<c>>, op)
         /\ \A op : c.op # op => Absent(<<c>>, op)
BY DEF Range, Absent, Single
\* An act that sends one request keeps the invariant.
LEMMA AskInv ==
  ASSUME ClientInv, NEW v \in UI, NEW c \in Call, Sound(c), c.op \notin {"poll", "me", "signin"}, c.token = ui.session,
         c.op \in Buttons => c.op \notin ui.busy /\ c.op \in v.busy, ui.session # 0,
         v.session = ui.session, v.of = ui.of, v.list = ui.list, v.panel = ui.panel, ui.busy \subseteq v.busy,
         Step(v, calls, <<c>>), UNCHANGED <<scene, server, stored, latest, taken, torn>>
  PROVE  ClientInv'
<1> DEFINE sent == <<c>>
<1>1. /\ sent \in Seq(Call) /\ Range(sent) = {c} /\ Len(sent) = 1
      /\ (\A op : Single(sent, op)) /\ (\A op : c.op # op => Absent(sent, op))
  BY OneSent
<1>2. Step(v, calls, sent)
  OBVIOUS
<1> HIDE DEF sent
<1>3. \A op \in Buttons : Absent(sent, op) \/ (op \notin ui.busy /\ op \in v.busy /\ Single(sent, op))
  BY <1>1
<1> QED
  BY <1>1, <1>2, <1>3, ActInv

\* A flag is set or taken back.
LEMMA FlagIs ==
  ASSUME NEW u \in UI, NEW f \in Flags
  PROVE  /\ Begun(u, f) \in UI /\ f \in Begun(u, f).busy /\ u.busy \subseteq Begun(u, f).busy
         /\ Begun(u, f).session = u.session /\ Begun(u, f).of = u.of /\ Begun(u, f).list = u.list
         /\ Begun(u, f).panel = u.panel /\ Begun(u, f).tracked = u.tracked /\ Begun(u, f).sel = u.sel
BY DEF Begun, UI

\* Clearing a flag changes nothing else.
LEMMA DoneIs ==
  ASSUME NEW u \in UI, NEW f
  PROVE  /\ Done(u, f) \in UI /\ Done(u, f).busy = u.busy \ {f}
         /\ Done(u, f).session = u.session /\ Done(u, f).of = u.of /\ Done(u, f).list = u.list
         /\ Done(u, f).panel = u.panel /\ Done(u, f).tracked = u.tracked /\ Done(u, f).sel = u.sel
BY DEF Done, UI

\* Selecting a goal keeps the invariant.
LEMMA SelectInv == ASSUME ClientInv, NEW g \in Goals, Select(g) PROVE ClientInv'
<1> DEFINE v == [ui EXCEPT !.sel = g, !.created = [goal |-> g, status |-> ui.list[g]]]
<1>1. Account /\ ui \in UI /\ ui.list[g] \in GoalStatus
  BY InvSays DEF UI
<1>2. v \in UI
  BY <1>1 DEF UI
<1>3. v.session = ui.session /\ v.of = ui.of /\ v.list = ui.list /\ v.panel = ui.panel /\ v.busy = ui.busy
  BY <1>1 DEF UI
<1>4. Step(v, calls, <<>>) /\ UNCHANGED <<scene, server, stored, latest, taken, torn>> /\ ui.list[g] # "none"
  BY DEF Select, Quiet, Shows
<1>5. ui.session = 0 /\ ~torn => v.sel = 0
  BY <1>1, <1>4 DEF Account, NoGoals
<1> HIDE DEF v
<1> QED
  BY <1>2, <1>3, <1>4, <1>5, NothingSent, ActInv

\* Turning to another page keeps it.
LEMMA PageInv == ASSUME ClientInv, NEW p \in Pages, setActivePage(p) PROVE ClientInv'
<1> DEFINE v == [ui EXCEPT !.page = p]
<1>1. Account /\ ui \in UI
  BY InvSays
<1>2. /\ v \in UI /\ v.session = ui.session /\ v.of = ui.of /\ v.list = ui.list /\ v.panel = ui.panel
      /\ v.busy = ui.busy /\ v.sel = ui.sel
  BY <1>1 DEF UI
<1>3. Step(v, calls, <<>>) /\ UNCHANGED <<scene, server, stored, latest, taken, torn>>
  BY DEF setActivePage, Quiet
<1>4. ui.session = 0 /\ ~torn => v.sel = 0
  BY <1>1, <1>2 DEF Account
<1> HIDE DEF v
<1> QED
  BY <1>2, <1>3, <1>4, NothingSent, ActInv

\* A request by a button that is disabled meanwhile.
LEMMA PressedInv ==
  ASSUME ClientInv, NEW f \in Flags, NEW c \in Call, Sound(c), c.op = f, f \notin {"poll", "me", "signin"},
         c.token = ui.session, ui.session # 0, f \notin ui.busy, Step(Begun(ui, f), calls, <<c>>),
         UNCHANGED <<scene, server, stored, latest, taken, torn>>
  PROVE  ClientInv'
<1> DEFINE v == Begun(ui, f)
<1>1. ui \in UI
  BY InvSays
<1>2. /\ v \in UI /\ f \in v.busy /\ ui.busy \subseteq v.busy /\ v.session = ui.session /\ v.of = ui.of
      /\ v.list = ui.list /\ v.panel = ui.panel
  BY <1>1, FlagIs
<1>3. Step(v, calls, <<c>>)
  OBVIOUS
<1> HIDE DEF v
<1> QED
  BY <1>2, <1>3, AskInv

\* So does a button that asks for something about a goal.
LEMMA PressInv ==
  ASSUME ClientInv, NEW f \in Flags \cap Ops, f \notin {"poll", "me", "signin"}, NEW g \in Goals \cup {0}, Press(f, g)
  PROVE  ClientInv'
<1> DEFINE c == Ask(ui, f, g)
<1>1. ui \in UI
  BY InvSays
<1>2. c \in Call /\ Sound(c) /\ c.op = f /\ c.token = ui.session
  BY <1>1, AskIs, AskSound
<1>3. /\ ui.session # 0 /\ f \notin ui.busy /\ Step(Begun(ui, f), calls, <<c>>)
      /\ UNCHANGED <<scene, server, stored, latest, taken, torn>>
  BY DEF Press, Quiet, Pressable
<1> HIDE DEF c
<1> QED
  BY <1>2, <1>3, PressedInv

\* A request that no flag disables.
LEMMA AgainInv ==
  ASSUME ClientInv, NEW name, NEW op \in Ops \ {"poll", "me", "signin", "refresh", "cancel"}, Again(name, op)
  PROVE  ClientInv'
<1> DEFINE c == Ask(ui, op, ui.sel)
<1>1. ui \in UI /\ ui.sel \in Goals \cup {0}
  BY InvSays DEF UI
<1>2. c \in Call /\ Sound(c) /\ c.op = op /\ c.token = ui.session
  BY <1>1, AskIs, AskSound
<1>3. ui.session # 0 /\ Step(ui, calls, <<c>>) /\ UNCHANGED <<scene, server, stored, latest, taken, torn>>
  BY DEF Again, Quiet
<1> HIDE DEF c
<1> QED
  BY <1>1, <1>2, <1>3, AskInv DEF Buttons

\* The buttons of the plan, of the settlement and of the trend report keep it.
LEMMA ButtonsInv ==
  ASSUME ClientInv, handleGeneratePlan \/ handleRequestReplan \/ handleConfirmPlan \/ handleSettleSelectedGoal
                    \/ handleGenerateReportArtifact
  PROVE  ClientInv'
<1>1. ui.sel \in Goals \cup {0} /\ Target(ui) \in Goals \cup {0}
  BY InvSays DEF UI, Target
<1>2. {"generate", "replan", "confirm", "settle", "trend"} \subseteq Flags \cap Ops
  BY DEF Flags, Ops
<1>3. CASE handleGeneratePlan
  BY <1>1, <1>2, <1>3, PressInv DEF handleGeneratePlan
<1>4. CASE handleRequestReplan
  BY <1>1, <1>2, <1>4, PressInv DEF handleRequestReplan
<1>5. CASE handleConfirmPlan
  BY <1>1, <1>2, <1>5, PressInv DEF handleConfirmPlan
<1>6. CASE handleSettleSelectedGoal
  BY <1>1, <1>2, <1>6, PressInv DEF handleSettleSelectedGoal
<1>7. CASE handleGenerateReportArtifact
  BY <1>1, <1>2, <1>7, PressInv DEF handleGenerateReportArtifact
<1> QED
  BY <1>3, <1>4, <1>5, <1>6, <1>7

\* Creating a goal and starting one again keep it.
LEMMA FormsInv ==
  ASSUME ClientInv, handleRestartGoal \/ handleCreateGoal PROVE ClientInv'
<1>1. ui \in UI /\ ui.sel \in Goals \cup {0} /\ ui.panel["report"] \in Goals \cup {0}
  BY InvSays DEF UI, Panels
<1>2. {"restart", "create"} \subseteq Flags \cap Ops
  BY DEF Flags, Ops
<1>3. CASE handleRestartGoal
  <2> DEFINE a == Ask(ui, "restart", ui.sel)
             c == [Ask(ui, "restart", ui.sel) EXCEPT !.pref = ui.panel["report"]]
  <2>1. a \in Call /\ a.op = "restart" /\ a.token = ui.session
    BY <1>1, AskIs, OpsAre
  <2>2. c \in Call /\ Sound(c)
    BY <1>1, AskPref, OpsAre
  <2>3. c = [a EXCEPT !.pref = ui.panel["report"]]
    OBVIOUS
  <2>4. /\ ui.session # 0 /\ "restart" \notin ui.busy /\ Step(Begun(ui, "restart"), calls, <<c>>)
        /\ UNCHANGED <<scene, server, stored, latest, taken, torn>>
    BY <1>3 DEF handleRestartGoal, Quiet, Pressable
  <2> HIDE DEF a, c
  <2>5. c.op = "restart" /\ c.token = ui.session
    BY <2>1, <2>3 DEF Call
  <2> QED
    BY <1>2, <2>2, <2>4, <2>5, PressedInv
<1>4. CASE handleCreateGoal
  <2> DEFINE c == Ask(ui, "create", 0)
  <2>1. c \in Call /\ Sound(c) /\ c.op = "create" /\ c.token = ui.session
    BY <1>1, AskIs, AskSound, OpsAre
  <2>2. /\ ui.session # 0 /\ "create" \notin ui.busy /\ Step(Begun(ui, "create"), calls, <<c>>)
        /\ UNCHANGED <<scene, server, stored, latest, taken, torn>>
    BY <1>4 DEF handleCreateGoal, Quiet, Pressable
  <2> HIDE DEF c
  <2> QED
    BY <1>2, <2>1, <2>2, PressedInv
<1> QED
  BY <1>3, <1>4

\* Deleting a goal, editing it and loading a panel keep it.
LEMMA EditsInv ==
  ASSUME ClientInv, handleDeleteSelectedGoal \/ EditRewards \/ handleSetMilestoneCompletion \/ LoadPanel
  PROVE  ClientInv'
<1>1. {"delete", "card", "milestone", "board", "report"} \subseteq Ops \ {"poll", "me", "signin", "refresh", "cancel"}
  BY DEF Ops
<1>2. CASE handleDeleteSelectedGoal
  <2> DEFINE c == [Ask(ui, "delete", ui.sel) EXCEPT !.job = ui.tracked.job]
  <2>1. ui \in UI /\ ui.sel \in Goals \cup {0} /\ ui.tracked.job \in Jobs \cup {0}
    BY InvSays DEF UI
  <2>2. c \in Call /\ Sound(c) /\ c.op = "delete" /\ c.token = ui.session
    BY <1>1, <2>1, AskIs, DeletionSound
  <2>3. ui.session # 0 /\ Step(ui, calls, <<c>>) /\ UNCHANGED <<scene, server, stored, latest, taken, torn>>
    BY <1>2 DEF handleDeleteSelectedGoal, Quiet
  <2> HIDE DEF c
  <2> QED
    BY <2>1, <2>2, <2>3, AskInv DEF Buttons
<1>3. CASE EditRewards
  BY <1>1, <1>3, AgainInv DEF EditRewards
<1>4. CASE handleSetMilestoneCompletion
  BY <1>1, <1>4, AgainInv DEF handleSetMilestoneCompletion
<1>5. CASE LoadPanel
  <2>1. PICK op \in {"board", "report"} : Again("load", op)
    BY <1>5 DEF LoadPanel
  <2> QED
    BY <1>1, <2>1, AgainInv
<1> QED
  BY <1>2, <1>3, <1>4, <1>5

\* The buttons of the job that is followed keep it.
LEMMA JobButtonsInv ==
  ASSUME ClientInv, handleRefreshTrackedAiJob \/ handleCancelTrackedAiJob PROVE ClientInv'
<1>1. ui \in UI
  BY InvSays
<1>2. Buttons \subseteq Flags \cap Ops /\ Buttons \cap {"poll", "me", "signin"} = {}
  BY DEF Buttons, Flags, Ops
<1>3. PICK f \in Buttons : /\ ui.session # 0 /\ f \notin ui.busy /\ Step(Begun(ui, f), calls, <<AskJob(ui, f)>>)
                           /\ UNCHANGED <<scene, server, stored, latest, taken, torn>>
  BY DEF handleRefreshTrackedAiJob, handleCancelTrackedAiJob, Quiet, Pressable, Buttons
<1> DEFINE c == AskJob(ui, f)
<1>4. c \in Call /\ Sound(c) /\ c.op = f /\ c.token = ui.session
  BY <1>1, <1>2, AskJobIs
<1>5. Step(Begun(ui, f), calls, <<c>>)
  BY <1>3
<1> HIDE DEF c
<1> QED
  BY <1>2, <1>3, <1>4, <1>5, PressedInv

\* Asking for the account to be deleted keeps it.
LEMMA LeaveInv == ASSUME ClientInv, handleDeleteCurrentAccount PROVE ClientInv'
<1> DEFINE c == Ask(ui, "leave", 0)
<1>1. ui \in UI
  BY InvSays
<1>2. c \in Call /\ Sound(c) /\ c.op = "leave" /\ c.token = ui.session
  BY <1>1, AskIs, AskSound, OpsAre
<1>3. ui.session # 0 /\ Step(ui, calls, <<c>>) /\ UNCHANGED <<scene, server, stored, latest, taken, torn>>
  BY DEF handleDeleteCurrentAccount, Quiet
<1> HIDE DEF c
<1> QED
  BY <1>1, <1>2, <1>3, AskInv DEF Buttons

\* Who signs in is not signed in, and waits for nothing, or a restoring meets the sign-in.
LEMMA SignInInv == ASSUME ClientInv, NEW t \in Tokens, SignIn(t) PROVE ClientInv'
<1> DEFINE a == Ask(ui, "signin", 0)
           c == [a EXCEPT !.token = t]
           v == Begun(ui, "auth")
           sent == <<c>>
<1>1. ClientTypes /\ Polling /\ Pressed /\ Account /\ ui \in UI /\ calls \in Seq(Call) /\ torn \in BOOLEAN
      /\ stored \in Tokens \cup {0} /\ latest \in Jobs \cup {0} /\ taken \subseteq Jobs
  BY InvSays
<1>2. a \in Call /\ a.op = "signin" /\ a.got = NoAnswer /\ a.then = "none"
  BY <1>1, AskIs, OpsAre
<1>3. /\ Step(v, calls, sent) /\ ui.session = 0 /\ "auth" \notin ui.busy
      /\ torn' = (torn \/ \E k \in DOMAIN calls : calls[k].op = "me")
      /\ UNCHANGED <<scene, server, stored, latest, taken>>
  BY DEF SignIn, Quiet, Pressable
<1> HIDE DEF a
<1>4. c \in Call /\ c.op = "signin" /\ c.got = NoAnswer /\ c.token \in Tokens /\ c.then = "none"
  BY <1>2 DEF Call
<1>5. "auth" \in Flags
  BY DEF Flags
<1>6. /\ v \in UI /\ "auth" \in v.busy /\ ui.busy \subseteq v.busy /\ v.session = ui.session /\ v.of = ui.of
      /\ v.list = ui.list /\ v.panel = ui.panel /\ v.sel = ui.sel
  BY <1>1, <1>5, FlagIs
<1> HIDE DEF c, v
<1>7. Sound(c)
  BY <1>4, NewSound DEF Follows
<1>8. sent \in Seq(Call) /\ Range(sent) = {c} /\ Len(sent) = 1 /\ (\A op : c.op # op => Absent(sent, op))
  BY <1>4, OneSent
<1> HIDE DEF sent
<1>9. Rest(0) = calls /\ 0 \in {0} \cup DOMAIN calls
  BY DEF Rest
<1>10. Fine(0, v, sent)
  <2>1. \A op \in Buttons : Absent(sent, op) /\ (op \in v.busy \/ Absent(calls, op))
    BY <1>1, <1>4, <1>6, <1>8 DEF Pressed, Buttons
  <2>2. torn' \in BOOLEAN /\ (torn => torn')
    BY <1>1, <1>3
  <2> QED
    BY <1>4, <1>6, <1>7, <1>8, <1>9, <2>1, <2>2 DEF Fine
<1>11. FineAccount(0, v, sent)
  <2> SUFFICES ASSUME ~torn' PROVE
        /\ v.of = 0 /\ v.sel = 0 /\ v.list = NoGoals /\ Len(calls) + Len(sent) <= 1
        /\ Asked(v, stored, Range(calls) \cup Range(sent))
    BY <1>3, <1>6, <1>9 DEF FineAccount
  <2>1. ~torn /\ \A k \in DOMAIN calls : calls[k].op # "me"
    BY <1>3
  <2>2. \A k \in DOMAIN calls : FALSE
    BY <1>1, <1>3, <2>1 DEF Account, Asked, Range
  <2>3. Len(calls) = 0 /\ Range(calls) = {}
    <3>1. Len(calls) \in Nat /\ DOMAIN calls = 1..Len(calls)
      BY <1>1
    <3>2. ~(Len(calls) >= 1)
      BY <2>2, <3>1
    <3> QED
      BY <2>2, <3>1, <3>2 DEF Range
  <2>4. v.of = 0 /\ v.sel = 0 /\ v.list = NoGoals
    BY <1>1, <1>3, <1>6, <2>1 DEF Account
  <2> QED
    BY <1>3, <1>4, <1>6, <1>8, <2>3, <2>4 DEF Asked
<1>12. FinePanels(0, v)
  BY <1>6 DEF FinePanels
<1>13. Step(v, Rest(0), sent)
  BY <1>3, <1>9
<1>14. stored' \in Tokens \cup {0} /\ latest' \in Jobs \cup {0} /\ taken' \subseteq Jobs
  BY <1>1, <1>3
<1> QED
  BY <1>3, <1>9, <1>10, <1>11, <1>12, <1>13, <1>14, StepInv

\* A component that has just been mounted, with the session it restores.
Mounted ==
  /\ ui \in UI /\ ui.session = 0 /\ ui.of = 0 /\ ui.sel = 0 /\ ui.list = NoGoals /\ ui.busy = {}
  /\ \A p \in Panels : ui.panel[p] = 0
  /\ stored \in Tokens \cup {0} /\ crossed = {} /\ ClientTypeOK /\ scene \in Scenes /\ torn \in BOOLEAN
  /\ calls = IF stored = 0 THEN <<>> ELSE <<[Ask(ui, "me", 0) EXCEPT !.token = stored]>>
\* A tab just opened, with at most a session to restore, satisfies the invariant.
LEMMA MountedInv ==
  Mounted => ClientInv
<1> SUFFICES ASSUME Mounted PROVE ClientInv
  OBVIOUS
<1> USE DEF Mounted
<1> DEFINE a == Ask(ui, "me", 0)
           c == [a EXCEPT !.token = stored]
<1>1. a \in Call /\ a.op = "me" /\ a.got = NoAnswer /\ a.then = "none"
  BY AskIs, OpsAre
<1>2. calls = IF stored = 0 THEN <<>> ELSE <<c>>
  OBVIOUS
<1> HIDE DEF a
<1>3. c \in Call /\ c.op = "me" /\ c.got = NoAnswer /\ c.then = "none" /\ c.token = stored
  BY <1>1 DEF Call
<1> HIDE DEF c
<1>4. Sound(c)
  BY <1>3, NewSound DEF Follows
<1>5. /\ calls \in Seq(Call) /\ Range(calls) \subseteq {c} /\ Len(calls) <= 1
      /\ (\A op : Single(calls, op)) /\ (\A op : c.op # op => Absent(calls, op))
  BY <1>2, <1>3, NothingSent, OneSent
<1>6. ClientTypes
  BY <1>4, <1>5 DEF ClientTypes
<1>7. Polling /\ Pressed
  BY <1>3, <1>5 DEF Polling, Pressed, Buttons
<1>8. Account
  <2>1. Owned(ui.list, ui.session)
    BY DEF Owned, NoGoals
  <2>2. Asked(ui, stored, Range(calls))
    BY <1>3, <1>5 DEF Asked
  <2> QED
    BY <1>5, <2>1, <2>2 DEF Account
<1>9. PanelsAgree
  <2>1. Crossing(ui, calls) = {}
    BY <1>3, <1>5, CrossingIs, PanelsOfIs
  <2> QED
    BY <2>1 DEF PanelsAgree, Apart
<1> QED
  BY <1>6, <1>7, <1>8, <1>9 DEF ClientInv

\* The component's state when it is mounted.
LEMMA FreshIs ==
  ASSUME NEW p \in Pages
  PROVE  /\ Fresh(p) \in UI /\ Fresh(p).session = 0 /\ Fresh(p).of = 0 /\ Fresh(p).sel = 0 /\ Fresh(p).list = NoGoals
         /\ Fresh(p).busy = {} /\ Fresh(p).tracked = NoJob /\ \A q \in Panels : Fresh(p).panel[q] = 0
<1> DEFINE none == [q \in Panels |-> 0]
<1>1. none \in [Panels -> Goals \cup {0}] /\ \A q \in Panels : none[q] = 0
  OBVIOUS
<1>2. NoGoals \in [Goals -> GoalStatus] /\ NoJob \in [job : Jobs \cup {0}, status : JobStatus]
  BY DEF NoGoals, NoJob, GoalStatus, JobStatus
<1>3. Fresh(p) = [session |-> 0, page |-> p, sel |-> 0, list |-> NoGoals, of |-> 0,
                  created |-> [goal |-> 0, status |-> "none"], plan |-> 0, panel |-> none, tracked |-> NoJob,
                  busy |-> {}]
  BY DEF Fresh
<1> HIDE DEF none
<1> QED
  BY <1>1, <1>2, <1>3 DEF UI, GoalStatus

\* The initial states satisfy the invariant.
LEMMA InitInv == ClientInit => ClientInv
<1> SUFFICES ASSUME ClientInit PROVE ClientInv
  OBVIOUS
<1>1. /\ scene.page \in Pages /\ scene.goal \in [Goals -> GoalStatus] /\ scene.owner \in [Goals -> Tokens \cup {0}]
      /\ scene.stored \in Tokens \cup {0} /\ scene \in Scenes
  BY WebClientAssumption DEF ClientInit
<1>2. ui = Fresh(scene.page) /\ stored = scene.stored /\ crossed = {} /\ torn = FALSE
      /\ calls = (IF stored = 0 THEN <<>> ELSE <<[Ask(ui, "me", 0) EXCEPT !.token = stored]>>)
  BY DEF ClientInit
<1>3. /\ ui \in UI /\ ui.session = 0 /\ ui.of = 0 /\ ui.sel = 0 /\ ui.list = NoGoals /\ ui.busy = {}
      /\ \A p \in Panels : ui.panel[p] = 0
  BY <1>1, <1>2, FreshIs
<1>4. ClientTypeOK
  BY <1>1, <1>3 DEF ClientTypeOK, ClientInit, UI, Tokens, JobStatus
<1> QED
  BY <1>1, <1>2, <1>3, <1>4, MountedInv DEF Mounted

\* Reloading the tab keeps the invariant.
LEMMA ReloadInv == ASSUME ClientInv, Reload PROVE ClientInv'
<1>1. ClientTypes /\ stored \in Tokens \cup {0}
  BY InvSays
<1>2. /\ ui' = Fresh("create") /\ stored' = stored /\ crossed' = {} /\ torn' = FALSE
      /\ calls' = (IF stored = 0 THEN <<>> ELSE <<[Ask(ui', "me", 0) EXCEPT !.token = stored]>>)
      /\ UNCHANGED <<scene, server, latest, taken>>
  BY DEF Reload, Quiet
<1>3. /\ ui' \in UI /\ ui'.session = 0 /\ ui'.of = 0 /\ ui'.sel = 0 /\ ui'.list = NoGoals /\ ui'.busy = {}
      /\ \A p \in Panels : ui'.panel[p] = 0
  <2>1. "create" \in Pages
    BY DEF Pages
  <2> QED
    BY <1>2, <2>1, FreshIs
<1>4. ClientTypeOK'
  BY <1>1, <1>2, <1>3 DEF ClientTypes, ClientTypeOK, UI, server
<1>5. scene' \in Scenes /\ torn' \in BOOLEAN /\ stored' \in Tokens \cup {0}
      /\ calls' = (IF stored' = 0 THEN <<>> ELSE <<[Ask(ui', "me", 0) EXCEPT !.token = stored']>>)
  BY <1>1, <1>2 DEF ClientTypes
<1>6. Mounted'
  BY <1>2, <1>3, <1>4, <1>5 DEF Mounted
<1> QED
  BY <1>6, MountedInv, PTL

\* The interval of the polling keeps it.
LEMMA IntervalInv == ASSUME ClientInv, pollTrackedAiJob PROVE ClientInv'
<1> DEFINE c == AskJob(ui, "poll")
<1>1. ClientTypes /\ Polling /\ Pressed /\ Account /\ PanelsAgree /\ ui \in UI /\ calls \in Seq(Call)
  BY InvSays
<1>2. /\ Tracking(ui) /\ (\A k \in DOMAIN calls : calls[k].op # "poll") /\ calls' = Append(calls, c)
      /\ UNCHANGED <<scene, server, stored, ui, crossed, latest, taken, torn, acts, faults>>
  BY DEF pollTrackedAiJob, IsPoll
<1>3. c \in Call /\ Sound(c) /\ c.op = "poll" /\ c.token = ui.session /\ c.job = ui.tracked.job
  BY <1>1, AskJobIs, OpsAre
<1> HIDE DEF c
<1>4. /\ <<c>> \in Seq(Call) /\ Range(<<c>>) = {c}
      /\ (\A op : Single(<<c>>, op)) /\ (\A op : c.op # op => Absent(<<c>>, op))
  BY <1>3, OneSent
<1>5. calls' = calls \o <<c>>
  BY <1>1, <1>2, <1>3, AppendIs
<1>6. calls' \in Seq(Call) /\ Range(calls') = Range(calls) \cup {c}
  <2>1. calls \o <<c>> \in Seq(Call) /\ Range(calls \o <<c>>) = Range(calls) \cup Range(<<c>>)
    BY <1>1, <1>4, Union
  <2> QED
    BY <1>4, <1>5, <2>1
<1>7. Single(calls', "poll")
  <2>1. Absent(calls, "poll")
    BY <1>2 DEF Absent
  <2> QED
    BY <1>1, <1>4, <1>5, <2>1, Joined
<1>8. ASSUME NEW op \in Buttons PROVE Single(calls', op) /\ (Absent(calls, op) => Absent(calls', op))
  <2>1. Absent(<<c>>, op) /\ Single(calls, op)
    BY <1>1, <1>3, <1>4 DEF Buttons, Pressed
  <2> QED
    BY <1>1, <1>4, <1>5, <2>1, Joined
<1>9. ClientTypes'
  <2>1. \A d : Sound(d)' <=> Sound(d)
    BY <1>2 DEF Sound, Carried, Follows, OwnGoals, Owned, server
  <2>2. ClientTypeOK'
    BY <1>1, <1>2 DEF ClientTypes, ClientTypeOK, server
  <2> QED
    BY <1>1, <1>2, <1>3, <1>6, <2>1, <2>2 DEF ClientTypes
<1>10. Polling'
  BY <1>1, <1>2, <1>3, <1>6, <1>7 DEF Polling, Single, Tracking
<1>11. Pressed'
  BY <1>1, <1>2, <1>8 DEF Pressed, Single, Absent
<1>12. Account'
  <2>1. ~torn => Asked(ui, stored, Range(calls'))
    BY <1>1, <1>2, <1>3, <1>6 DEF Account, Asked, Tracking
  <2>2. ui.session # 0
    BY <1>2 DEF Tracking
  <2>3. Owned(ui.list, ui.session)' <=> Owned(ui.list, ui.session)
    BY <1>2 DEF Owned, server
  <2>4. Asked(ui, stored, Range(calls))' <=> Asked(ui, stored, Range(calls'))
    BY <1>2 DEF Asked
  <2> QED
    BY <1>1, <1>2, <2>1, <2>2, <2>3, <2>4 DEF Account
<1>13. PanelsAgree'
  <2>1. Crossing(ui, calls') = Crossing(ui, calls)
    <3>1. PanelsOf(c) = {}
      BY <1>3, PanelsOfIs
    <3>2. ASSUME NEW p PROVE p \in Crossing(ui, calls') <=> p \in Crossing(ui, calls)
      <4>1. /\ p \in Crossing(ui, calls') <=> \E d \in Range(calls') : About(d) # ui.sel /\ p \in PanelsOf(d)
            /\ p \in Crossing(ui, calls) <=> \E d \in Range(calls) : About(d) # ui.sel /\ p \in PanelsOf(d)
        BY CrossingIs
      <4> QED
        BY <1>6, <3>1, <4>1
    <3> QED
      BY <3>2
  <2>2. Crossing(ui, calls)' = Crossing(ui, calls')
    BY <1>2 DEF Crossing
  <2> QED
    BY <1>1, <1>2, <1>6, <2>1, <2>2 DEF PanelsAgree, Apart
<1> QED
  BY <1>9, <1>10, <1>11, <1>12, <1>13 DEF ClientInv

\* A goal's row stays, and so does its owner.
Rows == \A g \in Goals : goal[g] # "none" => goal'[g] # "none" /\ owner'[g] = owner[g]
\* Goals keep their owner.
LEMMA OwnedStays ==
  ASSUME Rows, NEW list, NEW t, Owned(list, t)
  PROVE  \A g \in Goals : list[g] # "none" => goal'[g] # "none" /\ owner'[g] = t
BY DEF Rows, Owned

\* What a request asked for, and who asked, whatever has been answered.
Like(c, d) == /\ c.op = d.op /\ c.token = d.token /\ c.goal = d.goal /\ c.job = d.job /\ c.pref = d.pref
              /\ c.then = d.then /\ c.res = d.res

\* What answer i becomes known changes nothing that the client holds.
LEMMA ServedInv ==
  ASSUME ClientInv, NEW i \in DOMAIN calls, NEW got \in Answer, Answered(i, got), Keep, Rows,
         goal' \in [Goals -> GoalStatus], owner' \in [Goals -> Tokens \cup {0}], live' \subseteq Tokens,
         job' \in [Jobs -> [goal : Goals \cup {0}, kind : {"none", "plan", "report"}, status : JobStatus]],
         \A g \in Goals : got.list[g] # "none" => goal'[g] # "none" /\ owner'[g] = calls[i].token,
         Carried([calls[i] EXCEPT !.at = "back", !.got = got]),
         got.ok /\ calls[i].op \in {"generate", "replan", "confirm"} =>
           goal'[got.goal] # "none" /\ owner'[got.goal] = calls[i].token
  PROVE  ClientInv'
<1> DEFINE e == calls[i]
           d == [calls[i] EXCEPT !.at = "back", !.got = got]
<1>1. ClientTypes /\ Polling /\ Pressed /\ Account /\ PanelsAgree /\ ui \in UI /\ calls \in Seq(Call)
      /\ \A k \in DOMAIN calls : Sound(calls[k])
  BY InvSays DEF Range
<1>2. calls' = [calls EXCEPT ![i] = d] /\ UNCHANGED <<scene, stored, ui, crossed, latest, taken, torn>>
  BY DEF Answered, Keep
<1>3. e \in Call /\ Sound(e)
  BY <1>1 DEF Sound
<1>4. d \in Call /\ d.got = got /\ Like(d, e)
  BY <1>3 DEF Call, Like
<1>5. Carried(d) /\ e.token = calls[i].token /\ e.op = calls[i].op
  OBVIOUS
<1> HIDE DEF d, e
<1>6. calls' \in Seq(Call) /\ DOMAIN calls' = DOMAIN calls /\ Len(calls') = Len(calls)
  BY <1>1, <1>2, <1>4
<1>7. ASSUME NEW k \in DOMAIN calls
      PROVE  calls'[k] \in Call /\ Like(calls'[k], calls[k]) /\ (k # i => calls'[k] = calls[k])
  BY <1>1, <1>2, <1>4 DEF Like, e
<1>8. calls'[i] = d
  BY <1>1, <1>2
<1>9. ASSUME NEW k \in DOMAIN calls PROVE Sound(calls[k])'
  <2>1. CASE k # i
    <3>1. Sound(calls[k]) /\ calls'[k] = calls[k] /\ OwnGoals(calls[k])
      BY <1>1, <1>7, <2>1 DEF Sound
    <3>2. \A g \in Goals : calls[k].got.list[g] # "none" => goal'[g] # "none" /\ owner'[g] = calls[k].token
      BY <3>1, OwnedStays DEF OwnGoals
    <3>3. Carried(calls[k]) /\ Follows(calls[k])
      BY <3>1 DEF Sound
    <3>4. calls[k].got.ok /\ calls[k].op \in {"generate", "replan", "confirm"} => calls[k].got.goal \in Goals
      BY <3>3 DEF Carried
    <3>5. OwnGoals(calls[k])'
      BY <3>1, <3>2, <3>4 DEF OwnGoals, Owned, Rows
    <3>6. (Carried(calls[k]) /\ Follows(calls[k]) /\ calls[k] \in Call)'
      BY <3>1, <3>3 DEF Carried, Follows, Sound
    <3> QED
      BY <3>5, <3>6 DEF Sound
  <2>2. CASE k = i
    <3>1. Follows(d)
      BY <1>3, <1>4 DEF Sound, Follows, Like
    <3>2. OwnGoals(calls[i])'
      BY <1>4, <1>5, <1>8 DEF OwnGoals, Owned, Like
    <3>3. (Carried(calls[i]) /\ Follows(calls[i]) /\ calls[i] \in Call)'
      BY <1>4, <1>5, <1>8, <3>1 DEF Carried, Follows
    <3> QED
      BY <2>2, <3>2, <3>3 DEF Sound
  <2> QED
    BY <2>1, <2>2
<1>10. ClientTypes'
  <2>1. ClientTypeOK'
    BY <1>1, <1>2 DEF ClientTypes, ClientTypeOK
  <2> QED
    BY <1>1, <1>2, <1>6, <1>9, <2>1 DEF ClientTypes, Range
<1>11. Polling' /\ Pressed'
  <2>1. \A op : (Single(calls, op) => Single(calls, op)') /\ (Absent(calls, op) => Absent(calls, op)')
    BY <1>6, <1>7 DEF Single, Absent, Like
  <2>2. \A k \in DOMAIN calls' : calls'[k].op = "poll" => calls'[k].job = ui'.tracked.job /\ Tracking(ui)'
    BY <1>1, <1>2, <1>6, <1>7 DEF Polling, Range, Like, Tracking
  <2> QED
    BY <1>1, <1>2, <2>1, <2>2 DEF Polling, Pressed, Range
<1>12. Account'
  <2>1. Owned(ui.list, ui.session) => Owned(ui.list, ui.session)'
    <3>1. ASSUME Owned(ui.list, ui.session)
          PROVE  \A g \in Goals : ui.list[g] # "none" => goal'[g] # "none" /\ owner'[g] = ui.session
      BY <3>1, OwnedStays
    <3> QED
      BY <1>2, <3>1 DEF Owned
  <2>2. Asked(ui, stored, Range(calls)) => Asked(ui, stored, Range(calls))'
    BY <1>2, <1>6, <1>7 DEF Asked, Range, Like
  <2> QED
    BY <1>1, <1>2, <1>6, <2>1, <2>2 DEF Account
<1>13. PanelsAgree'
  <2>1. ASSUME NEW k \in DOMAIN calls
        PROVE  About(calls'[k]) = About(calls[k]) /\ PanelsOf(calls'[k]) = PanelsOf(calls[k])
    BY <1>7 DEF About, PanelsOf, Like
  <2>2. Crossing(ui, calls)' = Crossing(ui, calls)
    BY <1>2, <1>6, <2>1 DEF Crossing
  <2>3. \A c \in Range(calls) : c.op = "daily" =>
          \E k \in DOMAIN calls' : calls'[k].op = "daily" /\ About(calls'[k]) = About(c)
    BY <1>6, <1>7, <2>1 DEF Range, Like
  <2> QED
    BY <1>1, <1>2, <2>2, <2>3 DEF PanelsAgree, Apart, Range
<1> QED
  BY <1>10, <1>11, <1>12, <1>13 DEF ClientInv

\* What the server holds.
LEMMA ServerIs ==
  ASSUME ClientInv
  PROVE  /\ live \subseteq Tokens /\ goal \in [Goals -> GoalStatus] /\ owner \in [Goals -> Tokens \cup {0}]
         /\ job \in [Jobs -> [goal : Goals \cup {0}, kind : {"none", "plan", "report"}, status : JobStatus]]
         /\ \A i \in DOMAIN calls : calls[i] \in Call
BY InvSays DEF ClientTypes, ClientTypeOK, Sound, Range

\* The answer that is none.
LEMMA AnswersAre ==
  /\ NoAnswer \in Answer /\ ~NoAnswer.ok /\ NoAnswer.list = NoGoals /\ NoAnswer.goal = 0 /\ NoAnswer.job = 0
  /\ NoAnswer.status = "none" /\ ~NoAnswer.ready
  /\ NoGoals \in [Goals -> GoalStatus] /\ \A g \in Goals : NoGoals[g] = "none"
BY DEF NoAnswer, Answer, NoGoals, GoalStatus

\* An answer about a goal.
LEMMA OkIs ==
  ASSUME NEW g \in Goals \cup {0}, NEW s \in GoalStatus
  PROVE  Ok(g, s) \in Answer /\ Ok(g, s).ok /\ Ok(g, s).goal = g /\ Ok(g, s).status = s /\ Ok(g, s).list = NoGoals
         /\ Ok(g, s).job = 0
<1>1. Ok(g, s) = [NoAnswer EXCEPT !.ok = TRUE, !.goal = g, !.status = s]
  BY DEF Ok
<1> QED
  BY <1>1, AnswersAre DEF Answer

\* An answer about a job.
LEMMA OkJobIs ==
  ASSUME NEW j \in Jobs \cup {0}, NEW s \in JobStatus, NEW g \in Goals \cup {0}, NEW r \in BOOLEAN
  PROVE  /\ OkJob(j, s, g, r) \in Answer /\ OkJob(j, s, g, r).ok /\ OkJob(j, s, g, r).goal = g
         /\ OkJob(j, s, g, r).status = s /\ OkJob(j, s, g, r).list = NoGoals /\ OkJob(j, s, g, r).job = j
<1>1. OkJob(j, s, g, r) = [NoAnswer EXCEPT !.ok = TRUE, !.job = j, !.status = s, !.goal = g, !.ready = r]
  BY DEF OkJob
<1> QED
  BY <1>1, AnswersAre DEF Answer

\* An answer with one goal, whose status is s, in it.
LEMMA ListedIs ==
  ASSUME NEW a \in Answer, NEW g \in Goals, NEW s \in GoalStatus
  PROVE  LET b == [a EXCEPT !.list = [NoGoals EXCEPT ![g] = s]] IN
         /\ b \in Answer /\ b.ok = a.ok /\ b.goal = a.goal /\ b.status = a.status /\ b.job = a.job
         /\ \A h \in Goals : b.list[h] # "none" => h = g
<1> DEFINE n == [NoGoals EXCEPT ![g] = s]
           b == [a EXCEPT !.list = n]
<1>1. n \in [Goals -> GoalStatus] /\ \A h \in Goals : n[h] # "none" => h = g
  BY AnswersAre
<1> HIDE DEF n
<1>2. b \in Answer /\ b.ok = a.ok /\ b.goal = a.goal /\ b.status = a.status /\ b.job = a.job /\ b.list = n
  BY <1>1 DEF Answer
<1> QED
  BY <1>1, <1>2 DEF n

\* An answered request is the one that was asked.
LEMMA CarriedIs ==
  ASSUME NEW c \in Call, NEW got \in Answer
  PROVE  LET d == [c EXCEPT !.at = "back", !.got = got] IN
         d.got = got /\ d.op = c.op /\ d.job = c.job
BY DEF Call

\* Nothing of the server changes, and the answer names no goal of a list.
LEMMA AnswerInv ==
  ASSUME ClientInv, NEW i \in DOMAIN calls, NEW got \in Answer, Answered(i, got), Keep, UNCHANGED server,
         \A g \in Goals : got.list[g] # "none" => goal[g] # "none" /\ owner[g] = calls[i].token,
         got.ok => /\ calls[i].op \notin {"generate", "replan", "confirm"}
                   /\ calls[i].op \in {"poll", "refresh", "cancel", "settle"} => got.status \in JobStatus
                   /\ calls[i].op \in Buttons => calls[i].job \in Jobs
  PROVE  ClientInv'
<1>1. /\ live \subseteq Tokens /\ goal \in [Goals -> GoalStatus] /\ owner \in [Goals -> Tokens \cup {0}]
      /\ job \in [Jobs -> [goal : Goals \cup {0}, kind : {"none", "plan", "report"}, status : JobStatus]]
      /\ calls[i] \in Call
  BY ServerIs
<1> DEFINE d == [calls[i] EXCEPT !.at = "back", !.got = got]
<1>2. d.got = got /\ d.op = calls[i].op /\ d.job = calls[i].job
  BY <1>1, CarriedIs
<1> HIDE DEF d
<1>3. Carried(d)
  BY <1>2 DEF Carried
<1>4. Rows
  BY DEF Rows, server
<1>5. \A g \in Goals : got.list[g] # "none" => goal'[g] # "none" /\ owner'[g] = calls[i].token
  BY DEF server
<1>6. /\ live' \subseteq Tokens /\ goal' \in [Goals -> GoalStatus] /\ owner' \in [Goals -> Tokens \cup {0}]
      /\ job' \in [Jobs -> [goal : Goals \cup {0}, kind : {"none", "plan", "report"}, status : JobStatus]]
  BY <1>1 DEF server
<1>7. Carried([calls[i] EXCEPT !.at = "back", !.got = got])
  BY <1>3 DEF d
<1> QED
  BY <1>4, <1>5, <1>6, <1>7, ServedInv

\* What an answer holds is the answer's, whether it is a success or not.
LEMMA AnsweredIs ==
  ASSUME NEW ok \in BOOLEAN
  PROVE  /\ [NoAnswer EXCEPT !.ok = ok] \in Answer /\ [NoAnswer EXCEPT !.ok = ok].list = NoGoals
         /\ \A list \in [Goals -> GoalStatus] : /\ [NoAnswer EXCEPT !.ok = ok, !.list = list] \in Answer
                                              /\ [NoAnswer EXCEPT !.ok = ok, !.list = list].list = list
BY AnswersAre DEF Answer

\* A refusal keeps the invariant.
LEMMA RefuseInv == ASSUME ClientInv, NEW i \in DOMAIN calls, Refuse(i), Keep PROVE ClientInv'
<1>1. Answered(i, NoAnswer) /\ UNCHANGED server
  BY DEF Refuse
<1> QED
  BY <1>1, AnswersAre, AnswerInv

\* The answers to a list, a restoring and a job's state keep it.
LEMMA ReadsInv == ASSUME ClientInv, NEW i \in DOMAIN calls, ServeReads(i) PROVE ClientInv'
<1> DEFINE c == calls[i]
<1>1. /\ c \in Call /\ owner \in [Goals -> Tokens \cup {0}] /\ goal \in [Goals -> GoalStatus]
      /\ job \in [Jobs -> [goal : Goals \cup {0}, kind : {"none", "plan", "report"}, status : JobStatus]]
      /\ c.job \in Jobs \cup {0}
  BY ServerIs DEF Call
<1>2. CASE Serve(i, "list") /\ UNCHANGED server
           /\ Answered(i, [NoAnswer EXCEPT !.ok = c.token \in live, !.list = ListFor(c.token)])
  <2> DEFINE list == ListFor(c.token)
             ok == c.token \in live
             got == [NoAnswer EXCEPT !.ok = ok, !.list = list]
  <2>1. /\ list \in [Goals -> GoalStatus]
        /\ \A g \in Goals : list[g] # "none" => goal[g] # "none" /\ owner[g] = c.token
    BY <1>1 DEF ListFor, GoalStatus
  <2>3. c.op = "list" /\ Keep /\ Answered(i, got)
    BY <1>2 DEF Serve
  <2>4. ok \in BOOLEAN
    OBVIOUS
  <2> HIDE DEF list, ok
  <2>2. got \in Answer /\ got.list = list
    BY <2>1, <2>4, AnsweredIs
  <2> HIDE DEF got
  <2> QED
    BY <1>2, <2>1, <2>2, <2>3, AnswerInv DEF Buttons
<1>3. CASE Serve(i, "me") /\ UNCHANGED server /\ Answered(i, [NoAnswer EXCEPT !.ok = c.token \in live])
  <2> DEFINE ok == c.token \in live
             got == [NoAnswer EXCEPT !.ok = ok]
  <2>2. c.op = "me" /\ Keep /\ Answered(i, got)
    BY <1>3 DEF Serve
  <2>3. ok \in BOOLEAN
    OBVIOUS
  <2> HIDE DEF ok
  <2>1. got \in Answer /\ got.list = NoGoals
    BY <2>3, AnsweredIs
  <2> HIDE DEF got
  <2> QED
    BY <1>3, <2>1, <2>2, AnswersAre, AnswerInv DEF Buttons
<1>4. CASE /\ Serve(i, "poll") \/ Serve(i, "refresh")
           /\ UNCHANGED server
           /\ IF JobOf(c) THEN Answered(i, OkJob(c.job, job[c.job].status, job[c.job].goal, FALSE)) ELSE Refuse(i)
  <2>1. c.op \in {"poll", "refresh"} /\ Keep
    BY <1>4 DEF Serve
  <2>2. CASE JobOf(c)
    <3> DEFINE s == job[c.job].status
               g == job[c.job].goal
               n == c.job
               no == FALSE
               got == OkJob(n, s, g, no)
    <3>1. n \in Jobs /\ s \in JobStatus /\ g \in Goals \cup {0} /\ no \in BOOLEAN
      BY <1>1, <2>2 DEF JobOf
    <3>3. Answered(i, got)
      BY <1>4, <2>2
    <3>4. c.job \in Jobs
      BY <3>1
    <3> HIDE DEF s, g, n, no
    <3>2. got \in Answer /\ got.list = NoGoals /\ got.status \in JobStatus
      BY <3>1, OkJobIs
    <3> HIDE DEF got
    <3> QED
      BY <1>4, <2>1, <3>2, <3>3, <3>4, AnswersAre, AnswerInv
  <2>3. CASE ~JobOf(c)
    BY <1>4, <2>1, <2>3, RefuseInv
  <2> QED
    BY <2>2, <2>3
<1> QED
  BY <1>2, <1>3, <1>4 DEF ServeReads

\* Making a plan, or having it made, keeps it.
LEMMA PlanInv ==
  ASSUME ClientInv, NEW i \in DOMAIN calls, NEW op \in {"generate", "replan"}, NEW from,
         NEW during \in GoalStatus \ {"none"},
         ServePlan(i, op, from, during)
  PROVE  ClientInv'
<1> DEFINE c == calls[i]
           j == Next1(NewJobs)
           good == Mine(c, c.goal) /\ goal[c.goal] \in from /\ NewJobs # {}
<1>1. /\ c \in Call /\ owner \in [Goals -> Tokens \cup {0}] /\ goal \in [Goals -> GoalStatus] /\ live \subseteq Tokens
      /\ job \in [Jobs -> [goal : Goals \cup {0}, kind : {"none", "plan", "report"}, status : JobStatus]]
      /\ c.goal \in Goals \cup {0}
  BY ServerIs DEF Call
<1>0. c.goal \in Goals \cup {0}
  BY <1>1
<1>2. c.op = op /\ Keep
  BY DEF ServePlan, Serve
<1>3. CASE ~good
  BY <1>2, <1>3, RefuseInv DEF ServePlan
<1>4. CASE good
  <2>0. PICK e \in {[job |-> "QUEUED", goal |-> during], [job |-> "SUCCEEDED", goal |-> "WAITING_CONFIRMATION"],
                    [job |-> "FAILED", goal |-> "GENERATION_FAILED"]} :
          /\ job' = [job EXCEPT ![j] = [goal |-> c.goal, kind |-> "plan", status |-> e.job]]
          /\ goal' = [goal EXCEPT ![c.goal] = e.goal]
          /\ Answered(i, [OkJob(j, e.job, c.goal, e.job = "SUCCEEDED") EXCEPT !.list = [NoGoals EXCEPT ![c.goal] = e.goal]])
          /\ UNCHANGED <<live, owner>>
    BY <1>4 DEF ServePlan
  <2> DEFINE end == e.job
             s == e.goal
             now == e.job = "SUCCEEDED"
             a == OkJob(j, end, c.goal, now)
             got == [a EXCEPT !.list = [NoGoals EXCEPT ![c.goal] = s]]
  <2>1. c.goal \in Goals /\ goal[c.goal] # "none" /\ owner[c.goal] = c.token
    BY <1>1, <1>4 DEF Mine
  <2>2. j \in Jobs
    <3>1. NewJobs \in SUBSET Jobs /\ NewJobs # {}
      BY <1>4 DEF NewJobs
    <3>2. Next1(NewJobs) \in NewJobs
      BY <3>1, NextIs
    <3> QED
      BY <3>1, <3>2
  <2>3. end \in JobStatus /\ s \in GoalStatus \ {"none"} /\ now \in BOOLEAN
    BY DEF JobStatus, GoalStatus
  <2>4. /\ job' = [job EXCEPT ![j] = [goal |-> c.goal, kind |-> "plan", status |-> end]]
        /\ goal' = [goal EXCEPT ![c.goal] = s] /\ Answered(i, got) /\ UNCHANGED <<live, owner>>
    BY <2>0
  <2> HIDE DEF j, end, s, now
  <2>5. a \in Answer /\ a.ok /\ a.status = end /\ a.goal = c.goal
    BY <2>1, <2>2, <2>3, OkJobIs
  <2> HIDE DEF a
  <2>6. got \in Answer /\ got.status = end /\ got.goal = c.goal /\ \A h \in Goals : got.list[h] # "none" => h = c.goal
    BY <2>1, <2>3, <2>5, ListedIs
  <2> HIDE DEF got
  <2>7. Rows /\ goal'[c.goal] # "none" /\ owner'[c.goal] = c.token
    BY <1>1, <2>1, <2>3, <2>4 DEF Rows
  <2> DEFINE d == [c EXCEPT !.at = "back", !.got = got]
  <2>8. d.got = got /\ d.op = c.op /\ d.job = c.job
    BY <1>1, <2>6, CarriedIs
  <2> HIDE DEF d
  <2>9. Carried(d)
    BY <1>2, <2>1, <2>3, <2>6, <2>8 DEF Carried, Buttons
  <2>10. goal' \in [Goals -> GoalStatus]
    BY <1>1, <2>3, <2>4
  <2>11. job' \in [Jobs -> [goal : Goals \cup {0}, kind : {"none", "plan", "report"}, status : JobStatus]]
    BY <1>1, <2>1, <2>3, <2>4
  <2>12. Carried([calls[i] EXCEPT !.at = "back", !.got = got])
    BY <2>9 DEF d
  <2>13. \A g \in Goals : got.list[g] # "none" => goal'[g] # "none" /\ owner'[g] = calls[i].token
    BY <2>6, <2>7
  <2>14. goal'[got.goal] # "none" /\ owner'[got.goal] = calls[i].token
    BY <2>6, <2>7
  <2>15. owner' \in [Goals -> Tokens \cup {0}] /\ live' \subseteq Tokens
    BY <1>1, <2>4
  <2>16. got \in Answer /\ Rows
    BY <2>6, <2>7
  <2> HIDE DEF got
  <2> QED
    BY <1>2, <2>4, <2>10, <2>11, <2>12, <2>13, <2>14, <2>15, <2>16, ServedInv
<1> QED
  BY <1>3, <1>4

\* The goals and the jobs are what they were but for a goal's status or a job; the answer is of
\* no goal that a list or a plan shows.
LEMMA ChangedInv ==
  ASSUME ClientInv, NEW i \in DOMAIN calls, NEW got \in Answer, Answered(i, got), Keep, Rows,
         goal' \in [Goals -> GoalStatus], owner' \in [Goals -> Tokens \cup {0}], live' \subseteq Tokens,
         job' \in [Jobs -> [goal : Goals \cup {0}, kind : {"none", "plan", "report"}, status : JobStatus]],
         \A g \in Goals : got.list[g] # "none" => goal'[g] # "none" /\ owner'[g] = calls[i].token,
         calls[i].op \notin {"poll", "refresh", "generate", "replan", "confirm"},
         calls[i].op \in {"cancel", "settle"} => got.status \in JobStatus,
         calls[i].op = "cancel" => calls[i].job \in Jobs
  PROVE  ClientInv'
<1>1. calls[i] \in Call
  BY ServerIs
<1> DEFINE d == [calls[i] EXCEPT !.at = "back", !.got = got]
<1>2. d.got = got /\ d.op = calls[i].op /\ d.job = calls[i].job
  BY <1>1, CarriedIs
<1> HIDE DEF d
<1>3. Carried(d)
  BY <1>2 DEF Carried, Buttons
<1>4. Carried([calls[i] EXCEPT !.at = "back", !.got = got])
  BY <1>3 DEF d
<1> QED
  BY <1>4, ServedInv

\* Confirming a plan keeps it.
LEMMA ConfirmInv == ASSUME ClientInv, NEW i \in DOMAIN calls, ServeConfirm(i) PROVE ClientInv'
<1> DEFINE c == calls[i]
           good == Mine(c, c.goal) /\ goal[c.goal] = "WAITING_CONFIRMATION"
           got == Ok(c.goal, "ACTIVE")
<1>1. /\ c \in Call /\ owner \in [Goals -> Tokens \cup {0}] /\ goal \in [Goals -> GoalStatus] /\ live \subseteq Tokens
      /\ job \in [Jobs -> [goal : Goals \cup {0}, kind : {"none", "plan", "report"}, status : JobStatus]]
      /\ c.goal \in Goals \cup {0}
  BY ServerIs DEF Call
<1>0. c.goal \in Goals \cup {0}
  BY <1>1
<1>2. c.op = "confirm" /\ Keep
  BY DEF ServeConfirm, Serve
<1>3. CASE ~good
  BY <1>2, <1>3, RefuseInv DEF ServeConfirm
<1>4. CASE good
  <2>1. c.goal \in Goals /\ goal[c.goal] # "none" /\ owner[c.goal] = c.token
    BY <1>1, <1>4 DEF Mine
  <2>2. goal' = [goal EXCEPT ![c.goal] = "ACTIVE"] /\ Answered(i, got) /\ UNCHANGED <<live, owner, job>>
    BY <1>4 DEF ServeConfirm
  <2>3. "ACTIVE" \in GoalStatus
    BY DEF GoalStatus
  <2>4. got \in Answer /\ got.goal = c.goal /\ got.status = "ACTIVE" /\ got.list = NoGoals
    BY <2>1, <2>3, OkIs
  <2> HIDE DEF got
  <2>5. Rows /\ goal'[c.goal] # "none" /\ owner'[c.goal] = c.token /\ goal' \in [Goals -> GoalStatus]
    BY <1>1, <2>1, <2>2, <2>3 DEF Rows
  <2> DEFINE d == [c EXCEPT !.at = "back", !.got = got]
  <2>6. d.got = got /\ d.op = c.op /\ d.job = c.job
    BY <1>1, <2>4, CarriedIs
  <2> HIDE DEF d
  <2>7. Carried(d)
    BY <1>2, <2>1, <2>3, <2>4, <2>6 DEF Carried, Buttons
  <2>8. Carried([calls[i] EXCEPT !.at = "back", !.got = got])
    BY <2>7 DEF d
  <2>9. \A g \in Goals : got.list[g] # "none" => goal'[g] # "none" /\ owner'[g] = calls[i].token
    BY <2>4, AnswersAre
  <2>10. goal'[got.goal] # "none" /\ owner'[got.goal] = calls[i].token
    BY <2>4, <2>5
  <2>11. /\ owner' \in [Goals -> Tokens \cup {0}] /\ live' \subseteq Tokens
         /\ job' \in [Jobs -> [goal : Goals \cup {0}, kind : {"none", "plan", "report"}, status : JobStatus]]
    BY <1>1, <2>2
  <2>12. got \in Answer /\ Rows /\ goal' \in [Goals -> GoalStatus] /\ Answered(i, got)
    BY <2>2, <2>4, <2>5
  <2> QED
    BY <1>2, <2>8, <2>9, <2>10, <2>11, <2>12, ServedInv
<1> QED
  BY <1>3, <1>4

\* Settling a goal keeps it.
LEMMA SettleInv == ASSUME ClientInv, NEW i \in DOMAIN calls, ServeSettle(i) PROVE ClientInv'
<1> DEFINE c == calls[i]
           j == Next1(NewJobs)
           end == IF scene.async THEN "QUEUED" ELSE "SUCCEEDED"
           reports == {k \in Jobs : job[k].goal = c.goal /\ job[k].kind = "report"} \cup {0}
           last(k) == IF k = 0 THEN "none" ELSE job[k].status
           now == ~scene.async
           listed(a, s) == [a EXCEPT !.list = [NoGoals EXCEPT ![c.goal] = s]]
<1>1. /\ c \in Call /\ owner \in [Goals -> Tokens \cup {0}] /\ goal \in [Goals -> GoalStatus] /\ live \subseteq Tokens
      /\ job \in [Jobs -> [goal : Goals \cup {0}, kind : {"none", "plan", "report"}, status : JobStatus]]
      /\ c.goal \in Goals \cup {0}
  BY ServerIs DEF Call
<1>0. c.goal \in Goals \cup {0}
  BY <1>1
<1>2. c.op = "settle" /\ Keep
  BY DEF ServeSettle, Serve
<1>3. Mine(c, c.goal) => c.goal \in Goals /\ goal[c.goal] # "none" /\ owner[c.goal] = c.token
  BY <1>1 DEF Mine
<1>4. "FAILED" \in GoalStatus /\ end \in JobStatus /\ now \in BOOLEAN
  BY DEF JobStatus, GoalStatus
<1>5. CASE /\ Mine(c, c.goal) /\ goal[c.goal] = "ACTIVE" /\ NewJobs # {}
           /\ goal' = [goal EXCEPT ![c.goal] = "FAILED"]
           /\ job' = [job EXCEPT ![j] = [goal |-> c.goal, kind |-> "report", status |-> end]]
           /\ Answered(i, listed(OkJob(j, end, c.goal, ~scene.async), "FAILED"))
           /\ UNCHANGED <<live, owner>>
  <2>1. j \in Jobs
    <3>1. NewJobs \in SUBSET Jobs /\ NewJobs # {}
      BY <1>5 DEF NewJobs
    <3>2. Next1(NewJobs) \in NewJobs
      BY <3>1, NextIs
    <3> QED
      BY <3>1, <3>2
  <2> DEFINE a == OkJob(j, end, c.goal, now)
             got == listed(a, "FAILED")
  <2>4. Answered(i, got)
    BY <1>5
  <2> HIDE DEF j, end, now
  <2>2. a \in Answer /\ a.status = end
    BY <1>0, <1>4, <2>1, OkJobIs
  <2> HIDE DEF a
  <2>3. got \in Answer /\ got.status = end /\ \A h \in Goals : got.list[h] # "none" => h = c.goal
    BY <1>3, <1>4, <1>5, <2>2, ListedIs
  <2> HIDE DEF got, listed, reports
  <2>5. Rows /\ goal' \in [Goals -> GoalStatus] /\ goal'[c.goal] # "none" /\ owner'[c.goal] = c.token
    BY <1>1, <1>3, <1>4, <1>5 DEF Rows
  <2>6. job' \in [Jobs -> [goal : Goals \cup {0}, kind : {"none", "plan", "report"}, status : JobStatus]]
    BY <1>1, <1>4, <1>5, <2>1
  <2> QED
    BY <1>1, <1>2, <1>4, <1>5, <2>3, <2>4, <2>5, <2>6, ChangedInv
<1>6. CASE /\ Mine(c, c.goal) /\ goal[c.goal] = "FAILED" /\ UNCHANGED server
           /\ \E k \in reports : Answered(i, listed(OkJob(k, last(k), c.goal, Reported(c.goal)), "FAILED"))
  <2>1. PICK k \in reports : Answered(i, listed(OkJob(k, last(k), c.goal, Reported(c.goal)), "FAILED"))
    BY <1>6
  <2>2. k \in Jobs \cup {0} /\ last(k) \in JobStatus /\ Reported(c.goal) \in BOOLEAN
    BY <1>1, <2>1 DEF JobStatus, Reported
  <2> HIDE DEF last
  <2> DEFINE a == OkJob(k, last(k), c.goal, Reported(c.goal))
             got == listed(a, "FAILED")
  <2>3. a \in Answer /\ a.status = last(k)
    BY <1>0, <2>2, OkJobIs
  <2>4. Answered(i, got)
    BY <2>1
  <2> HIDE DEF a
  <2>5. got \in Answer /\ got.status = last(k) /\ \A h \in Goals : got.list[h] # "none" => h = c.goal
    BY <1>3, <1>4, <1>6, <2>3, ListedIs
  <2> HIDE DEF got, listed, reports
  <2> QED
    BY <1>2, <1>3, <1>6, <2>2, <2>4, <2>5, AnswerInv DEF Buttons
<1>7. CASE /\ Mine(c, c.goal) /\ UNCHANGED server
           /\ Answered(i, listed(OkJob(0, "none", c.goal, FALSE), goal[c.goal]))
  <2> DEFINE a == OkJob(0, "none", c.goal, FALSE)
             got == listed(a, goal[c.goal])
  <2>1. "none" \in JobStatus /\ 0 \in Jobs \cup {0} /\ FALSE \in BOOLEAN
    BY DEF JobStatus
  <2>2. a \in Answer /\ a.status = "none"
    BY <1>0, <2>1, OkJobIs
  <2>3. Answered(i, got)
    BY <1>7
  <2> HIDE DEF a
  <2>4. goal[c.goal] \in GoalStatus
    BY <1>1, <1>3, <1>7
  <2>5. got \in Answer /\ got.status = "none" /\ \A h \in Goals : got.list[h] # "none" => h = c.goal
    BY <1>3, <1>7, <2>2, <2>4, ListedIs
  <2> HIDE DEF got, listed, reports
  <2> QED
    BY <1>2, <1>3, <1>7, <2>1, <2>3, <2>5, AnswerInv DEF Buttons
<1>8. CASE Refuse(i)
  BY <1>2, <1>8, RefuseInv
<1> QED
  BY <1>5, <1>6, <1>7, <1>8 DEF ServeSettle

\* A new goal keeps it: no list in an answer has shown its number.
LEMMA NewGoalInv == ASSUME ClientInv, NEW i \in DOMAIN calls, ServeNewGoal(i) PROVE ClientInv'
<1> DEFINE c == calls[i]
           g == Next1(NewGoals)
           got == Ok(g, "DRAFT")
<1>1. /\ c \in Call /\ owner \in [Goals -> Tokens \cup {0}] /\ goal \in [Goals -> GoalStatus] /\ live \subseteq Tokens
      /\ job \in [Jobs -> [goal : Goals \cup {0}, kind : {"none", "plan", "report"}, status : JobStatus]]
  BY ServerIs
<1>2. /\ c.op \in {"create", "restart"} /\ Keep /\ c.token \in live /\ NewGoals # {}
      /\ goal' = [goal EXCEPT ![g] = "DRAFT"] /\ owner' = [owner EXCEPT ![g] = c.token] /\ Answered(i, got)
      /\ UNCHANGED <<live, job>>
  BY DEF ServeNewGoal, Serve
<1>3. g \in Goals /\ goal[g] = "none"
  <2>1. NewGoals \in SUBSET Goals
    BY DEF NewGoals
  <2>2. Next1(NewGoals) \in NewGoals
    BY <1>2, <2>1, NextIs
  <2> QED
    BY <2>2 DEF NewGoals
<1> HIDE DEF g
<1>4. "DRAFT" \in GoalStatus
  BY DEF GoalStatus
<1>5. got \in Answer /\ got.list = NoGoals
  BY <1>3, <1>4, OkIs
<1> HIDE DEF got
<1>6. Rows /\ goal' \in [Goals -> GoalStatus] /\ owner' \in [Goals -> Tokens \cup {0}]
  BY <1>1, <1>2, <1>3, <1>4 DEF Rows
<1> QED
  BY <1>1, <1>2, <1>5, <1>6, AnswersAre, ChangedInv

\* Refusing a new goal keeps it.
LEMMA RefusedInv == ASSUME ClientInv, NEW i \in DOMAIN calls, RefuseNewGoal(i) PROVE ClientInv'
<1>1. Refuse(i) /\ Keep
  BY DEF RefuseNewGoal, Serve
<1> QED
  BY <1>1, RefuseInv

\* Deleting a goal keeps it.
LEMMA DeleteInv == ASSUME ClientInv, NEW i \in DOMAIN calls, ServeDelete(i) PROVE ClientInv'
<1> DEFINE c == calls[i]
           got == Ok(c.goal, "deleted")
<1>1. /\ c \in Call /\ owner \in [Goals -> Tokens \cup {0}] /\ goal \in [Goals -> GoalStatus] /\ live \subseteq Tokens
      /\ job \in [Jobs -> [goal : Goals \cup {0}, kind : {"none", "plan", "report"}, status : JobStatus]]
      /\ c.goal \in Goals \cup {0}
  BY ServerIs DEF Call
<1>0. c.goal \in Goals \cup {0}
  BY <1>1
<1>2. c.op = "delete" /\ Keep
  BY DEF ServeDelete, Serve
<1>3. CASE ~Mine(c, c.goal)
  BY <1>2, <1>3, RefuseInv DEF ServeDelete
<1>4. CASE Mine(c, c.goal)
  <2>1. goal' = [goal EXCEPT ![c.goal] = "deleted"] /\ Answered(i, got) /\ UNCHANGED <<live, owner, job>>
    BY <1>4 DEF ServeDelete
  <2>2. "deleted" \in GoalStatus
    BY DEF GoalStatus
  <2>3. got \in Answer /\ got.list = NoGoals
    BY <1>0, <2>2, OkIs
  <2> HIDE DEF got
  <2>4. Rows /\ goal' \in [Goals -> GoalStatus]
    BY <1>1, <2>1, <2>2 DEF Rows
  <2> QED
    BY <1>1, <1>2, <2>1, <2>3, <2>4, AnswersAre, ChangedInv
<1> QED
  BY <1>3, <1>4

\* Cancelling a job keeps it.
LEMMA CancelInv == ASSUME ClientInv, NEW i \in DOMAIN calls, ServeCancel(i) PROVE ClientInv'
<1> DEFINE c == calls[i]
           g == job[c.job].goal
           n == c.job
           no == FALSE
<1>1. /\ c \in Call /\ owner \in [Goals -> Tokens \cup {0}] /\ goal \in [Goals -> GoalStatus] /\ live \subseteq Tokens
      /\ job \in [Jobs -> [goal : Goals \cup {0}, kind : {"none", "plan", "report"}, status : JobStatus]]
      /\ c.job \in Jobs \cup {0}
  BY ServerIs DEF Call
<1>2. c.op = "cancel" /\ Keep
  BY DEF ServeCancel, Serve
<1>3. CASE ~JobOf(c)
  BY <1>2, <1>3, RefuseInv DEF ServeCancel
<1>4. CASE JobOf(c)
  <2>1. n \in Jobs /\ job[c.job].status \in JobStatus /\ g \in Goals \cup {0} /\ no \in BOOLEAN
    BY <1>1, <1>4 DEF JobOf
  <2>3. CASE job[c.job].status = "QUEUED"
    <3> DEFINE s == "CANCELLED"
               got == OkJob(n, s, g, no)
    <3>1. /\ job' = [job EXCEPT ![c.job].status = "CANCELLED"]
          /\ goal' = [goal EXCEPT ![g] = IF @ = "GENERATING" THEN "GENERATION_FAILED"
                                         ELSE IF @ = "REPLANNING" THEN "ACTIVE" ELSE @]
          /\ Answered(i, got) /\ UNCHANGED <<live, owner>>
      BY <1>4, <2>3 DEF ServeCancel
    <3>5. s \in JobStatus /\ s = "CANCELLED" /\ c.job \in Jobs
      BY <2>1 DEF JobStatus
    <3> HIDE DEF s, g, n, no
    <3>2. got \in Answer /\ got.list = NoGoals /\ got.status \in JobStatus
      BY <2>1, <3>5, OkJobIs
    <3> HIDE DEF got
    <3>3. Rows /\ goal' \in [Goals -> GoalStatus]
      BY <1>1, <3>1 DEF Rows, GoalStatus
    <3>4. job' \in [Jobs -> [goal : Goals \cup {0}, kind : {"none", "plan", "report"}, status : JobStatus]]
      BY <1>1, <3>1, <3>5
    <3> QED
      BY <1>1, <1>2, <3>1, <3>2, <3>3, <3>4, <3>5, AnswersAre, ChangedInv
  <2>4. CASE job[c.job].status # "QUEUED"
    <3> DEFINE s == job[c.job].status
               got == OkJob(n, s, g, no)
    <3>1. Answered(i, got) /\ UNCHANGED server
      BY <1>4, <2>4 DEF ServeCancel
    <3>3. s \in JobStatus /\ c.job \in Jobs
      BY <2>1
    <3> HIDE DEF s, g, n, no
    <3>2. got \in Answer /\ got.list = NoGoals /\ got.status \in JobStatus
      BY <2>1, <3>3, OkJobIs
    <3> HIDE DEF got
    <3> QED
      BY <1>2, <3>1, <3>2, <3>3, AnswersAre, AnswerInv
  <2> QED
    BY <2>3, <2>4
<1> QED
  BY <1>3, <1>4

\* Signing in and deleting the account keep it.
LEMMA AccountInv == ASSUME ClientInv, NEW i \in DOMAIN calls, ServeAccount(i) PROVE ClientInv'
<1> DEFINE c == calls[i]
           got == Ok(0, "none")
<1>1. /\ c \in Call /\ owner \in [Goals -> Tokens \cup {0}] /\ goal \in [Goals -> GoalStatus] /\ live \subseteq Tokens
      /\ job \in [Jobs -> [goal : Goals \cup {0}, kind : {"none", "plan", "report"}, status : JobStatus]]
      /\ c.op = "signin" => c.token \in Tokens
  BY ServerIs, InvSays, InDomain DEF Sound, Follows
<1>2. /\ c.op \in {"signin", "leave"} /\ Keep /\ Answered(i, got) /\ UNCHANGED <<goal, owner, job>>
      /\ (c.op = "signin" /\ live' = live \cup {c.token}) \/ live' = live \ {c.token}
  BY DEF ServeAccount, Serve
<1>3. "none" \in GoalStatus
  BY DEF GoalStatus
<1>4. got \in Answer /\ got.list = NoGoals
  BY <1>3, OkIs
<1> HIDE DEF got
<1>5. Rows /\ goal' \in [Goals -> GoalStatus] /\ owner' \in [Goals -> Tokens \cup {0}]
  BY <1>1, <1>2 DEF Rows
<1>6. live' \subseteq Tokens
  BY <1>1, <1>2
<1> QED
  BY <1>1, <1>2, <1>4, <1>5, <1>6, AnswersAre, ChangedInv

\* What a request knows stays known.
LEMMA SoundStays ==
  ASSUME NEW c, Sound(c), Rows
  PROVE  /\ c \in Call /\ Carried(c) /\ Follows(c)
         /\ \A g \in Goals : c.got.list[g] # "none" => goal'[g] # "none" /\ owner'[g] = c.token
         /\ c.got.ok /\ c.op \in {"generate", "replan", "confirm"} =>
              goal'[c.got.goal] # "none" /\ owner'[c.got.goal] = c.token
<1>1. c \in Call /\ Carried(c) /\ Follows(c) /\ OwnGoals(c)
  BY DEF Sound
<1>2. \A g \in Goals : c.got.list[g] # "none" => goal'[g] # "none" /\ owner'[g] = c.token
  BY <1>1, OwnedStays DEF OwnGoals
<1>3. c.got.ok /\ c.op \in {"generate", "replan", "confirm"} => c.got.goal \in Goals
  BY <1>1 DEF Carried
<1> QED
  BY <1>1, <1>2, <1>3 DEF OwnGoals, Rows

\* A worker's step keeps it.
LEMMA WorkInv == ASSUME ClientInv, NEW j \in Jobs, Work(j) PROVE ClientInv'
<1> DEFINE g == job[j].goal
<1>1. ClientTypes /\ Polling /\ Pressed /\ Account /\ PanelsAgree /\ \A c \in Range(calls) : Sound(c)
  BY InvSays
<1>2. /\ goal \in [Goals -> GoalStatus] /\ owner \in [Goals -> Tokens \cup {0}]
      /\ job \in [Jobs -> [goal : Goals \cup {0}, kind : {"none", "plan", "report"}, status : JobStatus]]
  BY ServerIs
<1>3. UNCHANGED <<live, owner, scene, stored, ui, calls, crossed, latest, taken, torn, acts, faults>>
  BY DEF Work
<1>4. PICK s \in JobStatus : job' = [job EXCEPT ![j].status = s]
  BY DEF Work, JobStatus
<1>5. \/ goal' = goal
      \/ \E a, b \in GoalStatus \ {"none"} :
           goal' = [goal EXCEPT ![g] = IF job[j].kind = "plan" /\ @ = "GENERATING" THEN a
                                       ELSE IF job[j].kind = "plan" /\ @ = "REPLANNING" THEN b ELSE @]
  <2>1. {"WAITING_CONFIRMATION", "GENERATION_FAILED", "ACTIVE"} \subseteq GoalStatus \ {"none"}
    BY DEF GoalStatus
  <2> QED
    BY <2>1 DEF Work
<1> HIDE DEF g
<1>6. Rows /\ goal' \in [Goals -> GoalStatus]
  BY <1>2, <1>3, <1>5 DEF Rows
<1>7. job' \in [Jobs -> [goal : Goals \cup {0}, kind : {"none", "plan", "report"}, status : JobStatus]]
  BY <1>2, <1>4
<1>8. ASSUME NEW c \in Range(calls) PROVE Sound(c)'
  <2>1. /\ c \in Call /\ Carried(c) /\ Follows(c)
        /\ \A h \in Goals : c.got.list[h] # "none" => goal'[h] # "none" /\ owner'[h] = c.token
        /\ c.got.ok /\ c.op \in {"generate", "replan", "confirm"} =>
             goal'[c.got.goal] # "none" /\ owner'[c.got.goal] = c.token
    BY <1>1, <1>6, SoundStays
  <2> QED
    BY <2>1 DEF Sound, Carried, Follows, OwnGoals, Owned
<1>9. ClientTypes'
  <2>1. ClientTypeOK'
    BY <1>1, <1>3, <1>6, <1>7 DEF ClientTypes, ClientTypeOK
  <2> QED
    BY <1>1, <1>3, <1>8, <2>1 DEF ClientTypes
<1>10. Polling' /\ Pressed'
  BY <1>1, <1>3 DEF Polling, Pressed, Single, Absent, Tracking
<1>11. Account'
  <2>1. Owned(ui.list, ui.session) => Owned(ui.list, ui.session)'
    <3>1. ASSUME Owned(ui.list, ui.session)
          PROVE  \A h \in Goals : ui.list[h] # "none" => goal'[h] # "none" /\ owner'[h] = ui.session
      BY <1>6, <3>1, OwnedStays
    <3> QED
      BY <1>3, <3>1 DEF Owned
  <2>2. Asked(ui, stored, Range(calls))' <=> Asked(ui, stored, Range(calls))
    BY <1>3 DEF Asked
  <2> QED
    BY <1>1, <1>3, <2>1, <2>2 DEF Account
<1>12. PanelsAgree'
  <2>1. Crossing(ui, calls)' = Crossing(ui, calls)
    BY <1>3 DEF Crossing
  <2> QED
    BY <1>1, <1>3, <2>1 DEF PanelsAgree, Apart
<1> QED
  BY <1>9, <1>10, <1>11, <1>12 DEF ClientInv

\* Whatever the server does for a request keeps the invariant.
LEMMA ServedKeeps == ASSUME ClientInv, NEW i \in DOMAIN calls, Served(i) PROVE ClientInv'
<1>1. "GENERATING" \in GoalStatus \ {"none"} /\ "REPLANNING" \in GoalStatus \ {"none"}
  BY DEF GoalStatus
<1> QED
  BY <1>1, ReadsInv, ConfirmInv, SettleInv, NewGoalInv, RefusedInv, PlanInv, DeleteInv, CancelInv, AccountInv DEF Served

\* What a handler makes of the panels: it clears them, or shows in those its request is for
\* what the request was about.
Panelled(c, v) == ui.sel # 0 =>
  /\ \A p \in Panels : \/ v.panel[p] \in {0, ui.panel[p]}
                       \/ p \in PanelsOf(c) /\ (About(c) = ui.sel => v.panel[p] = ui.sel)
  /\ ~torn' /\ c.op = "daily" /\ About(c) = ui.sel => v.panel["health"] \in {0, ui.sel}

\* An answer that fills panels for its own goal crosses no other.
LEMMA PanelledIs ==
  ASSUME ClientInv, NEW i \in DOMAIN calls, NEW v, Panelled(calls[i], v)
  PROVE  FinePanels(i, v)
<1> SUFFICES ASSUME ui.sel # 0 PROVE
      /\ \A p \in Panels : v.panel[p] \in {0, ui.panel[p], ui.sel} \/ p \in Crossing(ui, calls)
      /\ ~torn' /\ i # 0 /\ calls[i].op = "daily" /\ About(calls[i]) = ui.sel => v.panel["health"] \in {0, ui.sel}
  BY DEF FinePanels
<1>1. ASSUME NEW p \in Panels, v.panel[p] \notin {0, ui.panel[p], ui.sel} PROVE p \in Crossing(ui, calls)
  <2>1. p \in PanelsOf(calls[i]) /\ About(calls[i]) # ui.sel
    BY <1>1 DEF Panelled
  <2>2. calls[i] \in Range(calls)
    BY InDomain
  <2> QED
    BY <2>1, <2>2, CrossingIs
<1> QED
  BY <1>1 DEF Panelled

\* The answer to a request of who is signed in.
LEMMA ArrivalInv ==
  ASSUME ClientInv, NEW i \in DOMAIN calls, NEW v \in UI, NEW sent \in Seq(Call), calls[i].op \notin {"me", "signin"},
         v.session = ui.session, \A op \in Buttons : op \in ui.busy => op \in v.busy \/ op = calls[i].op,
         \A c \in Range(sent) : /\ Sound(c) /\ c.op \notin {"poll", "me", "signin", "refresh", "cancel"}
                                /\ c.token \in {ui.session, calls[i].token},
         v.of \in {ui.of, calls[i].token}, Owned(ui.list, calls[i].token) => Owned(v.list, calls[i].token),
         Panelled(calls[i], v), Step(v, Without(i), sent), UNCHANGED <<scene, server, stored>>,
         torn => torn', torn' \in BOOLEAN, latest' \in Jobs \cup {0}, taken' \subseteq Jobs
  PROVE  ClientInv'
<1>1. ClientTypes /\ Polling /\ Pressed /\ Account /\ ui \in UI /\ calls \in Seq(Call) /\ stored \in Tokens \cup {0}
  BY InvSays
<1>2. Rest(i) = Without(i) /\ i \in {0} \cup DOMAIN calls
  <2>1. i # 0
    BY <1>1
  <2> QED
    BY <2>1 DEF Rest
<1>3. ASSUME NEW op \in Buttons PROVE Absent(sent, op) /\ (op \in v.busy \/ Absent(Rest(i), op))
  <2>1. Absent(sent, op)
    BY DEF Absent, Buttons, Range
  <2>2. Single(calls, op) /\ (op \notin ui.busy => Absent(calls, op))
    BY <1>1 DEF Pressed
  <2>3. i # 0
    BY <1>1
  <2>4. (calls[i].op = op => Absent(Rest(i), op)) /\ (Absent(calls, op) => Absent(Rest(i), op))
    BY <1>1, <1>2, <2>2, <2>3, RestSingle
  <2> QED
    BY <2>1, <2>2, <2>4
<1>4. Fine(i, v, sent)
  BY <1>3 DEF Fine
<1>5. calls[i] \in Range(calls) /\ Range(Rest(i)) \subseteq Range(calls)
  BY <1>1, <1>2, InDomain, RestIs
<1>6. FineAccount(i, v, sent)
  <2> SUFFICES ASSUME ~torn' PROVE
        /\ v.session # 0 => v.of \in {0, v.session} /\ Owned(v.list, v.session)
        /\ v.session # 0
        /\ Asked(v, stored', Range(Rest(i)) \cup Range(sent))
    BY DEF FineAccount
  <2>1. Asked(ui, stored, Range(calls)) /\ ui.of \in {0, ui.session} /\ Owned(ui.list, ui.session)
    BY <1>1 DEF Account
  <2>2. ui.session # 0 /\ calls[i].token = ui.session
    BY <1>5, <2>1 DEF Asked
  <2>3. Asked(v, stored', Range(Rest(i)) \cup Range(sent))
    BY <1>5, <2>1, <2>2 DEF Asked
  <2> QED
    BY <2>1, <2>2, <2>3
<1>7. FinePanels(i, v)
  BY PanelledIs
<1>8. Step(v, Rest(i), sent)
  BY <1>2
<1>9. UNCHANGED <<scene, server>> /\ stored' \in Tokens \cup {0}
  BY <1>1
<1> QED
  BY <1>2, <1>4, <1>6, <1>7, <1>8, <1>9, StepInv

\* What arrives is an answer, and for what is not read when it arrives the one that was given.
LEMMA ArrivingIs ==
  ASSUME ClientInv, NEW i \in DOMAIN calls, NEW got \in {calls[i].got, NoAnswer, Ok(0, "none")}
  PROVE  /\ calls[i] \in Call /\ Sound(calls[i]) /\ got \in Answer
         /\ calls[i].goal \in Goals \cup {0} /\ calls[i].job \in Jobs \cup {0} /\ calls[i].sel \in Goals \cup {0}
         /\ calls[i].pref \in Goals \cup {0} /\ calls[i].token \in Tokens \cup {0} /\ calls[i].then \in Thens
         /\ calls[i].res \in Answer /\ got.list \in [Goals -> GoalStatus] /\ got.goal \in Goals \cup {0}
         /\ got.job \in Jobs \cup {0}
<1>1. calls[i] \in Call /\ Sound(calls[i])
  BY InvSays, InDomain DEF Sound
<1>2. "none" \in GoalStatus /\ 0 \in Goals \cup {0}
  BY DEF GoalStatus
<1>3. Ok(0, "none") \in Answer
  BY <1>2, OkIs
<1>4. got \in Answer
  BY <1>1, <1>3, AnswersAre DEF Call
<1>5. /\ calls[i].goal \in Goals \cup {0} /\ calls[i].job \in Jobs \cup {0} /\ calls[i].sel \in Goals \cup {0}
      /\ calls[i].pref \in Goals \cup {0} /\ calls[i].token \in Tokens \cup {0} /\ calls[i].then \in Thens
      /\ calls[i].res \in Answer
  BY <1>1 DEF Call
<1>6. got.list \in [Goals -> GoalStatus] /\ got.goal \in Goals \cup {0} /\ got.job \in Jobs \cup {0}
  BY <1>4 DEF Answer
<1> QED
  BY <1>1, <1>4, <1>5, <1>6

\* The job that is followed changes to the last one begun, or by a button's answer, or its
\* state moves on.
Followed ==
  ui'.tracked # ui.tracked /\ ui'.tracked # NoJob =>
    \/ {"refresh", "cancel"} \cap (ui.busy \ ui'.busy) # {}
    \/ ui'.tracked.job = latest' /\ \E i \in DOMAIN calls : ShowsJob(calls[i], ui'.tracked)
    \/ ui'.tracked.job = ui.tracked.job /\ ui.tracked.status \in activeAiJobStatuses
\* What a handler may set as the tracked job.
LEMMA FollowedIs ==
  ASSUME ui \in UI, NEW v \in UI, NEW kept, NEW sent, Step(v, kept, sent),
         v.tracked # ui.tracked /\ v.tracked # NoJob =>
           \/ \E op \in Buttons : op \in ui.busy /\ op \notin v.busy
           \/ v.tracked.job = latest' /\ \E i \in DOMAIN calls : ShowsJob(calls[i], v.tracked)
           \/ v.tracked.job = ui.tracked.job /\ ui.tracked.status \in activeAiJobStatuses
  PROVE  Followed
<1>1. ui'.tracked = v.tracked /\ ui'.busy \subseteq v.busy \cup {"board", "report"}
  BY StepUi
<1> QED
  BY <1>1 DEF Followed, Buttons

\* A panel is shown or cleared, and a job is followed.
LEMMA ShowIs ==
  ASSUME NEW u \in UI, NEW ps, NEW g \in Goals \cup {0}
  PROVE  /\ Show(u, ps, g) \in UI /\ Show(u, ps, g).session = u.session /\ Show(u, ps, g).of = u.of
         /\ Show(u, ps, g).list = u.list /\ Show(u, ps, g).sel = u.sel /\ Show(u, ps, g).tracked = u.tracked
         /\ Show(u, ps, g).busy = u.busy
         /\ \A p \in Panels : Show(u, ps, g).panel[p] = IF p \in ps THEN g ELSE u.panel[p]
<1> DEFINE f == [p \in Panels |-> IF p \in ps THEN g ELSE u.panel[p]]
           v == Show(u, ps, g)
<1>1. f \in [Panels -> Goals \cup {0}] /\ \A p \in Panels : f[p] = IF p \in ps THEN g ELSE u.panel[p]
  BY DEF UI
<1>2. v = [u EXCEPT !.panel = f]
  BY DEF Show
<1> HIDE DEF f, v
<1>3. /\ v \in UI /\ v.session = u.session /\ v.of = u.of /\ v.list = u.list /\ v.sel = u.sel
      /\ v.tracked = u.tracked /\ v.busy = u.busy /\ v.panel = f
  BY <1>1, <1>2 DEF UI
<1> QED
  BY <1>1, <1>3 DEF v

\* Setting the tracked job changes nothing else.
LEMMA TrackedIs ==
  ASSUME NEW u \in UI, NEW j \in Jobs \cup {0}, NEW s \in JobStatus
  PROVE  /\ Tracked(u, j, s) \in UI /\ Tracked(u, j, s).session = u.session /\ Tracked(u, j, s).of = u.of
         /\ Tracked(u, j, s).list = u.list /\ Tracked(u, j, s).sel = u.sel /\ Tracked(u, j, s).panel = u.panel
         /\ Tracked(u, j, s).busy = u.busy /\ Tracked(u, j, s).tracked.job = j
         /\ Tracked(u, j, s).tracked.status = s
BY DEF Tracked, UI

\* What is tracked then.
LEMMA TrackedAs == ASSUME NEW u \in UI, NEW j, NEW s PROVE Tracked(u, j, s).tracked = [job |-> j, status |-> s]
BY DEF Tracked, UI

\* What a handler that has waited for a list or the day's data does not change.
Keeps(u, v) == v \in UI /\ v.session = u.session /\ v.of = u.of /\ v.list = u.list /\ v.sel = u.sel
ButtonsKept(u, v) == \A op \in Buttons : op \in u.busy => op \in v.busy

\* The job of the settlement that has waited for a list.
Result(c) == [job |-> c.res.job, status |-> c.res.status]

\* How a settlement's handler goes on.
LEMMA SettledIs ==
  ASSUME NEW u \in UI, NEW c \in Call, c.res.status \in JobStatus
  PROVE  /\ Keeps(u, AfterSettling(u, c)) /\ ButtonsKept(u, AfterSettling(u, c))
         /\ AfterSettling(u, c).tracked = u.tracked \/ (c.res.job # 0 /\ AfterSettling(u, c).tracked = Result(c))
         /\ \A p \in Panels : \/ AfterSettling(u, c).panel[p] \in {0, u.panel[p]}
                              \/ p = "report" /\ AfterSettling(u, c).panel[p] = c.res.goal
<1> DEFINE t == IF c.res.job # 0 THEN Tracked(u, c.res.job, c.res.status) ELSE u
           failed == c.res.list[c.res.goal] = "FAILED"
           r == IF c.res.ready THEN Show(t, {"report"}, c.res.goal)
                ELSE IF failed THEN Show(t, {"report"}, 0) ELSE t
           n == [r EXCEPT !.page = IF failed THEN "failure" ELSE @]
           v == AfterSettling(u, c)
<1>1. c.res.job \in Jobs \cup {0} /\ c.res.goal \in Goals \cup {0} /\ 0 \in Goals \cup {0}
  BY DEF Call, Answer
<1>2. /\ Keeps(u, t) /\ t.panel = u.panel /\ t.busy = u.busy
      /\ t.tracked = u.tracked \/ (c.res.job # 0 /\ t.tracked = Result(c))
  BY <1>1, TrackedIs, TrackedAs DEF Keeps, Result
<1>3. v = Done(n, "settle")
  BY DEF AfterSettling
<1> HIDE DEF t, v
<1>4. /\ Keeps(u, r) /\ r.busy = u.busy /\ r.tracked = t.tracked
      /\ \A p \in Panels : r.panel[p] \in {0, u.panel[p]} \/ (p = "report" /\ r.panel[p] = c.res.goal)
  <2>1. CASE c.res.ready
    <3>1. r = Show(t, {"report"}, c.res.goal)
      BY <2>1
    <3> QED
      BY <1>1, <1>2, <3>1, ShowIs DEF Keeps
  <2>2. CASE ~c.res.ready /\ failed
    <3>1. r = Show(t, {"report"}, 0)
      BY <2>2
    <3> QED
      BY <1>1, <1>2, <3>1, ShowIs DEF Keeps
  <2>3. CASE ~c.res.ready /\ ~failed
    <3>1. r = t
      BY <2>3
    <3> QED
      BY <1>2, <3>1
  <2> QED
    BY <2>1, <2>2, <2>3
<1>5. "failure" \in Pages
  BY DEF Pages
<1> HIDE DEF r, failed
<1>6. n \in UI /\ n.session = r.session /\ n.of = r.of /\ n.list = r.list /\ n.sel = r.sel /\ n.busy = r.busy
      /\ n.tracked = r.tracked /\ n.panel = r.panel
  BY <1>4, <1>5 DEF Keeps, UI
<1> HIDE DEF n
<1>7. /\ v \in UI /\ v.session = n.session /\ v.of = n.of /\ v.list = n.list /\ v.sel = n.sel
      /\ v.busy = n.busy \ {"settle"} /\ v.tracked = n.tracked /\ v.panel = n.panel
  BY <1>3, <1>6, DoneIs
<1> QED
  BY <1>2, <1>4, <1>6, <1>7 DEF Keeps, ButtonsKept, Buttons, v

\* How the handlers go on once the list has come.
LEMMA AfterIs ==
  ASSUME NEW u \in UI, NEW c \in Call, Follows(c)
  PROVE  /\ Keeps(u, After(u, c)) /\ ButtonsKept(u, After(u, c))
         /\ \/ After(u, c).tracked = u.tracked
            \/ c.then = "settled" /\ c.res.job # 0 /\ After(u, c).tracked = Result(c)
         /\ \A p \in Panels : \/ After(u, c).panel[p] \in {0, u.panel[p]}
                              \/ c.then = "settled" /\ p = "report" /\ After(u, c).panel[p] = c.res.goal
<1> DEFINE v == After(u, c)
<1>1. c.res.goal \in Goals \cup {0} /\ "DRAFT" \in GoalStatus /\ {"plan", "goals", "create", "today"} \subseteq Pages
  BY DEF Call, Answer, GoalStatus, Pages
<1>2. CASE c.then = "settled"
  <2>1. v = AfterSettling(u, c) /\ c.res.status \in JobStatus
    BY <1>2 DEF After, Follows
  <2> HIDE DEF v
  <2> QED
    BY <1>2, <2>1, SettledIs DEF v
<1>3. CASE c.then # "settled"
  <2>1. \E n \in UI, f \in {"restart", "create", "confirm", "settle"} :
          /\ v = n \/ v = Done(n, f)
          /\ n.session = u.session /\ n.of = u.of /\ n.list = u.list /\ n.sel = u.sel /\ n.busy = u.busy
          /\ n.tracked = u.tracked /\ n.panel = u.panel
    <3>1. CASE c.then = "restarted"
      <4> DEFINE n == [u EXCEPT !.created = [goal |-> c.res.goal, status |-> "DRAFT"], !.page = "plan"]
      <4>1. v = Done(n, "restart")
        BY <3>1 DEF After
      <4>2. n \in UI /\ n.session = u.session /\ n.of = u.of /\ n.list = u.list /\ n.sel = u.sel /\ n.busy = u.busy
            /\ n.tracked = u.tracked /\ n.panel = u.panel
        BY <1>1 DEF UI
      <4> HIDE DEF n, v
      <4> QED
        BY <4>1, <4>2
    <3>2. CASE c.then = "created"
      <4> DEFINE n == [u EXCEPT !.page = "goals"]
      <4>1. v = Done(n, "create")
        BY <3>2 DEF After
      <4>2. n \in UI /\ n.session = u.session /\ n.of = u.of /\ n.list = u.list /\ n.sel = u.sel /\ n.busy = u.busy
            /\ n.tracked = u.tracked /\ n.panel = u.panel
        BY <1>1 DEF UI
      <4> HIDE DEF n, v
      <4> QED
        BY <4>1, <4>2
    <3>3. CASE c.then = "deleted"
      <4> DEFINE n == [u EXCEPT !.page = "create"]
      <4>1. v = n
        BY <3>3 DEF After
      <4>2. n \in UI /\ n.session = u.session /\ n.of = u.of /\ n.list = u.list /\ n.sel = u.sel /\ n.busy = u.busy
            /\ n.tracked = u.tracked /\ n.panel = u.panel
        BY <1>1 DEF UI
      <4> HIDE DEF n, v
      <4> QED
        BY <4>1, <4>2
    <3>4. CASE c.then = "confirmed"
      <4> DEFINE n == [u EXCEPT !.page = "today"]
      <4>1. v = Done(n, "confirm")
        BY <3>4 DEF After
      <4>2. n \in UI /\ n.session = u.session /\ n.of = u.of /\ n.list = u.list /\ n.sel = u.sel /\ n.busy = u.busy
            /\ n.tracked = u.tracked /\ n.panel = u.panel
        BY <1>1 DEF UI
      <4> HIDE DEF n, v
      <4> QED
        BY <4>1, <4>2
    <3>5. CASE c.then \notin {"restarted", "created", "deleted", "confirmed"}
      <4>1. v = u
        BY <1>3, <3>5 DEF After
      <4> HIDE DEF v
      <4> QED
        BY <4>1
    <3> QED
      BY <3>1, <3>2, <3>3, <3>4, <3>5
  <2> HIDE DEF v
  <2>2. PICK n \in UI, f \in {"restart", "create", "confirm", "settle"} :
          /\ v = n \/ v = Done(n, f)
          /\ n.session = u.session /\ n.of = u.of /\ n.list = u.list /\ n.sel = u.sel /\ n.busy = u.busy
          /\ n.tracked = u.tracked /\ n.panel = u.panel
    BY <2>1
  <2>3. /\ v \in UI /\ v.session = n.session /\ v.of = n.of /\ v.list = n.list /\ v.sel = n.sel
        /\ n.busy \ {f} \subseteq v.busy /\ v.tracked = n.tracked /\ v.panel = n.panel
    BY <2>2, DoneIs
  <2> QED
    BY <2>2, <2>3 DEF Keeps, ButtonsKept, Buttons, v
<1> QED
  BY <1>2, <1>3

\* A list that has come is shown, with the token that asked for it.
LEMMA RefreshedIs ==
  ASSUME ui \in UI, NEW u \in UI, NEW c \in Call, NEW got \in Answer
  PROVE  /\ Refreshed(u, c, got) \in UI /\ Refreshed(u, c, got).session = u.session
         /\ Refreshed(u, c, got).list = got.list /\ Refreshed(u, c, got).of = c.token
         /\ Refreshed(u, c, got).panel = u.panel /\ Refreshed(u, c, got).tracked = u.tracked
         /\ Refreshed(u, c, got).busy = u.busy
<1> DEFINE s == IF c.pref # 0 /\ got.list[c.pref] # "none" THEN c.pref
                ELSE IF c.sel = 0 \/ got.list[c.sel] = "none" THEN getDefaultGoalId(got.list) ELSE u.sel
           v == Refreshed(u, c, got)
<1>1. got.list \in [Goals -> GoalStatus] /\ c.token \in Tokens \cup {0} /\ c.pref \in Goals \cup {0}
      /\ u.sel \in Goals \cup {0}
  BY DEF Answer, Call, UI
<1>2. s \in Goals \cup {0}
  BY <1>1, DefaultIs
<1>3. v = [u EXCEPT !.list = got.list, !.of = c.token, !.sel = s]
  BY DEF Refreshed
<1> HIDE DEF s, v
<1>4. /\ v \in UI /\ v.session = u.session /\ v.list = got.list /\ v.of = c.token /\ v.panel = u.panel
      /\ v.tracked = u.tracked /\ v.busy = u.busy
  BY <1>1, <1>2, <1>3 DEF UI
<1> QED
  BY <1>4 DEF v

\* A list that comes keeps the invariant, and tracks only a job just begun.
LEMMA ListInv ==
  ASSUME ClientInv, NEW i, NEW got \in {calls[i].got, NoAnswer, Ok(0, "none")}, ListArrives(i, got)
  PROVE  ClientInv' /\ Followed
<1> DEFINE c == calls[i]
           u == IF got.ok THEN Refreshed(ui, c, got) ELSE ui
           v == After(u, c)
<1>1. /\ Takes(i, {"list"}, got) /\ Step(v, Without(i), <<>>) /\ UNCHANGED <<stored, taken>>
      /\ latest' = (IF c.then = "settled" /\ c.res.job # 0 THEN c.res.job ELSE latest)
      /\ torn' = (torn \/ Tears(c, got))
  BY DEF ListArrives
<1>2. /\ ui \in UI /\ torn \in BOOLEAN /\ latest \in Jobs \cup {0} /\ taken \subseteq Jobs
  BY InvSays
<1>0. i \in DOMAIN calls /\ c.op = "list" /\ UNCHANGED <<scene, server>> /\ (got.ok => got = c.got)
  BY <1>1 DEF Takes, Reads
<1>3. /\ i \in DOMAIN calls /\ c \in Call /\ Sound(c) /\ c.op = "list" /\ got \in Answer /\ c.res \in Answer
      /\ UNCHANGED <<scene, server>> /\ (got.ok => got = c.got)
  BY <1>0, ArrivingIs
<1>4. Follows(c) /\ Owned(c.got.list, c.token)
  BY <1>3 DEF Sound, OwnGoals
<1>5. /\ u \in UI /\ u.session = ui.session /\ u.panel = ui.panel /\ u.tracked = ui.tracked /\ u.busy = ui.busy
      /\ \/ u.of = ui.of /\ u.list = ui.list
         \/ u.of = c.token /\ u.list = c.got.list
  <2>1. CASE got.ok
    <3>1. u = Refreshed(ui, c, got) /\ got = c.got
      BY <1>3, <2>1
    <3> HIDE DEF c, u
    <3> QED
      BY <1>2, <1>3, <3>1, RefreshedIs
  <2>2. CASE ~got.ok
    BY <1>2, <2>2
  <2> QED
    BY <2>1, <2>2
<1> HIDE DEF u
<1>6. /\ Keeps(u, v) /\ ButtonsKept(u, v)
      /\ v.tracked = u.tracked \/ (c.then = "settled" /\ c.res.job # 0 /\ v.tracked = Result(c))
      /\ \A p \in Panels :
           v.panel[p] \in {0, u.panel[p]} \/ (c.then = "settled" /\ p = "report" /\ v.panel[p] = c.res.goal)
  BY <1>3, <1>4, <1>5, AfterIs
<1> HIDE DEF v
<1>7. Panelled(c, v)
  <2>1. c.then = "settled" => "report" \in PanelsOf(c) /\ About(c) = c.res.goal
    BY <1>3, <1>4 DEF PanelsOf, About, Follows
  <2> QED
    BY <1>3, <1>5, <1>6, <2>1 DEF Panelled
<1>8. Owned(ui.list, c.token) => Owned(v.list, c.token)
  BY <1>4, <1>5, <1>6 DEF Keeps
<1>9. /\ v \in UI /\ v.session = ui.session /\ v.of \in {ui.of, c.token}
      /\ \A op \in Buttons : op \in ui.busy => op \in v.busy
  BY <1>5, <1>6 DEF Keeps, ButtonsKept
<1>10. (torn => torn') /\ torn' \in BOOLEAN
  BY <1>1, <1>2
<1>11. latest' \in Jobs \cup {0} /\ taken' \subseteq Jobs
  <2>1. c.res.job \in Jobs \cup {0}
    BY <1>3 DEF Answer
  <2> QED
    BY <1>1, <1>2, <2>1
<1>12. ClientInv'
  BY <1>1, <1>3, <1>7, <1>8, <1>9, <1>10, <1>11, NothingSent, ArrivalInv
<1>13. Followed
  <2>1. v.tracked # ui.tracked => v.tracked = Result(c) /\ c.then = "settled" /\ latest' = c.res.job
    BY <1>1, <1>5, <1>6
  <2>2. v.tracked # ui.tracked => ShowsJob(calls[i], v.tracked) /\ v.tracked.job = latest'
    BY <1>3, <2>1 DEF ShowsJob, Result
  <2> QED
    BY <1>1, <1>2, <1>3, <1>9, <2>2, FollowedIs
<1> QED
  BY <1>12, <1>13

\* The day's data keep the invariant.
LEMMA DailyInv ==
  ASSUME ClientInv, NEW i, NEW got \in {calls[i].got, NoAnswer, Ok(0, "none")}, DailyArrives(i, got)
  PROVE  ClientInv' /\ Followed
<1> DEFINE c == calls[i]
           goals == IF c.goal # 0 THEN {c.goal} ELSE IF c.pref # 0 THEN {c.pref}
                    ELSE {0} \cup {g \in Goals : goal[g] = "ACTIVE" /\ owner[g] = c.token}
<1>1. /\ Takes(i, {"daily"}, got) /\ Local(i, got)
      /\ IF ~got.ok THEN Step(After(ui, c), Without(i), <<>>)
         ELSE \E g \in goals : Step(After(Show(ui, {"health", "artifacts"}, g), c), Without(i), <<>>)
  BY DEF DailyArrives
<1>2. /\ ui \in UI /\ torn \in BOOLEAN /\ latest \in Jobs \cup {0} /\ taken \subseteq Jobs
  BY InvSays
<1>0. i \in DOMAIN calls /\ c.op = "daily" /\ UNCHANGED <<scene, server>>
  BY <1>1 DEF Takes
<1>3. /\ i \in DOMAIN calls /\ c \in Call /\ Sound(c) /\ c.op = "daily" /\ got \in Answer
      /\ UNCHANGED <<scene, server>> /\ c.goal \in Goals \cup {0} /\ c.pref \in Goals \cup {0}
  BY <1>0, ArrivingIs
<1>4. Follows(c) /\ c.then # "settled"
  BY <1>3 DEF Sound, Follows
<1>5. /\ UNCHANGED <<stored, latest, taken>> /\ torn' = (torn \/ Tears(c, got))
      /\ ~got.ok => torn'
  BY <1>1, <1>3 DEF Local, Tears
<1>6. ASSUME got.ok, NEW g \in goals
      PROVE  /\ g \in Goals \cup {0} /\ (c.goal # 0 \/ c.pref # 0 => g = About(c))
             /\ c.goal = 0 /\ c.pref = 0 => About(c) = 0
  BY <1>3, <1>6 DEF About
<1> HIDE DEF goals
<1>7. PICK u \in UI :
        /\ Step(After(u, c), Without(i), <<>>) /\ u.session = ui.session /\ u.tracked = ui.tracked
        /\ u.busy = ui.busy /\ u.of = ui.of /\ u.list = ui.list
        /\ ui.sel # 0 => /\ \A p \in Panels : \/ u.panel[p] = ui.panel[p]
                                              \/ p \in PanelsOf(c) /\ (About(c) = ui.sel => u.panel[p] = ui.sel)
                         /\ ~torn' /\ About(c) = ui.sel => u.panel["health"] = ui.sel
  <2>1. CASE ~got.ok
    BY <1>1, <1>2, <1>5, <2>1
  <2>2. CASE got.ok
    <3>1. PICK g \in goals : Step(After(Show(ui, {"health", "artifacts"}, g), c), Without(i), <<>>)
      BY <1>1, <2>2
    <3>2. g \in Goals \cup {0} /\ (ui.sel # 0 /\ About(c) = ui.sel => g = ui.sel)
      BY <1>6, <2>2
    <3> DEFINE ps == {"health", "artifacts"}
               u == Show(ui, ps, g)
    <3>3. /\ u \in UI /\ u.session = ui.session /\ u.tracked = ui.tracked /\ u.busy = ui.busy /\ u.of = ui.of
          /\ u.list = ui.list /\ \A p \in Panels : u.panel[p] = IF p \in ps THEN g ELSE ui.panel[p]
      BY <1>2, <3>2, ShowIs
    <3>4. Step(After(u, c), Without(i), <<>>)
      BY <3>1
    <3>5. PanelsOf(c) = ps /\ "health" \in ps /\ "health" \in Panels
      BY <1>3 DEF PanelsOf, Panels
    <3> HIDE DEF u, ps, c
    <3>6. ui.sel # 0 => /\ \A p \in Panels : \/ u.panel[p] = ui.panel[p]
                                             \/ p \in PanelsOf(c) /\ (About(c) = ui.sel => u.panel[p] = ui.sel)
                        /\ ~torn' /\ About(c) = ui.sel => u.panel["health"] = ui.sel
      BY <3>2, <3>3, <3>5
    <3> QED
      BY <3>3, <3>4, <3>6
  <2> QED
    BY <2>1, <2>2
<1> DEFINE v == After(u, c)
<1>8. /\ Keeps(u, v) /\ ButtonsKept(u, v) /\ v.tracked = u.tracked
      /\ \A p \in Panels : v.panel[p] \in {0, u.panel[p]}
  BY <1>3, <1>4, <1>7, AfterIs
<1>9. Step(v, Without(i), <<>>)
  BY <1>7
<1> HIDE DEF v
<1>10. Panelled(c, v)
  <2>1. "health" \in Panels
    BY DEF Panels
  <2> QED
    BY <1>7, <1>8, <2>1 DEF Panelled
<1>11. Owned(ui.list, c.token) => Owned(v.list, c.token)
  BY <1>7, <1>8 DEF Keeps
<1>12. /\ v \in UI /\ v.session = ui.session /\ v.of \in {ui.of, c.token}
       /\ \A op \in Buttons : op \in ui.busy => op \in v.busy
  BY <1>7, <1>8 DEF Keeps, ButtonsKept
<1>13. (torn => torn') /\ torn' \in BOOLEAN
  BY <1>2, <1>5
<1>14. ClientInv'
  BY <1>2, <1>3, <1>5, <1>9, <1>10, <1>11, <1>12, <1>13, NothingSent, ArrivalInv
<1>15. Followed
  BY <1>2, <1>7, <1>8, <1>9, <1>12, FollowedIs
<1> QED
  BY <1>14, <1>15

\* A panel's data keep the invariant.
LEMMA PanelInv ==
  ASSUME ClientInv, NEW i, NEW got \in {calls[i].got, NoAnswer, Ok(0, "none")}, PanelArrives(i, got)
  PROVE  ClientInv' /\ Followed
<1> DEFINE c == calls[i]
           ps == IF c.op = "trend" THEN {"artifacts"} ELSE {c.op}
           u == IF got.ok THEN Show(ui, ps, c.goal) ELSE ui
           v == Done(u, c.op)
<1>1. Takes(i, {"board", "report", "trend"}, got) /\ Step(v, Without(i), <<>>) /\ Local(i, got)
  BY DEF PanelArrives
<1>2. /\ ui \in UI /\ torn \in BOOLEAN /\ latest \in Jobs \cup {0} /\ taken \subseteq Jobs
  BY InvSays
<1>3. i \in DOMAIN calls /\ c.op \in {"board", "report", "trend"} /\ UNCHANGED <<scene, server>>
  BY <1>1 DEF Takes
<1>4. c \in Call /\ c.goal \in Goals \cup {0}
  BY <1>3, ArrivingIs
<1>5. UNCHANGED <<stored, latest, taken>> /\ torn' = (torn \/ Tears(c, got))
  BY <1>1 DEF Local
<1>6. PanelsOf(c) = ps /\ About(c) = c.goal
  BY <1>3 DEF PanelsOf, About
<1>7. /\ u \in UI /\ u.session = ui.session /\ u.tracked = ui.tracked /\ u.busy = ui.busy /\ u.of = ui.of
      /\ u.list = ui.list
      /\ \A p \in Panels : u.panel[p] = ui.panel[p] \/ (p \in ps /\ u.panel[p] = c.goal)
  <2>1. CASE got.ok
    <3>1. u = Show(ui, ps, c.goal)
      BY <2>1
    <3> HIDE DEF u, ps, c
    <3> QED
      BY <1>2, <1>4, <3>1, ShowIs
  <2>2. CASE ~got.ok
    BY <1>2, <2>2
  <2> QED
    BY <2>1, <2>2
<1> HIDE DEF u, ps
<1>8. /\ v \in UI /\ v.session = u.session /\ v.tracked = u.tracked /\ v.busy = u.busy \ {c.op} /\ v.of = u.of
      /\ v.list = u.list /\ v.panel = u.panel
  BY <1>7, DoneIs
<1> HIDE DEF v
<1>9. Panelled(c, v)
  BY <1>3, <1>6, <1>7, <1>8 DEF Panelled
<1>10. (torn => torn') /\ torn' \in BOOLEAN
  BY <1>2, <1>5
<1>11. Owned(ui.list, c.token) => Owned(v.list, c.token)
  BY <1>7, <1>8
<1>12. ClientInv'
  BY <1>1, <1>2, <1>3, <1>5, <1>7, <1>8, <1>9, <1>10, <1>11, NothingSent, ArrivalInv DEF Buttons
<1>13. Followed
  BY <1>1, <1>2, <1>7, <1>8, FollowedIs
<1> QED
  BY <1>12, <1>13

\* A request that goes on for the one whose answer has come.
Goes(c, op, then) == [c EXCEPT !.op = op, !.then = then]

\* The request that follows another is sound.
LEMMA GoesOn ==
  ASSUME NEW c \in Call, Sound(c), NEW op \in {"daily", "board", "plan"}, NEW then \in {"none", "milestone"},
         op = "daily" => then = "none"
  PROVE  /\ Goes(c, op, then) \in Call /\ Sound(Goes(c, op, then))
         /\ Goes(c, op, then).op = op /\ Goes(c, op, then).token = c.token
<1> DEFINE d == Goes(c, op, then)
<1>0. d = [c EXCEPT !.op = op, !.then = then]
  BY DEF Goes
<1> HIDE DEF d
<1>1. op \in Ops /\ then \in Thens /\ then # "settled"
  BY DEF Ops, Thens
<1>2. d \in Call /\ d.op = op /\ d.token = c.token /\ d.then = then /\ d.got = c.got
  BY <1>0, <1>1 DEF Call
<1>3. Owned(c.got.list, c.token)
  BY DEF Sound, OwnGoals
<1>4. Sound(d)
  BY <1>0, <1>1, <1>2, <1>3 DEF Sound, Carried, Follows, OwnGoals, Buttons
<1> QED
  BY <1>2, <1>4 DEF d

\* A plan that comes keeps the invariant.
LEMMA PlanArrivesInv ==
  ASSUME ClientInv, NEW i, NEW got \in {calls[i].got, NoAnswer, Ok(0, "none")}, PlanArrives(i, got)
  PROVE  ClientInv' /\ Followed
<1> DEFINE c == calls[i]
           d == [c EXCEPT !.op = "daily", !.then = "none"]
           v == IF got.ok THEN [ui EXCEPT !.plan = c.goal] ELSE ui
           sent == IF c.then = "milestone" THEN <<d>> ELSE <<>>
<1>1. Takes(i, {"plan"}, got) /\ Step(v, Without(i), sent) /\ Local(i, got)
  BY DEF PlanArrives
<1>2. /\ ui \in UI /\ torn \in BOOLEAN /\ latest \in Jobs \cup {0} /\ taken \subseteq Jobs
  BY InvSays
<1>3. i \in DOMAIN calls /\ c.op = "plan" /\ UNCHANGED <<scene, server>>
  BY <1>1 DEF Takes
<1>4. c \in Call /\ c.goal \in Goals \cup {0} /\ Sound(c)
  BY <1>3, ArrivingIs
<1>5. UNCHANGED <<stored, latest, taken>> /\ torn' = (torn \/ Tears(c, got))
  BY <1>1 DEF Local
<1>6. d \in Call /\ Sound(d) /\ d.op = "daily" /\ d.token = c.token
  <2>1. d = Goes(c, "daily", "none")
    BY DEF Goes
  <2> HIDE DEF d, c
  <2> QED
    BY <1>4, <2>1, GoesOn
<1> HIDE DEF d
<1>7. sent \in Seq(Call) /\ Range(sent) \subseteq {d}
  BY <1>6, NothingSent, OneSent
<1>8. /\ v \in UI /\ v.session = ui.session /\ v.tracked = ui.tracked /\ v.busy = ui.busy /\ v.of = ui.of
      /\ v.list = ui.list /\ v.panel = ui.panel
  <2>1. CASE got.ok
    BY <1>2, <1>4, <2>1 DEF UI
  <2>2. CASE ~got.ok
    BY <1>2, <2>2
  <2> QED
    BY <2>1, <2>2
<1> HIDE DEF v, sent
<1>9. Panelled(c, v)
  BY <1>3, <1>8 DEF Panelled
<1>10. (torn => torn') /\ torn' \in BOOLEAN
  BY <1>2, <1>5
<1>11. Owned(ui.list, c.token) => Owned(v.list, c.token)
  BY <1>8
<1>12. ClientInv'
  BY <1>1, <1>2, <1>3, <1>5, <1>6, <1>7, <1>8, <1>9, <1>10, <1>11, ArrivalInv DEF Buttons
<1>13. Followed
  BY <1>1, <1>2, <1>8, FollowedIs
<1> QED
  BY <1>12, <1>13

\* An edit that is done, and loads what it has changed, keeps the invariant.
LEMMA ReloadsInv ==
  ASSUME ClientInv, NEW i, NEW got \in {calls[i].got, NoAnswer, Ok(0, "none")}, Reloads(i, got)
  PROVE  ClientInv' /\ Followed
<1> DEFINE c == calls[i]
           op == IF c.op = "card" THEN "board" ELSE "plan"
           then == IF c.op = "card" THEN "none" ELSE "milestone"
           d == [c EXCEPT !.op = op, !.then = then]
           sent == IF got.ok THEN <<d>> ELSE <<>>
<1>1. Takes(i, {"card", "milestone"}, got) /\ Step(ui, Without(i), sent) /\ Local(i, got)
  BY DEF Reloads
<1>2. /\ ui \in UI /\ torn \in BOOLEAN /\ latest \in Jobs \cup {0} /\ taken \subseteq Jobs
  BY InvSays
<1>3. i \in DOMAIN calls /\ c.op \in {"card", "milestone"} /\ UNCHANGED <<scene, server>>
  BY <1>1 DEF Takes
<1>4. c \in Call /\ Sound(c)
  BY <1>3, ArrivingIs
<1>5. UNCHANGED <<stored, latest, taken>> /\ torn' = (torn \/ Tears(c, got))
  BY <1>1 DEF Local
<1>6. op \in {"board", "plan"} /\ then \in {"none", "milestone"}
  OBVIOUS
<1> HIDE DEF op, then
<1>7. d \in Call /\ Sound(d) /\ d.op = op /\ d.token = c.token
  <2>1. op \in {"daily", "board", "plan"} /\ then \in {"none", "milestone"} /\ (op = "daily" => then = "none")
    BY <1>6
  <2>2. c \in Call /\ Sound(c)
    BY <1>4
  <2>3. d = Goes(c, op, then)
    BY DEF Goes
  <2> HIDE DEF c, d
  <2> QED
    BY <2>1, <2>2, <2>3, GoesOn
<1> HIDE DEF d
<1>8. sent \in Seq(Call) /\ Range(sent) \subseteq {d}
  BY <1>7, NothingSent, OneSent
<1> HIDE DEF sent
<1>9. Panelled(c, ui)
  BY <1>3 DEF Panelled
<1>10. (torn => torn') /\ torn' \in BOOLEAN
  BY <1>2, <1>5
<1>11. ClientInv'
  BY <1>1, <1>2, <1>3, <1>5, <1>6, <1>7, <1>8, <1>9, <1>10, ArrivalInv DEF Buttons
<1>12. Followed
  BY <1>1, <1>2, FollowedIs
<1> QED
  BY <1>11, <1>12

\* What a polled success has the client ask for.
LEMMA SuccessIs ==
  ASSUME ui \in UI, NEW c \in Call, NEW g \in Goals \cup {0}, NEW kind
  PROVE  /\ Success(c, g, kind) \in Seq(Call)
         /\ \A d \in Range(Success(c, g, kind)) : Sound(d) /\ d.op \in {"report", "list", "plan"} /\ d.token = ui.session
<1> DEFINE r == Ask(ui, "report", g)
           l == AskList(ui, g, c.sel, "none")
           p == Ask(ui, "plan", g)
           first == <<l>>
           more == IF c.sel \in {0, g} THEN <<p>> ELSE <<>>
<1>1. r \in Call /\ Sound(r) /\ r.op = "report" /\ r.token = ui.session
  BY AskIs, AskSound, OpsAre
<1>2. p \in Call /\ Sound(p) /\ p.op = "plan" /\ p.token = ui.session
  BY AskIs, AskSound, OpsAre
<1>3. l \in Call /\ Sound(l) /\ l.op = "list" /\ l.token = ui.session
  <2>1. c.sel \in Goals \cup {0} /\ "none" \in Thens \ {"settled"}
    BY DEF Call, Thens
  <2> QED
    BY <2>1, AskListIs
<1>4. Success(c, g, kind) = IF kind = "report" THEN <<r>> ELSE first \o more
  BY DEF Success
<1> HIDE DEF r, l, p
<1>5. /\ more \in Seq(Call) /\ Range(more) \subseteq {p}
      /\ first \in Seq(Call) /\ Range(first) = {l} /\ <<r>> \in Seq(Call) /\ Range(<<r>>) = {r}
  BY <1>1, <1>2, <1>3, NothingSent, OneSent
<1> HIDE DEF first, more
<1>6. first \o more \in Seq(Call) /\ Range(first \o more) = Range(first) \cup Range(more)
  <2>1. first \in Seq(Call) /\ more \in Seq(Call)
    BY <1>5
  <2> QED
    BY <2>1, Union
<1> QED
  BY <1>1, <1>2, <1>3, <1>4, <1>5, <1>6

\* The polling's answer keeps the invariant, and goes on from the job it was about.
LEMMA PollArrivesInv ==
  ASSUME ClientInv, NEW i, NEW got \in {calls[i].got, NoAnswer, Ok(0, "none")}, PollArrives(i, got)
  PROVE  ClientInv' /\ Followed
<1> DEFINE c == calls[i]
           v == IF got.ok THEN Tracked(ui, c.job, got.status) ELSE ui
           kind == job[c.job].kind
           sent == IF got.ok /\ got.status = "SUCCEEDED" THEN Success(c, got.goal, kind) ELSE <<>>
<1>1. Takes(i, {"poll"}, got) /\ Step(v, Without(i), sent) /\ Local(i, got)
  BY DEF PollArrives
<1>2. /\ ui \in UI /\ torn \in BOOLEAN /\ latest \in Jobs \cup {0} /\ taken \subseteq Jobs /\ Polling
  BY InvSays
<1>3. i \in DOMAIN calls /\ c.op = "poll" /\ UNCHANGED <<scene, server>> /\ (got.ok => got = c.got)
  BY <1>1 DEF Takes, Reads
<1>4. c \in Call /\ Sound(c) /\ c.job \in Jobs \cup {0} /\ got.goal \in Goals \cup {0}
  BY <1>3, ArrivingIs
<1>5. UNCHANGED <<stored, latest, taken>> /\ torn' = (torn \/ Tears(c, got))
  BY <1>1 DEF Local
<1>6. c.job = ui.tracked.job /\ ui.tracked.status \in activeAiJobStatuses
  BY <1>2, <1>3, InDomain DEF Polling, Tracking
<1>7. got.ok => got.status \in JobStatus
  BY <1>3, <1>4 DEF Sound, Carried
<1>8. sent \in Seq(Call) /\ \A d \in Range(sent) : Sound(d) /\ d.op \in {"report", "list", "plan"} /\ d.token = ui.session
  <2> HIDE DEF c, kind
  <2>1. CASE got.ok /\ got.status = "SUCCEEDED"
    BY <1>2, <1>4, <2>1, SuccessIs
  <2>2. CASE ~(got.ok /\ got.status = "SUCCEEDED")
    BY <2>2, NothingSent
  <2> QED
    BY <2>1, <2>2
<1> HIDE DEF sent
<1>9. /\ v \in UI /\ v.session = ui.session /\ v.busy = ui.busy /\ v.of = ui.of /\ v.list = ui.list /\ v.panel = ui.panel
      /\ v.tracked = ui.tracked \/ v.tracked.job = c.job
  <2>1. CASE got.ok
    BY <1>2, <1>4, <1>7, <2>1, TrackedIs
  <2>2. CASE ~got.ok
    BY <1>2, <2>2
  <2> QED
    BY <2>1, <2>2
<1> HIDE DEF v
<1>10. Panelled(c, v)
  BY <1>3, <1>9 DEF Panelled
<1>11. (torn => torn') /\ torn' \in BOOLEAN
  BY <1>2, <1>5
<1>12. Owned(ui.list, c.token) => Owned(v.list, c.token)
  BY <1>9
<1>13. ClientInv'
  BY <1>1, <1>2, <1>3, <1>5, <1>8, <1>9, <1>10, <1>11, <1>12, ArrivalInv DEF Buttons
<1>14. Followed
  BY <1>1, <1>2, <1>6, <1>9, FollowedIs
<1> QED
  BY <1>13, <1>14

\* A list that a handler asks for as the account it began with.
Fits(n, then, res) == then = "settled" => res.status \in JobStatus /\ n = res.goal
ListAs(u, n, c, then, res) == [AskList(u, n, c.sel, then) EXCEPT !.token = c.token, !.res = res]
\* A list that a handler asks for as the account it began with, to go on when it is there.
LEMMA ListAsked ==
  ASSUME NEW u \in UI, NEW n \in Goals \cup {0}, NEW c \in Call, NEW then \in Thens, NEW res \in Answer,
         Fits(n, then, res)
  PROVE  /\ ListAs(u, n, c, then, res) \in Call /\ Sound(ListAs(u, n, c, then, res))
         /\ ListAs(u, n, c, then, res).op = "list" /\ ListAs(u, n, c, then, res).token = c.token
<1> DEFINE a == Ask(u, "list", 0)
           d == ListAs(u, n, c, then, res)
<1>1. a \in Call /\ a.op = "list" /\ a.got = NoAnswer /\ c.sel \in Goals \cup {0} /\ c.token \in Tokens \cup {0}
  BY AskIs, OpsAre DEF Call
<1>2. d = [a EXCEPT !.pref = n, !.sel = c.sel, !.then = then, !.token = c.token, !.res = res]
  <2>1. d = [[a EXCEPT !.pref = n, !.sel = c.sel, !.then = then] EXCEPT !.token = c.token, !.res = res]
    BY DEF AskList, ListAs
  <2> HIDE DEF a, d
  <2> QED
    BY <1>1, <2>1 DEF Call
<1> HIDE DEF a, d
<1>3. /\ d \in Call /\ d.got = NoAnswer /\ d.op = "list" /\ d.token = c.token /\ d.pref = n /\ d.then = then /\ d.res = res
  BY <1>1, <1>2 DEF Call
<1>4. Sound(d)
  BY <1>3, NewSound DEF Follows, Fits
<1> QED
  BY <1>3, <1>4 DEF d

\* The list that is loaded once a job is cancelled.
LEMMA TokenAsked ==
  ASSUME NEW u \in UI, NEW n \in Goals \cup {0}, NEW g \in Goals \cup {0}, NEW t \in Tokens \cup {0}
  PROVE  LET d == [AskList(u, n, g, "none") EXCEPT !.token = t] IN
         d \in Call /\ Sound(d) /\ d.op = "list" /\ d.token = t
<1> DEFINE a == Ask(u, "list", 0)
           d == [AskList(u, n, g, "none") EXCEPT !.token = t]
<1>1. a \in Call /\ a.op = "list" /\ a.got = NoAnswer
  BY AskIs, OpsAre
<1>2. d = [a EXCEPT !.pref = n, !.sel = g, !.then = "none", !.token = t]
  <2>1. d = [[a EXCEPT !.pref = n, !.sel = g, !.then = "none"] EXCEPT !.token = t]
    BY DEF AskList
  <2> HIDE DEF a, d
  <2> QED
    BY <1>1, <2>1 DEF Call
<1> HIDE DEF a, d
<1>3. d \in Call /\ d.got = NoAnswer /\ d.op = "list" /\ d.token = t /\ d.then = "none"
  BY <1>1, <1>2 DEF Call, Thens
<1>4. Sound(d)
  BY <1>3, NewSound DEF Follows
<1> QED
  BY <1>3, <1>4 DEF d

\* The answer to a button of the job keeps the invariant.
LEMMA JobArrivesInv ==
  ASSUME ClientInv, NEW i, NEW got \in {calls[i].got, NoAnswer, Ok(0, "none")}, JobArrives(i, got)
  PROVE  ClientInv' /\ Followed
<1> DEFINE c == calls[i]
           u == IF got.ok THEN Tracked(ui, c.job, got.status) ELSE ui
           v == Done(u, c.op)
           d == [AskList(ui, got.goal, c.sel, "none") EXCEPT !.token = c.token]
           sent == IF got.ok /\ c.op = "cancel" THEN <<d>> ELSE <<>>
<1>1. /\ Takes(i, {"refresh", "cancel"}, got) /\ Step(v, Without(i), sent)
      /\ taken' = (IF got.ok THEN taken \cup {c.job} ELSE taken) /\ UNCHANGED <<stored, latest, torn>>
  BY DEF JobArrives
<1>2. /\ ui \in UI /\ torn \in BOOLEAN /\ latest \in Jobs \cup {0} /\ taken \subseteq Jobs /\ Pressed
  BY InvSays
<1>3. i \in DOMAIN calls /\ c.op \in Buttons /\ UNCHANGED <<scene, server>> /\ (got.ok => got = c.got)
  BY <1>1 DEF Takes, Reads, Buttons
<1>4. /\ c \in Call /\ Sound(c) /\ c.job \in Jobs \cup {0} /\ got.goal \in Goals \cup {0}
      /\ c.sel \in Goals \cup {0} /\ c.token \in Tokens \cup {0}
  BY <1>3, ArrivingIs
<1>5. got.ok => got.status \in JobStatus /\ c.job \in Jobs
  BY <1>3, <1>4 DEF Sound, Carried, Buttons
<1>6. c.op \in ui.busy
  BY <1>2, <1>3 DEF Pressed, Absent
<1>7. d \in Call /\ Sound(d) /\ d.op = "list" /\ d.token = c.token
  <2> DEFINE n == got.goal
             g == c.sel
             t == c.token
  <2>1. ui \in UI /\ n \in Goals \cup {0} /\ g \in Goals \cup {0} /\ t \in Tokens \cup {0}
    BY <1>2, <1>4
  <2> HIDE DEF n, g, t
  <2>2. LET e == [AskList(ui, n, g, "none") EXCEPT !.token = t] IN
        e \in Call /\ Sound(e) /\ e.op = "list" /\ e.token = t
    BY <2>1, TokenAsked
  <2> QED
    BY <2>2 DEF n, g, t
<1> HIDE DEF d
<1>8. sent \in Seq(Call) /\ Range(sent) \subseteq {d}
  BY <1>7, NothingSent, OneSent
<1> HIDE DEF sent
<1>9. /\ u \in UI /\ u.session = ui.session /\ u.busy = ui.busy /\ u.of = ui.of /\ u.list = ui.list /\ u.panel = ui.panel
  <2>1. CASE got.ok
    BY <1>2, <1>4, <1>5, <2>1, TrackedIs
  <2>2. CASE ~got.ok
    BY <1>2, <2>2
  <2> QED
    BY <2>1, <2>2
<1> HIDE DEF u
<1>10. /\ v \in UI /\ v.session = ui.session /\ v.busy = ui.busy \ {c.op} /\ v.of = ui.of
       /\ v.list = ui.list /\ v.panel = ui.panel
  BY <1>9, DoneIs
<1> HIDE DEF v
<1>11. Panelled(c, v)
  BY <1>3, <1>10 DEF Panelled, Buttons
<1>12. (torn => torn') /\ torn' \in BOOLEAN /\ taken' \subseteq Jobs
  BY <1>1, <1>2, <1>5
<1>13. Owned(ui.list, c.token) => Owned(v.list, c.token)
  BY <1>10
<1>14. c.op \notin {"me", "signin"}
  BY <1>3 DEF Buttons
<1>15. ClientInv'
  BY <1>1, <1>2, <1>3, <1>7, <1>8, <1>10, <1>11, <1>12, <1>13, <1>14, ArrivalInv DEF Buttons
<1>16. Followed
  BY <1>1, <1>2, <1>3, <1>6, <1>10, FollowedIs
<1> QED
  BY <1>15, <1>16

\* A goal in an answer is put in the list and selected.
LEMMA PutIs ==
  ASSUME NEW u \in UI, NEW c \in Call, NEW g \in Goals, NEW s \in GoalStatus
  PROVE  /\ Put(u, c, g, s) \in UI /\ Put(u, c, g, s).session = u.session /\ Put(u, c, g, s).of = c.token
         /\ Put(u, c, g, s).panel = u.panel /\ Put(u, c, g, s).tracked = u.tracked /\ Put(u, c, g, s).busy = u.busy
         /\ Put(u, c, g, s).list = [u.list EXCEPT ![g] = s]
<1>1. c.token \in Tokens \cup {0}
  BY DEF Call
<1> DEFINE v == Put(u, c, g, s)
<1>2. v = [u EXCEPT !.list[g] = s, !.of = c.token, !.created = [goal |-> g, status |-> s], !.sel = g]
  BY DEF Put
<1> HIDE DEF v
<1>3. v \in UI
  BY <1>1, <1>2 DEF UI
<1>4. /\ v.session = u.session /\ v.of = c.token /\ v.panel = u.panel /\ v.tracked = u.tracked /\ v.busy = u.busy
      /\ v.list = [u.list EXCEPT ![g] = s]
  BY <1>2 DEF UI
<1> QED
  BY <1>3, <1>4 DEF v

\* What an answer that is taken brings of the account's goals.
LEMMA AnswerGoal ==
  ASSUME NEW c \in Call, Sound(c), c.got.ok, c.op \in {"generate", "replan", "confirm"}
  PROVE  /\ c.got.goal \in Goals /\ goal[c.got.goal] # "none" /\ owner[c.got.goal] = c.token
         /\ c.op # "confirm" => c.got.status \in JobStatus
         /\ c.op = "confirm" => c.got.status \in GoalStatus
         /\ c.got.list \in [Goals -> GoalStatus] /\ c.got.job \in Jobs \cup {0}
<1>1. c.got \in Answer
  BY DEF Call
<1>2. c.got.list \in [Goals -> GoalStatus] /\ c.got.job \in Jobs \cup {0}
  BY <1>1 DEF Answer
<1> QED
  BY <1>2 DEF Sound, Carried, OwnGoals

\* A plan's job that is begun, or its plan, keeps the invariant; it is the last job.
LEMMA GenerateArrivesInv ==
  ASSUME ClientInv, NEW i, NEW got \in {calls[i].got, NoAnswer, Ok(0, "none")}, GenerateArrives(i, got)
  PROVE  ClientInv' /\ Followed
<1> DEFINE c == calls[i]
           g == got.goal
           s == got.list[g]
           p == Put(ui, c, g, s)
           r == Tracked(p, got.job, got.status)
           u == IF got.ok THEN [r EXCEPT !.plan = IF got.ready THEN g ELSE 0,
                                         !.page = IF got.ready \/ c.op = "replan" THEN "plan" ELSE @] ELSE ui
           v == Done(u, c.op)
<1>1. /\ Takes(i, {"generate", "replan"}, got) /\ Step(v, Without(i), <<>>)
      /\ latest' = (IF got.ok THEN got.job ELSE latest) /\ UNCHANGED <<stored, taken, torn>>
  BY DEF GenerateArrives
<1>2. /\ ui \in UI /\ torn \in BOOLEAN /\ latest \in Jobs \cup {0} /\ taken \subseteq Jobs
  BY InvSays
<1>3. i \in DOMAIN calls /\ c.op \in {"generate", "replan"} /\ UNCHANGED <<scene, server>> /\ (got.ok => got = c.got)
  BY <1>1 DEF Takes, Reads
<1>4. c \in Call /\ Sound(c)
  BY <1>3, ArrivingIs
<1>5. got.ok => /\ g \in Goals /\ goal[g] # "none" /\ owner[g] = c.token /\ got.status \in JobStatus
                /\ s \in GoalStatus /\ got.job \in Jobs \cup {0}
  <2> SUFFICES ASSUME got.ok PROVE /\ g \in Goals /\ goal[g] # "none" /\ owner[g] = c.token /\ got.status \in JobStatus
                                   /\ s \in GoalStatus /\ got.job \in Jobs \cup {0}
    OBVIOUS
  <2>1. got = c.got /\ c.op \in {"generate", "replan", "confirm"} /\ c.op # "confirm"
    BY <1>3
  <2> HIDE DEF c
  <2>2. /\ c.got.goal \in Goals /\ goal[c.got.goal] # "none" /\ owner[c.got.goal] = c.token
        /\ c.got.status \in JobStatus /\ c.got.list \in [Goals -> GoalStatus] /\ c.got.job \in Jobs \cup {0}
    BY <1>4, <2>1, AnswerGoal
  <2> QED
    BY <2>1, <2>2
<1>6. CASE got.ok
  <2>1. /\ p \in UI /\ p.session = ui.session /\ p.of = c.token /\ p.panel = ui.panel /\ p.busy = ui.busy
        /\ p.list = [ui.list EXCEPT ![g] = s]
    <3> HIDE DEF c, g, s
    <3> QED
      BY <1>2, <1>4, <1>5, <1>6, PutIs
  <2> HIDE DEF p
  <2>2. /\ r \in UI /\ r.session = p.session /\ r.of = p.of /\ r.panel = p.panel /\ r.busy = p.busy /\ r.list = p.list
        /\ r.tracked = [job |-> got.job, status |-> got.status]
    BY <1>5, <1>6, <2>1, TrackedIs, TrackedAs
  <2> HIDE DEF r
  <2>3. /\ u \in UI /\ u.session = r.session /\ u.of = r.of /\ u.panel = r.panel /\ u.busy = r.busy /\ u.list = r.list
        /\ u.tracked = r.tracked
    <3>1. u = [r EXCEPT !.plan = IF got.ready THEN g ELSE 0,
                        !.page = IF got.ready \/ c.op = "replan" THEN "plan" ELSE @]
      BY <1>6
    <3>2. (IF got.ready THEN g ELSE 0) \in Goals \cup {0} /\ "plan" \in Pages
      BY <1>5, <1>6 DEF Pages
    <3> HIDE DEF u, g, c
    <3> QED
      BY <2>2, <3>1, <3>2 DEF UI
  <2> HIDE DEF u
  <2>4. /\ v \in UI /\ v.session = u.session /\ v.tracked = u.tracked /\ v.busy = u.busy \ {c.op} /\ v.of = u.of
        /\ v.list = u.list /\ v.panel = u.panel
    BY <2>3, DoneIs
  <2> HIDE DEF v
  <2>5. Panelled(c, v)
    BY <1>3, <2>1, <2>2, <2>3, <2>4 DEF Panelled
  <2>6. Owned(ui.list, c.token) => Owned(v.list, c.token)
    <3>1. ui.list \in [Goals -> GoalStatus]
      BY <1>2 DEF UI
    <3>2. v.list = [ui.list EXCEPT ![g] = s] /\ g \in Goals /\ goal[g] # "none" /\ owner[g] = c.token
      BY <1>5, <1>6, <2>1, <2>2, <2>3, <2>4
    <3> HIDE DEF g, s, c
    <3> QED
      BY <3>1, <3>2 DEF Owned
  <2>7. latest' \in Jobs \cup {0} /\ v.tracked.job = latest'
    BY <1>1, <1>5, <1>6, <2>2, <2>3, <2>4
  <2>8. ClientInv'
    BY <1>1, <1>2, <1>3, <2>1, <2>2, <2>3, <2>4, <2>5, <2>6, <2>7, NothingSent, ArrivalInv DEF Buttons
  <2>9. ShowsJob(calls[i], v.tracked)
    BY <1>3, <1>6, <2>2, <2>3, <2>4 DEF ShowsJob
  <2>10. Followed
    BY <1>1, <1>2, <1>3, <2>4, <2>7, <2>9, FollowedIs
  <2> QED
    BY <2>8, <2>10
<1>7. CASE ~got.ok
  <2>1. u = ui
    BY <1>7
  <2> HIDE DEF u
  <2>2. /\ v \in UI /\ v.session = ui.session /\ v.tracked = ui.tracked /\ v.busy = ui.busy \ {c.op} /\ v.of = ui.of
        /\ v.list = ui.list /\ v.panel = ui.panel
    BY <1>2, <2>1, DoneIs
  <2> HIDE DEF v
  <2>3. Panelled(c, v) /\ (Owned(ui.list, c.token) => Owned(v.list, c.token))
    BY <1>3, <2>2 DEF Panelled
  <2>4. latest' \in Jobs \cup {0}
    BY <1>1, <1>2, <1>7
  <2>5. ClientInv'
    BY <1>1, <1>2, <1>3, <2>2, <2>3, <2>4, NothingSent, ArrivalInv DEF Buttons
  <2>6. Followed
    BY <1>1, <1>2, <2>2, FollowedIs
  <2> QED
    BY <2>5, <2>6
<1> QED
  BY <1>6, <1>7

\* A confirmation keeps the invariant.
LEMMA ConfirmArrivesInv ==
  ASSUME ClientInv, NEW i, NEW got \in {calls[i].got, NoAnswer, Ok(0, "none")}, ConfirmArrives(i, got)
  PROVE  ClientInv' /\ Followed
<1> DEFINE c == calls[i]
           g == got.goal
           p == Put(ui, c, g, got.status)
           u == [p EXCEPT !.plan = g]
           d == [c EXCEPT !.op = "daily", !.at = "sent", !.goal = g, !.then = "confirmed", !.got = NoAnswer]
           v == Done(ui, "confirm")
<1>1. Takes(i, {"confirm"}, got) /\ Local(i, got)
  BY DEF ConfirmArrives
<1>2. /\ ui \in UI /\ torn \in BOOLEAN /\ latest \in Jobs \cup {0} /\ taken \subseteq Jobs
  BY InvSays
<1>3. i \in DOMAIN calls /\ c.op = "confirm" /\ UNCHANGED <<scene, server>> /\ (got.ok => got = c.got)
  BY <1>1 DEF Takes, Reads
<1>4. c \in Call /\ Sound(c)
  BY <1>3, ArrivingIs
<1>5. UNCHANGED <<stored, latest, taken>> /\ torn' = (torn \/ Tears(c, got))
  BY <1>1 DEF Local
<1>6. (torn => torn') /\ torn' \in BOOLEAN
  BY <1>2, <1>5
<1>7. CASE got.ok
  <2>1. g \in Goals /\ goal[g] # "none" /\ owner[g] = c.token /\ got.status \in GoalStatus
    <3>1. got = c.got /\ c.op = "confirm"
      BY <1>3, <1>7
    <3> HIDE DEF c
    <3>2. /\ c.got.goal \in Goals /\ goal[c.got.goal] # "none" /\ owner[c.got.goal] = c.token
          /\ c.got.status \in GoalStatus
      BY <1>4, <1>7, <3>1, AnswerGoal
    <3> QED
      BY <3>1, <3>2
  <2>2. Step(u, Without(i), <<d>>)
    BY <1>7 DEF ConfirmArrives
  <2>3. /\ p \in UI /\ p.session = ui.session /\ p.of = c.token /\ p.panel = ui.panel /\ p.busy = ui.busy
        /\ p.list = [ui.list EXCEPT ![g] = got.status] /\ p.tracked = ui.tracked
    <3> HIDE DEF c, g
    <3> QED
      BY <1>2, <1>4, <2>1, PutIs
  <2> HIDE DEF p
  <2>4. /\ u \in UI /\ u.session = p.session /\ u.of = p.of /\ u.panel = p.panel /\ u.busy = p.busy /\ u.list = p.list
        /\ u.tracked = p.tracked
    BY <2>1, <2>3 DEF UI
  <2> HIDE DEF u
  <2>5. d \in Call /\ Sound(d) /\ d.op = "daily" /\ d.token = c.token
    <3>1. NoAnswer \in Answer /\ "confirmed" \in Thens /\ "daily" \in Ops /\ g \in Goals \cup {0}
      BY <2>1, AnswersAre DEF Thens, Ops
    <3> HIDE DEF c, g
    <3>2. d \in Call /\ d.op = "daily" /\ d.token = c.token /\ d.got = NoAnswer /\ d.then = "confirmed"
      BY <1>4, <3>1 DEF Call
    <3> HIDE DEF d
    <3>3. Follows(d)
      BY <3>2 DEF Follows
    <3>4. Sound(d)
      BY <3>2, <3>3, NewSound
    <3> QED
      BY <3>2, <3>4
  <2> HIDE DEF d
  <2>6. <<d>> \in Seq(Call) /\ Range(<<d>>) = {d}
    BY <2>5, OneSent
  <2>7. Panelled(c, u)
    BY <1>3, <2>3, <2>4 DEF Panelled
  <2>8. Owned(ui.list, c.token) => Owned(u.list, c.token)
    <3>1. ui.list \in [Goals -> GoalStatus]
      BY <1>2 DEF UI
    <3> HIDE DEF g, c
    <3> QED
      BY <2>1, <2>3, <2>4, <3>1 DEF Owned
  <2> DEFINE sent == <<d>>
  <2>9. sent \in Seq(Call) /\ Range(sent) = {d} /\ Step(u, Without(i), sent)
    BY <2>2, <2>6
  <2> HIDE DEF sent
  <2>10. ClientInv'
    BY <1>2, <1>3, <1>5, <1>6, <2>3, <2>4, <2>5, <2>7, <2>8, <2>9, ArrivalInv DEF Buttons
  <2>11. Followed
    BY <1>2, <2>3, <2>4, <2>9, FollowedIs
  <2> QED
    BY <2>10, <2>11
<1>8. CASE ~got.ok
  <2>1. Step(v, Without(i), <<>>)
    BY <1>8 DEF ConfirmArrives
  <2>2. /\ v \in UI /\ v.session = ui.session /\ v.tracked = ui.tracked /\ v.busy = ui.busy \ {"confirm"} /\ v.of = ui.of
        /\ v.list = ui.list /\ v.panel = ui.panel
    BY <1>2, DoneIs
  <2> HIDE DEF v
  <2>3. Panelled(c, v) /\ (Owned(ui.list, c.token) => Owned(v.list, c.token))
    BY <1>3, <2>2 DEF Panelled
  <2>4. ClientInv'
    BY <1>2, <1>3, <1>5, <1>6, <2>1, <2>2, <2>3, NothingSent, ArrivalInv DEF Buttons
  <2>5. Followed
    BY <1>2, <2>1, <2>2, FollowedIs
  <2> QED
    BY <2>4, <2>5
<1> QED
  BY <1>7, <1>8

\* An answer after which the list is asked for.
LEMMA ThenListed ==
  ASSUME ClientInv, NEW i \in DOMAIN calls, NEW got \in Answer, NEW v \in UI, NEW n \in Goals \cup {0},
         NEW then \in Thens, calls[i].op \in {"create", "delete", "settle", "restart"}, Local(i, got), UNCHANGED <<scene, server>>,
         v.session = ui.session, v.of = ui.of, v.list = ui.list, v.busy = ui.busy, v.tracked \in {ui.tracked, NoJob},
         \A p \in Panels : v.panel[p] \in {0, ui.panel[p]},
         Fits(n, then, got),
         Step(v, Without(i), <<ListAs(ui, n, calls[i], then, got)>>)
  PROVE  ClientInv' /\ Followed
<1> DEFINE c == calls[i]
           d == ListAs(ui, n, c, then, got)
           sent == <<d>>
<1>1. Step(v, Without(i), sent)
  OBVIOUS
<1>2. /\ ui \in UI /\ torn \in BOOLEAN /\ latest \in Jobs \cup {0} /\ taken \subseteq Jobs /\ c \in Call
  BY InvSays, InDomain DEF Sound
<1>3. UNCHANGED <<stored, latest, taken>> /\ torn' = (torn \/ Tears(c, got))
  BY DEF Local
<1>4. d \in Call /\ Sound(d) /\ d.op = "list" /\ d.token = c.token
  BY <1>2, ListAsked
<1> HIDE DEF d
<1>5. sent \in Seq(Call) /\ Range(sent) = {d}
  BY <1>4, OneSent
<1> HIDE DEF sent
<1>6. Panelled(c, v)
  BY DEF Panelled
<1>7. (torn => torn') /\ torn' \in BOOLEAN
  BY <1>2, <1>3
<1>8. Owned(ui.list, c.token) => Owned(v.list, c.token)
  OBVIOUS
<1>9. ClientInv'
  BY <1>1, <1>2, <1>3, <1>4, <1>5, <1>6, <1>7, <1>8, ArrivalInv DEF Buttons
<1>10. Followed
  BY <1>1, <1>2, FollowedIs
<1> QED
  BY <1>9, <1>10

\* A goal that is created, deleted, settled or started again keeps the invariant.
LEMMA RefreshArrivesInv ==
  ASSUME ClientInv, NEW i, NEW got \in {calls[i].got, NoAnswer, Ok(0, "none")}, RefreshArrives(i, got)
  PROVE  ClientInv' /\ Followed
<1> DEFINE c == calls[i]
           g == got.goal
           mine == c.job # 0 /\ job[c.job].goal = g
           create == [ui EXCEPT !.created = [goal |-> g, status |-> "DRAFT"], !.sel = g, !.plan = 0]
           blank == Show(ui, {"board", "report", "health"}, 0)
           delete == [blank EXCEPT !.created = [goal |-> 0, status |-> "none"], !.plan = 0, !.sel = 0,
                                   !.tracked = IF mine THEN NoJob ELSE @]
           list(pref, then) == <<ListAs(ui, pref, c, then, got)>>
<1>1. Takes(i, {"create", "delete", "settle", "restart"}, got) /\ Local(i, got)
  BY DEF RefreshArrives, ListAs
<1>2. /\ ui \in UI /\ torn \in BOOLEAN /\ latest \in Jobs \cup {0} /\ taken \subseteq Jobs
  BY InvSays
<1>3. /\ i \in DOMAIN calls /\ c.op \in {"create", "delete", "settle", "restart"} /\ UNCHANGED <<scene, server>>
      /\ (got.ok => got = c.got)
  BY <1>1 DEF Takes, Reads
<1>4. c \in Call /\ Sound(c) /\ got \in Answer /\ g \in Goals \cup {0}
  BY <1>3, ArrivingIs
<1>5. got.ok /\ c.op = "settle" => got.status \in JobStatus
  BY <1>3, <1>4 DEF Sound, Carried
<1>6. /\ {"created", "deleted", "settled", "restarted"} \subseteq Thens
      /\ 0 \in Goals \cup {0} /\ {"DRAFT", "none"} \subseteq GoalStatus
  BY DEF Thens, GoalStatus
<1>7. CASE ~got.ok
  <2> DEFINE v == Done(ui, c.op)
  <2>1. Step(v, Without(i), <<>>)
    BY <1>7 DEF RefreshArrives, ListAs
  <2>2. /\ v \in UI /\ v.session = ui.session /\ v.tracked = ui.tracked /\ v.busy = ui.busy \ {c.op} /\ v.of = ui.of
        /\ v.list = ui.list /\ v.panel = ui.panel
    BY <1>2, DoneIs
  <2> HIDE DEF v
  <2>3. Panelled(c, v) /\ (Owned(ui.list, c.token) => Owned(v.list, c.token))
    BY <1>3, <2>2 DEF Panelled
  <2>4. UNCHANGED <<stored, latest, taken>> /\ torn' = (torn \/ Tears(c, got))
    BY <1>1 DEF Local
  <2>5. (torn => torn') /\ torn' \in BOOLEAN
    BY <1>2, <2>4
  <2>6. ClientInv'
    BY <1>1, <1>2, <1>3, <2>1, <2>2, <2>3, <2>4, <2>5, NothingSent, ArrivalInv DEF Buttons
  <2>7. Followed
    BY <1>1, <1>2, <2>1, <2>2, FollowedIs
  <2> QED
    BY <2>6, <2>7
<1>8. CASE got.ok /\ c.op = "create"
  <2>1. Step(create, Without(i), list(g, "created"))
    BY <1>8 DEF RefreshArrives, ListAs
  <2>2. /\ create \in UI /\ create.session = ui.session /\ create.tracked = ui.tracked /\ create.busy = ui.busy
        /\ create.of = ui.of /\ create.list = ui.list /\ create.panel = ui.panel
    BY <1>2, <1>4, <1>6 DEF UI
  <2> HIDE DEF create
  <2> QED
    BY <1>1, <1>3, <1>4, <1>6, <1>8, <2>1, <2>2, ThenListed DEF Fits
<1>9. CASE got.ok /\ c.op = "delete"
  <2>1. Step(delete, Without(i), list(0, "deleted"))
    BY <1>9 DEF RefreshArrives, ListAs
  <2>2. /\ blank \in UI /\ blank.session = ui.session /\ blank.tracked = ui.tracked /\ blank.busy = ui.busy
        /\ blank.of = ui.of /\ blank.list = ui.list /\ \A p \in Panels : blank.panel[p] \in {0, ui.panel[p]}
    BY <1>2, ShowIs
  <2> HIDE DEF blank
  <2>3. NoJob \in [job : Jobs \cup {0}, status : JobStatus]
    BY DEF NoJob, JobStatus
  <2> HIDE DEF mine
  <2>4. /\ delete \in UI /\ delete.session = ui.session /\ delete.tracked \in {ui.tracked, NoJob} /\ delete.busy = ui.busy
        /\ delete.of = ui.of /\ delete.list = ui.list /\ \A p \in Panels : delete.panel[p] \in {0, ui.panel[p]}
    BY <1>2, <1>6, <2>2, <2>3, ZenonT(40) DEF UI
  <2> HIDE DEF delete
  <2> QED
    BY <1>1, <1>3, <1>4, <1>6, <1>9, <2>1, <2>4, ThenListed DEF Fits
<1>10. CASE got.ok /\ c.op = "settle"
  <2>1. Step(ui, Without(i), list(g, "settled"))
    BY <1>10 DEF RefreshArrives, ListAs
  <2> QED
    BY <1>1, <1>2, <1>3, <1>4, <1>5, <1>6, <1>10, <2>1, ThenListed DEF Fits
<1>11. CASE got.ok /\ c.op = "restart"
  <2>1. Step(ui, Without(i), list(g, "restarted"))
    BY <1>11 DEF RefreshArrives, ListAs
  <2> QED
    BY <1>1, <1>2, <1>3, <1>4, <1>6, <1>11, <2>1, ThenListed DEF Fits
<1> QED
  BY <1>3, <1>7, <1>8, <1>9, <1>10, <1>11

\* The answer to a sign-in or to a restoring comes alone.
LEMMA Alone ==
  ASSUME ClientInv, NEW i \in DOMAIN calls, calls[i].op \in {"me", "signin"}, ~torn
  PROVE  /\ ui.session = 0 /\ ui.of = 0 /\ ui.sel = 0 /\ ui.list = NoGoals /\ Len(calls) = 1
         /\ calls[i].op = "me" => calls[i].token = stored
<1>1. Account /\ calls \in Seq(Call)
  BY InvSays
<1>2. calls[i] \in Range(calls)
  BY InDomain
<1>3. ui.session = 0 /\ (calls[i].op = "me" => calls[i].token = stored)
  BY <1>1, <1>2 DEF Account, Asked
<1>4. Len(calls) = 1
  <2>1. Len(calls) <= 1
    BY <1>1, <1>3 DEF Account
  <2> DEFINE n == Len(calls)
  <2>2. i \in 1..n /\ n \in Nat
    BY <1>1
  <2>3. n <= 1
    BY <2>1
  <2> HIDE DEF n
  <2>4. n = 1
    BY <2>2, <2>3
  <2> QED
    BY <2>4 DEF n
<1> QED
  BY <1>1, <1>3, <1>4 DEF Account

\* The answer to the only request leaves none.
LEMMA NoneLeft ==
  ASSUME calls \in Seq(Call), NEW i \in DOMAIN calls
  PROVE  /\ i # 0 /\ i \in {0} \cup DOMAIN calls /\ Rest(i) = Without(i)
         /\ Len(calls) <= 1 => Len(Rest(i)) = 0 /\ Range(Rest(i)) = {}
<1>1. i \in 1..Len(calls) /\ Len(calls) \in Nat
  OBVIOUS
<1>2. i # 0 /\ i \in {0} \cup DOMAIN calls
  BY <1>1
<1>3. Len(Rest(i)) = Len(calls) - 1 /\ Rest(i) \in Seq(Call)
  BY <1>2, RestIs
<1>4. Len(calls) <= 1 => Len(Rest(i)) = 0
  BY <1>1, <1>3
<1>5. Len(Rest(i)) = 0 => Range(Rest(i)) = {}
  BY <1>3 DEF Range
<1> QED
  BY <1>2, <1>4, <1>5 DEF Rest

\* An answer that sends nothing and may change the session.
LEMMA SessionInv ==
  ASSUME ClientInv, NEW i \in DOMAIN calls, NEW v \in UI, calls[i].op \in {"me", "signin", "leave"},
         \A op \in Buttons : op \in ui.busy => op \in v.busy, v.panel = ui.panel,
         ~torn' => /\ Len(calls) <= 1
                   /\ v.session # 0 => v.of \in {0, v.session} /\ Owned(v.list, v.session)
                   /\ v.session = 0 /\ ui.session = 0 => v.of = 0 /\ v.sel = 0 /\ v.list = NoGoals
                   /\ v.session # 0 => stored' = v.session,
         Step(v, Without(i), <<>>), UNCHANGED <<scene, server, latest, taken>>, stored' \in Tokens \cup {0},
         torn => torn', torn' \in BOOLEAN
  PROVE  ClientInv'
<1>1. calls \in Seq(Call) /\ Pressed /\ latest \in Jobs \cup {0} /\ taken \subseteq Jobs
  BY InvSays
<1>2. i # 0 /\ i \in {0} \cup DOMAIN calls /\ Rest(i) = Without(i)
  BY <1>1, NoneLeft
<1>3. ASSUME NEW op \in Buttons PROVE op \in v.busy \/ Absent(Rest(i), op)
  <2>1. CASE op \in ui.busy
    BY <2>1
  <2>2. CASE op \notin ui.busy
    <3>1. Single(calls, op) /\ Absent(calls, op)
      BY <1>1, <2>2 DEF Pressed
    <3> QED
      BY <1>1, <1>2, <3>1, RestSingle
  <2> QED
    BY <2>1, <2>2
<1>4. Fine(i, v, <<>>)
  BY <1>3, NothingSent DEF Fine
<1>5. FineAccount(i, v, <<>>)
  <2> SUFFICES ASSUME ~torn' PROVE FineAccount(i, v, <<>>)
    BY DEF FineAccount
  <2>1. Len(Rest(i)) = 0 /\ Range(Rest(i)) = {}
    BY <1>1, NoneLeft
  <2>2. Asked(v, stored', Range(Rest(i)) \cup Range(<<>>))
    BY <2>1, NothingSent DEF Asked
  <2> QED
    BY <2>1, <2>2, NothingSent DEF FineAccount
<1>6. FinePanels(i, v)
  BY DEF FinePanels
<1>7. Step(v, Rest(i), <<>>) /\ latest' \in Jobs \cup {0} /\ taken' \subseteq Jobs /\ UNCHANGED <<scene, server>>
  BY <1>1, <1>2
<1> QED
  BY <1>2, <1>4, <1>5, <1>6, <1>7, StepInv

\* The answer to a restoring keeps the invariant.
LEMMA MeArrivesInv ==
  ASSUME ClientInv, NEW i, NEW got \in {calls[i].got, NoAnswer, Ok(0, "none")}, MeArrives(i, got)
  PROVE  ClientInv' /\ Followed
<1> DEFINE c == calls[i]
           v == IF got.ok THEN [ui EXCEPT !.session = c.token] ELSE ui
<1>1. /\ Takes(i, {"me"}, got) /\ Step(v, Without(i), <<>>) /\ stored' = (IF got.ok THEN stored ELSE 0)
      /\ torn' = (torn \/ Tears(c, got)) /\ UNCHANGED <<latest, taken>>
  BY DEF MeArrives
<1>2. /\ ui \in UI /\ torn \in BOOLEAN /\ stored \in Tokens \cup {0}
  BY InvSays
<1>3. i \in DOMAIN calls /\ c.op = "me" /\ UNCHANGED <<scene, server>>
  BY <1>1 DEF Takes
<1>4. c \in Call /\ c.token \in Tokens \cup {0}
  BY <1>3, ArrivingIs
<1>5. (torn => torn') /\ torn' \in BOOLEAN /\ (~torn' => ~torn /\ got.ok)
  BY <1>1, <1>2, <1>3 DEF Tears
<1>6. /\ v \in UI /\ v.of = ui.of /\ v.list = ui.list /\ v.sel = ui.sel /\ v.panel = ui.panel /\ v.busy = ui.busy
      /\ v.tracked = ui.tracked /\ (got.ok => v.session = c.token)
  BY <1>2, <1>4 DEF UI
<1> HIDE DEF v
<1>7. ~torn' => /\ Len(calls) <= 1 /\ v.of \in {0, v.session} /\ Owned(v.list, v.session)
                /\ v.session = 0 /\ ui.session = 0 => v.of = 0 /\ v.sel = 0 /\ v.list = NoGoals
                /\ v.session # 0 => stored' = v.session
  <2> SUFFICES ASSUME ~torn' PROVE /\ Len(calls) <= 1 /\ v.of \in {0, v.session} /\ Owned(v.list, v.session)
                                   /\ v.session = 0 /\ ui.session = 0 => v.of = 0 /\ v.sel = 0 /\ v.list = NoGoals
                                   /\ v.session # 0 => stored' = v.session
    OBVIOUS
  <2>1. /\ ui.session = 0 /\ ui.of = 0 /\ ui.sel = 0 /\ ui.list = NoGoals /\ Len(calls) = 1 /\ c.token = stored
    BY <1>3, <1>5, Alone
  <2>2. Owned(NoGoals, v.session)
    BY DEF Owned, NoGoals
  <2> QED
    BY <1>1, <1>5, <1>6, <2>1, <2>2
<1>8. stored' \in Tokens \cup {0}
  BY <1>1, <1>2
<1>9. ClientInv'
  BY <1>1, <1>3, <1>5, <1>6, <1>7, <1>8, SessionInv
<1>10. Followed
  BY <1>1, <1>2, <1>6, FollowedIs
<1> QED
  BY <1>9, <1>10

\* The answer to a sign-in keeps the invariant.
LEMMA AuthenticatedInv ==
  ASSUME ClientInv, NEW i, NEW got \in {calls[i].got, NoAnswer, Ok(0, "none")}, handleAuthenticated(i, got)
  PROVE  ClientInv' /\ Followed
<1> DEFINE c == calls[i]
           u == IF got.ok THEN [ui EXCEPT !.session = c.token, !.page = "create"] ELSE ui
           v == Done(u, "auth")
<1>1. /\ Takes(i, {"signin"}, got) /\ Step(v, Without(i), <<>>) /\ stored' = (IF got.ok THEN c.token ELSE stored)
      /\ UNCHANGED <<latest, taken, torn>>
  BY DEF handleAuthenticated
<1>2. /\ ui \in UI /\ torn \in BOOLEAN /\ stored \in Tokens \cup {0}
  BY InvSays
<1>3. i \in DOMAIN calls /\ c.op = "signin" /\ UNCHANGED <<scene, server>>
  BY <1>1 DEF Takes
<1>4. c \in Call /\ Sound(c)
  BY <1>3, ArrivingIs
<1>5. c.token \in Tokens /\ c.token # 0
  BY <1>3, <1>4 DEF Sound, Follows, Tokens
<1>6. /\ u \in UI /\ u.of = ui.of /\ u.list = ui.list /\ u.sel = ui.sel /\ u.panel = ui.panel /\ u.busy = ui.busy
      /\ u.tracked = ui.tracked /\ (got.ok => u.session = c.token) /\ (~got.ok => u.session = ui.session)
  BY <1>2, <1>5 DEF UI, Pages
<1> HIDE DEF u
<1>7. /\ v \in UI /\ v.of = ui.of /\ v.list = ui.list /\ v.sel = ui.sel /\ v.panel = ui.panel /\ v.busy = ui.busy \ {"auth"}
      /\ v.tracked = ui.tracked /\ v.session = u.session
  BY <1>6, DoneIs
<1> HIDE DEF v
<1>8. ~torn' => /\ Len(calls) <= 1 /\ v.of \in {0, v.session} /\ Owned(v.list, v.session)
                /\ v.session = 0 /\ ui.session = 0 => v.of = 0 /\ v.sel = 0 /\ v.list = NoGoals
                /\ v.session # 0 => stored' = v.session
  <2> SUFFICES ASSUME ~torn' PROVE /\ Len(calls) <= 1 /\ v.of \in {0, v.session} /\ Owned(v.list, v.session)
                                   /\ v.session = 0 /\ ui.session = 0 => v.of = 0 /\ v.sel = 0 /\ v.list = NoGoals
                                   /\ v.session # 0 => stored' = v.session
    OBVIOUS
  <2>1. /\ ui.session = 0 /\ ui.of = 0 /\ ui.sel = 0 /\ ui.list = NoGoals /\ Len(calls) = 1
    BY <1>1, <1>3, Alone
  <2>2. Owned(NoGoals, v.session)
    BY DEF Owned, NoGoals
  <2> QED
    BY <1>1, <1>6, <1>7, <2>1, <2>2
<1>9. stored' \in Tokens \cup {0} /\ (torn => torn') /\ torn' \in BOOLEAN
  BY <1>1, <1>2, <1>5
<1>10. \A op \in Buttons : op \in ui.busy => op \in v.busy
  BY <1>7 DEF Buttons
<1>11. ClientInv'
  BY <1>1, <1>3, <1>7, <1>8, <1>9, <1>10, SessionInv
<1>12. Followed
  BY <1>1, <1>2, <1>7, FollowedIs
<1> QED
  BY <1>11, <1>12

\* The account's deletion keeps the invariant.
LEMMA AccountDeletedInv ==
  ASSUME ClientInv, NEW i, NEW got \in {calls[i].got, NoAnswer, Ok(0, "none")}, AccountDeleted(i, got)
  PROVE  ClientInv' /\ Followed
<1> DEFINE c == calls[i]
           v == [ui EXCEPT !.session = 0, !.tracked = NoJob, !.page = "account"]
<1>1. /\ Takes(i, {"leave"}, got) /\ torn' = (torn \/ (got.ok /\ Len(calls) > 1)) /\ UNCHANGED <<stored, latest, taken>>
      /\ Step(IF got.ok THEN v ELSE ui, Without(i), <<>>)
  BY DEF AccountDeleted
<1>2. /\ ui \in UI /\ torn \in BOOLEAN /\ stored \in Tokens \cup {0} /\ calls \in Seq(Call) /\ Account
      /\ latest \in Jobs \cup {0} /\ taken \subseteq Jobs
  BY InvSays
<1>3. i \in DOMAIN calls /\ c.op = "leave" /\ UNCHANGED <<scene, server>>
  BY <1>1 DEF Takes
<1>4. c \in Call /\ got \in Answer
  BY <1>3, ArrivingIs
<1>5. (torn => torn') /\ torn' \in BOOLEAN
  BY <1>1, <1>2, <1>4 DEF Answer
<1>6. CASE got.ok
  <2>1. /\ v \in UI /\ v.session = 0 /\ v.tracked = NoJob /\ v.of = ui.of /\ v.list = ui.list /\ v.busy = ui.busy
        /\ v.panel = ui.panel
    BY <1>2 DEF UI, NoJob, JobStatus, Pages
  <2>2. Step(v, Without(i), <<>>)
    BY <1>1, <1>6
  <2> HIDE DEF v
  <2>3. ~torn' => /\ Len(calls) <= 1
                  /\ v.session # 0 => v.of \in {0, v.session} /\ Owned(v.list, v.session)
                  /\ v.session = 0 /\ ui.session = 0 => v.of = 0 /\ v.sel = 0 /\ v.list = NoGoals
                  /\ v.session # 0 => stored' = v.session
    <3> SUFFICES ASSUME ~torn'
                 PROVE  Len(calls) <= 1 /\ ui.session # 0
      BY <2>1
    <3>1. ~torn /\ ~(Len(calls) > 1)
      BY <1>1, <1>6
    <3>2. Len(calls) \in Nat
      BY <1>2
    <3>3. Len(calls) <= 1
      BY <3>1, <3>2
    <3>4. calls[i] \in Range(calls)
      BY <1>3, InDomain
    <3>5. ui.session # 0
      BY <1>2, <1>3, <3>1, <3>4 DEF Account, Asked
    <3> QED
      BY <3>3, <3>5
  <2>4. stored' \in Tokens \cup {0}
    BY <1>1, <1>2
  <2>5. ClientInv'
    BY <1>1, <1>3, <1>5, <2>1, <2>2, <2>3, <2>4, SessionInv
  <2>6. Followed
    BY <1>2, <2>1, <2>2, FollowedIs
  <2> QED
    BY <2>5, <2>6
<1>7. CASE ~got.ok
  <2>1. Step(ui, Without(i), <<>>)
    BY <1>1, <1>7
  <2>2. Panelled(c, ui)
    BY <1>3 DEF Panelled
  <2>3. ClientInv'
    BY <1>1, <1>2, <1>3, <1>5, <2>1, <2>2, NothingSent, ArrivalInv DEF Buttons
  <2>4. Followed
    BY <1>2, <2>1, FollowedIs
  <2> QED
    BY <2>3, <2>4
<1> QED
  BY <1>6, <1>7

\* Nothing but an answer changes what is tracked; the tab opened anew tracks nothing.
LEMMA SameJob == ASSUME ui'.tracked \in {ui.tracked, NoJob} PROVE Followed
BY DEF Followed

\* A step that leaves the tracked job alone.
LEMMA StepSame ==
  ASSUME ui \in UI, NEW v \in UI, NEW sent, v.tracked = ui.tracked, Step(v, calls, sent)
  PROVE  Followed
<1>1. ui'.tracked = v.tracked
  BY StepUi
<1> QED
  BY <1>1, SameJob

\* A button's flag leaves it alone.
LEMMA PressSame ==
  ASSUME ui \in UI, NEW f \in Flags, NEW sent, Step(Begun(ui, f), calls, sent)
  PROVE  Followed
<1>1. Begun(ui, f) \in UI /\ Begun(ui, f).tracked = ui.tracked
  BY FlagIs
<1> QED
  BY <1>1, StepSame

\* What the user does tracks no other job.
LEMMA UserFollowed == ASSUME ClientInv, User PROVE Followed
<1>1. ui \in UI
  BY InvSays
<1>2. \A f \in {"create", "generate", "replan", "confirm", "settle", "restart", "refresh", "cancel",
              "trend", "auth"} : f \in Flags
  BY DEF Flags
<1>3. ASSUME NEW g \in Goals, Select(g) PROVE Followed
  <2> DEFINE v == [ui EXCEPT !.sel = g, !.created = [goal |-> g, status |-> ui.list[g]]]
  <2>1. Step(v, calls, <<>>)
    BY <1>3 DEF Select
  <2>2. v \in UI /\ v.tracked = ui.tracked
    BY <1>1 DEF UI
  <2> HIDE DEF v
  <2> QED
    BY <1>1, <2>1, <2>2, StepSame
<1>4. ASSUME NEW p \in Pages, setActivePage(p) PROVE Followed
  <2> DEFINE v == [ui EXCEPT !.page = p]
  <2>1. Step(v, calls, <<>>)
    BY <1>4 DEF setActivePage
  <2>2. v \in UI /\ v.tracked = ui.tracked
    BY <1>1 DEF UI
  <2> HIDE DEF v
  <2> QED
    BY <1>1, <2>1, <2>2, StepSame
<1>5. ASSUME NEW f \in Flags, NEW g, Press(f, g) PROVE Followed
  <2>1. Step(Begun(ui, f), calls, <<Ask(ui, f, g)>>)
    BY <1>5 DEF Press
  <2> QED
    BY <1>1, <2>1, PressSame
<1>6. ASSUME NEW name, NEW op, Again(name, op) PROVE Followed
  <2>1. Step(ui, calls, <<Ask(ui, op, ui.sel)>>)
    BY <1>6 DEF Again
  <2> QED
    BY <1>1, <2>1, StepSame
<1>7. CASE handleGeneratePlan
  BY <1>2, <1>5, <1>7 DEF handleGeneratePlan
<1>8. CASE handleRequestReplan
  BY <1>2, <1>5, <1>8 DEF handleRequestReplan
<1>9. CASE handleConfirmPlan
  BY <1>2, <1>5, <1>9 DEF handleConfirmPlan
<1>10. CASE handleSettleSelectedGoal
  BY <1>2, <1>5, <1>10 DEF handleSettleSelectedGoal
<1>11. CASE handleGenerateReportArtifact
  BY <1>2, <1>5, <1>11 DEF handleGenerateReportArtifact
<1>12. CASE handleRestartGoal
  <2> DEFINE sent == <<[Ask(ui, "restart", ui.sel) EXCEPT !.pref = ui.panel["report"]]>>
  <2>1. Step(Begun(ui, "restart"), calls, sent)
    BY <1>12 DEF handleRestartGoal
  <2> HIDE DEF sent
  <2> QED
    BY <1>1, <1>2, <2>1, PressSame
<1>13. CASE handleCreateGoal
  <2>1. Step(Begun(ui, "create"), calls, <<Ask(ui, "create", 0)>>)
    BY <1>13 DEF handleCreateGoal
  <2> QED
    BY <1>1, <1>2, <2>1, PressSame
<1>14. CASE handleDeleteSelectedGoal \/ EditRewards \/ handleSetMilestoneCompletion \/ LoadPanel
  <2> DEFINE sent == <<[Ask(ui, "delete", ui.sel) EXCEPT !.job = ui.tracked.job]>>
  <2>1. ASSUME handleDeleteSelectedGoal PROVE Step(ui, calls, sent)
    BY <2>1 DEF handleDeleteSelectedGoal
  <2> HIDE DEF sent
  <2>2. ASSUME handleDeleteSelectedGoal PROVE Followed
    BY <1>1, <2>1, <2>2, StepSame
  <2> QED
    BY <1>6, <1>14, <2>2 DEF EditRewards, handleSetMilestoneCompletion, LoadPanel
<1>15. CASE handleRefreshTrackedAiJob
  <2>1. Step(Begun(ui, "refresh"), calls, <<AskJob(ui, "refresh")>>)
    BY <1>15 DEF handleRefreshTrackedAiJob
  <2> QED
    BY <1>1, <1>2, <2>1, PressSame
<1>16. CASE handleCancelTrackedAiJob
  <2>1. Step(Begun(ui, "cancel"), calls, <<AskJob(ui, "cancel")>>)
    BY <1>16 DEF handleCancelTrackedAiJob
  <2> QED
    BY <1>1, <1>2, <2>1, PressSame
<1>17. CASE SignIn(2)
  <2> DEFINE sent == <<[Ask(ui, "signin", 0) EXCEPT !.token = 2]>>
  <2>1. Step(Begun(ui, "auth"), calls, sent)
    BY <1>17 DEF SignIn
  <2> HIDE DEF sent
  <2> QED
    BY <1>1, <1>2, <2>1, PressSame
<1>18. CASE handleDeleteCurrentAccount
  <2>1. Step(ui, calls, <<Ask(ui, "leave", 0)>>)
    BY <1>18 DEF handleDeleteCurrentAccount
  <2> QED
    BY <1>1, <2>1, StepSame
<1>19. CASE Reload
  <2>1. ui' = Fresh("create")
    BY <1>19 DEF Reload
  <2>2. ui'.tracked = NoJob
    BY <2>1 DEF Fresh
  <2> QED
    BY <2>2, SameJob
<1> QED
  BY <1>3, <1>4, <1>7, <1>8, <1>9, <1>10, <1>11, <1>12, <1>13, <1>14, <1>15, <1>16, <1>17, <1>18, <1>19 DEF User

\* What the user does keeps the invariant.
LEMMA UserInv == ASSUME ClientInv, User PROVE ClientInv'
<1>1. 2 \in Tokens
  BY DEF Tokens
<1> QED
  BY <1>1, SelectInv, PageInv, ButtonsInv, FormsInv, EditsInv, JobButtonsInv, SignInInv, LeaveInv, ReloadInv DEF User

\* What the server does changes nothing in the tab.
LEMMA ServedFollowed == ASSUME NEW i \in DOMAIN calls, Served(i) PROVE Followed
<1>1. UNCHANGED ui
  BY DEF Served, ServeReads, ServeConfirm, ServeSettle, ServeNewGoal, RefuseNewGoal, ServePlan, ServeDelete, ServeCancel,
         ServeAccount, Serve, Keep
<1> QED
  BY <1>1, SameJob

\* Every answer keeps the invariant, and tracks a job as it may.
LEMMA ArrivesInv == ASSUME ClientInv, NEW i \in DOMAIN calls, Arrives(i) PROVE ClientInv' /\ Followed
<1>1. PICK got \in {calls[i].got, NoAnswer, Ok(0, "none")} :
        \/ ListArrives(i, got) \/ DailyArrives(i, got) \/ PanelArrives(i, got) \/ PlanArrives(i, got)
        \/ Reloads(i, got) \/ PollArrives(i, got) \/ JobArrives(i, got) \/ GenerateArrives(i, got)
        \/ ConfirmArrives(i, got) \/ RefreshArrives(i, got) \/ MeArrives(i, got)
        \/ handleAuthenticated(i, got) \/ AccountDeleted(i, got)
  BY DEF Arrives
<1> QED
  BY <1>1, ListInv, DailyInv, PanelInv, PlanArrivesInv, ReloadsInv, PollArrivesInv, JobArrivesInv, GenerateArrivesInv,
     ConfirmArrivesInv, RefreshArrivesInv, MeArrivesInv, AuthenticatedInv, AccountDeletedInv

\* What a step of the client, of the server or of the user keeps.
LEMMA ClientNextKeeps == ClientInv /\ [ClientNext]_clientVars => ClientInv' /\ Followed
<1> SUFFICES ASSUME ClientInv, [ClientNext]_clientVars PROVE ClientInv' /\ Followed
  OBVIOUS
<1>1. CASE User
  BY <1>1, UserInv, UserFollowed
<1>2. CASE pollTrackedAiJob
  <2>1. UNCHANGED ui
    BY <1>2 DEF pollTrackedAiJob
  <2> QED
    BY <1>2, <2>1, IntervalInv, SameJob
<1>3. ASSUME NEW i \in DOMAIN calls, Served(i) PROVE ClientInv' /\ Followed
  BY <1>3, ServedKeeps, ServedFollowed
<1>4. ASSUME NEW i \in DOMAIN calls, Arrives(i) PROVE ClientInv' /\ Followed
  BY <1>4, ArrivesInv
<1>5. ASSUME NEW j \in Jobs, Work(j) PROVE ClientInv' /\ Followed
  <2>1. UNCHANGED ui
    BY <1>5 DEF Work
  <2> QED
    BY <1>5, <2>1, WorkInv, SameJob
<1>6. CASE UNCHANGED clientVars
  <2> USE <1>6 DEF clientVars, server
  <2>1. Followed
    BY SameJob
  <2>2. ClientTypes'
    BY DEF ClientInv, ClientTypes, ClientTypeOK, Sound, OwnGoals, Owned
  <2>3. Polling' /\ Pressed'
    BY DEF ClientInv, Polling, Pressed
  <2>4. Account'
    BY DEF ClientInv, Account, Asked, Owned
  <2>5. PanelsAgree'
    BY DEF ClientInv, PanelsAgree, Apart
  <2> QED
    BY <2>1, <2>2, <2>3, <2>4, <2>5 DEF ClientInv
<1> QED
  BY <1>1, <1>2, <1>3, <1>4, <1>5, <1>6 DEF ClientNext

\* The inductive invariant holds in every behaviour.
LEMMA ClientInvHolds == ClientSpec => []ClientInv
<1>1. ClientInv /\ [ClientNext]_clientVars => ClientInv'
  BY ClientNextKeeps
<1> QED
  BY InitInv, <1>1, PTL DEF ClientSpec

\* The client's state has its type, whatever is pressed, answered, lost or refused.
THEOREM ClientTypeOKHolds == ClientSpec => []ClientTypeOK
<1>1. ClientInv => ClientTypeOK
  BY DEF ClientInv, ClientTypes
<1> QED
  BY ClientInvHolds, <1>1, PTL

\* The panels show the selected goal once their loads are over, whatever order answers come in,
\* unless a load crossed the selection or one the client needs has failed (App.tsx:1522, 2132).
THEOREM ShownIsSelectedHolds == ClientSpec => []ShownIsSelected
<1>1. ClientInv => ShownIsSelected
  <2> SUFFICES ASSUME ClientInv, NEW p \in Panels, ui.sel # 0, ui.panel[p] \notin {0, ui.sel},
                      p \notin Filling(calls), ~torn
               PROVE  p \in crossed
    BY DEF ShownIsSelected, ClientInv, ClientTypes
  <2>1. p \in crossed \/ (p = "health" /\ \E c \in Range(calls) : c.op = "daily" /\ About(c) = ui.sel)
    BY DEF ClientInv, PanelsAgree, Apart
  <2>2. ASSUME NEW c \in Range(calls), c.op = "daily", p = "health" PROVE p \in Filling(calls)
    <3>1. PICK k \in DOMAIN calls : c = calls[k]
      BY DEF Range
    <3>2. "health" \in PanelsOf(calls[k])
      BY <2>2, <3>1 DEF PanelsOf
    <3> QED
      BY <2>2, <3>2 DEF Filling
  <2> QED
    BY <2>1, <2>2
<1> QED
  BY ClientInvHolds, <1>1, PTL

\* Nothing of one account is shown to another: the session in use is the stored one and the
\* goals listed are its account's, but for a sign-in during a restoring and an account deleted
\* with answers under way (App.tsx:1447, AuthPanel.tsx:29, App.tsx:2281).
THEOREM AccountAgreesHolds == ClientSpec => []AccountAgrees
<1>1. ClientInv => AccountAgrees
  BY DEF ClientInv, Account, Asked, AccountAgrees, Owned, Shows
<1> QED
  BY ClientInvHolds, <1>1, PTL

\* What is shown of a job changes only by the answer that follows it (a settlement's may be
\* old), by a button's answer, or by the polling of a job that is shown as running.
THEOREM TrackingKept == ClientSpec => TrackingHolds
<1>1. ClientInv /\ [ClientNext]_clientVars => Followed
  BY ClientNextKeeps
<1>2. Followed =>
        [LET old == ui.tracked
             new == ui'.tracked
             byButton == {"refresh", "cancel"} \cap (ui.busy \ ui'.busy) # {}
         IN new # old /\ new # NoJob =>
              \/ byButton
              \/ new.job = latest' /\ \E i \in DOMAIN calls : ShowsJob(calls[i], new)
              \/ new.job = old.job /\ old.status \in activeAiJobStatuses]_clientVars
  BY DEF Followed
<1> QED
  BY ClientInvHolds, <1>1, <1>2, PTL DEF ClientSpec, TrackingHolds
=============================================================================
