------------------------------ MODULE Billing ------------------------------
(***************************************************************************)
(* Payment orders of one user and what they buy (billing.service.ts): the  *)
(* order's status, the subscription it opens or extends, the entitlements  *)
(* it grants and the membership that is shown.                             *)
(*                                                                         *)
(* A notice of a payment provider may be delivered again, late, out of     *)
(* order and twice at a time.  Its handler reads the order, opens a        *)
(* transaction with a snapshot of the user's rows and commits what it has  *)
(* computed from them.  Two transactions of one order exclude each other   *)
(* by the lock on its row; those of two orders do not.  A transaction is   *)
(* short against the unit of time, a day: no day passes in one.            *)
(*                                                                         *)
(* What a provider sends is a callback; its parser refuses it or makes it  *)
(* a notice (payment-provider.ts).  Signatures hold or do not.             *)
(*                                                                         *)
(* Left out: cancelAtPeriodEnd (shown, never read), audits, and the thirty *)
(* entitlement rows, of which the last day stands for all.                 *)
(***************************************************************************)
EXTENDS Integers, Sequences, TLC

CONSTANTS
  Orders,     \* payment orders of the user
  ProviderOf, \* [Orders -> {"STRIPE", "WECHAT_PAY", "MOCK"}]
  Days,       \* [Orders -> Nat]: durationDays
  Price,      \* [Orders -> Nat]: amountCents
  TradeType,  \* WECHAT_PAY_TRADE_TYPE: NATIVE or JSAPI
  Callbacks,  \* what the providers may send; see Callback
  Refundable, \* orders the administrator may refund
  Grants,     \* memberships the administrator may set; see Membership
  Handlers,   \* requests that run at the same time
  MaxDay,     \* bound: the last day
  MaxSubs     \* bound: subscriptions

ASSUME BillingAssumption ==
  /\ Days \in [Orders -> Nat]
  /\ MaxDay \in Nat /\ MaxSubs \in Nat
  /\ ProviderOf \in [Orders -> {"STRIPE", "WECHAT_PAY", "MOCK"}]
  /\ Price \in [Orders -> Nat] /\ TradeType \in {"NATIVE", "JSAPI"}
  /\ Refundable \subseteq Orders
  /\ Grants \subseteq [plan : {"FREE", "PRO"}, status : {"ACTIVE", "MANUAL", "EXPIRED"}, end : Nat]

None == 0
Subs == 1..MaxSubs

VARIABLES
  today,
  open,       \* SUBSET Orders: those whose checkoutUrl is known
  order,      \* [Orders -> [status : OrderStatus, sub : Subs \cup {None}]]
  subs,       \* [Subs -> [status : SubStatus, end : Nat]]
  until,      \* [Orders -> Nat]: the order's entitlements are valid before it
  granted,    \* Nat: the same for the administrator's entitlements
  membership, \* Membership
  processed,  \* SUBSET Notices: payment events recorded
  booked,     \* [payments named by a notice -> BookStatus]: payment transactions
  run,        \* [Handlers -> Run]
  times,      \* [Orders -> 0..2]: how often the order was activated
  regular,    \* [Orders -> BOOLEAN]: one notice of it at a time, and no cancellation
  calm        \* BOOLEAN: one transaction of the user at a time

rows == <<order, subs, until, granted, membership, processed, booked>>
history == <<times, regular, calm>>
vars == <<today, open, rows, run, history>>
-----------------------------------------------------------------------------
OrderStatus == {"NONE", "PENDING", "PAID", "FAILED", "REFUNDED", "DISPUTED", "CANCELED"}
Revoked == {"REFUNDED", "DISPUTED"}
SubStatus == {"NONE", "ACTIVE", "CANCELED"}
BookStatus == {"NONE", "SUCCEEDED", "DUPLICATE", "IGNORED", "FAILED", "CANCELED"} \cup Revoked
Membership == [plan : {"FREE", "PRO"}, status : {"ACTIVE", "MANUAL", "EXPIRED"}, end : Nat]

\* mapStripeEventStatus, of the types it knows.
StripeStatus ==
  [t \in {"checkout.session.completed", "checkout.session.async_payment_succeeded",
          "payment_intent.succeeded", "invoice.paid", "invoice.payment_succeeded"} |-> "PAID"]
  @@ [t \in {"checkout.session.async_payment_failed", "payment_intent.payment_failed",
             "invoice.payment_failed"} |-> "FAILED"]
  @@ [t \in {"charge.refunded", "refund.created", "refund.updated"} |-> "REFUNDED"]
  @@ [t \in {"charge.dispute.created", "charge.dispute.funds_withdrawn"} |-> "DISPUTED"]
  @@ [t \in {"checkout.session.expired", "customer.subscription.deleted"} |-> "CANCELED"]

\* mapWechatEventStatus: of a refund's notice, or of a transaction's.
WechatStatus(type, state) ==
  IF type = "REFUND" THEN IF state = "SUCCESS" THEN "REFUNDED" ELSE "FAILED"
  ELSE CASE state = "SUCCESS" -> "PAID"
         [] state = "REFUND" -> "REFUNDED"
         [] state \in {"CLOSED", "REVOKED"} -> "CANCELED"
         [] OTHER -> "FAILED"

-----------------------------------------------------------------------------
(* parseWebhook: a callback is [provider, id, signed, type, about, amounts],  *)
(* about and amounts being the fields its object has, of those that are read. *)

\* The value of the first of these fields that is there.
First(record, fields, default) ==
  LET there == {i \in DOMAIN fields : fields[i] \in DOMAIN record} IN
  IF there = {} THEN default
  ELSE record[fields[CHOOSE i \in there : \A j \in there : i <= j]]

OrderIn(c, fields) == IF First(c.about, fields, None) \in Orders THEN {First(c.about, fields, None)} ELSE {}
NoAmount == -1

\* extractStripeOrderId.
StripeOrder(c) == OrderIn(c, <<"client_reference_id", "metadata", "subscription_details">>)

\* extractStripePaymentId: a session's payment intent, else the object itself.  An empty
\* name is kept, the event's id is not taken for it.
StripePayment(c) ==
  First(c.about, IF c.type \in {"checkout.session.completed", "checkout.session.expired",
                                "checkout.session.async_payment_succeeded",
                                "checkout.session.async_payment_failed"}
                 THEN <<"payment_intent", "id">> ELSE <<"id", "payment_intent">>, "empty")

StripeAmount(c) == First(c.amounts, <<"amount_total", "amount_paid", "amount", "amount_refunded">>, NoAmount)

\* A parser returns the notice, or nothing for what it refuses.
ParseStripe(c) ==
  {[id |-> c.id, order |-> o, provider |-> "STRIPE", status |-> StripeStatus[c.type],
    payment |-> StripePayment(c), amount |-> StripeAmount(c)] :
     o \in IF c.signed /\ c.type \in DOMAIN StripeStatus THEN StripeOrder(c) ELSE {}}

\* decryptResource: the order, the payment and the amounts are in a part that only the
\* provider can have sealed.
Opened(c) == IF c.sealed THEN OrderIn(c, <<"out_trade_no">>) ELSE {}

ParseWechat(c) ==
  LET status == WechatStatus(c.type, First(c.about, IF c.type = "REFUND" THEN <<"refund_status">> ELSE <<"trade_state">>, "")) IN
  {[id |-> c.id, order |-> o, provider |-> "WECHAT_PAY", status |-> status,
    payment |-> First(c.about, <<"transaction_id", "refund_id">>, c.id),
    amount |-> First(c.amounts, IF status = "REFUNDED" THEN <<"refund">> ELSE <<"total">>, NoAmount)] :
     o \in IF c.signed THEN Opened(c) ELSE {}}

\* HmacPaymentProvider: the status is said by name.
ParseHmac(c) ==
  {[id |-> c.id, order |-> o, provider |-> "MOCK", status |-> c.type,
    payment |-> First(c.about, <<"providerPaymentId">>, c.id),
    amount |-> First(c.amounts, <<"amountCents">>, NoAmount)] :
     o \in IF c.signed /\ c.type \in {"PAID", "FAILED", "REFUNDED", "DISPUTED", "CANCELED"}
           THEN OrderIn(c, <<"orderId">>) ELSE {}}

Parsed(c) ==
  CASE c.provider = "STRIPE" -> ParseStripe(c)
    [] c.provider = "WECHAT_PAY" -> ParseWechat(c)
    [] OTHER -> ParseHmac(c)

Notices == UNION {Parsed(c) : c \in Callbacks}

\* assertEventAmount.
AmountAgrees(n) == n.amount \in {NoAmount, Price[n.order]}

Payments == {n.payment : n \in Notices}
AdminRefund(o) == [order |-> o, provider |-> ProviderOf[o], status |-> "REFUNDED",
                   payment |-> "", id |-> "ADMIN_REFUND", amount |-> Price[o]]
Notice == Notices \cup {AdminRefund(o) : o \in Refundable}

\* What a transaction is going to write.
Activation == [do : {"activate"}, sub : Subs \cup {None}, end : Nat]
Revocation == [do : {"revoke"}, sub : Subs \cup {None}, shown : Membership]
Other == [do : {"cancel"}, sub : Subs] \cup [do : {"fail"}]
         \cup [do : {"book"}, as : BookStatus] \cup [do : {"nothing"}]
Write == Activation \cup Revocation \cup Other
Run == [at : {"idle"}]
       \cup [at : {"read"}, notice : Notice, seen : [status : OrderStatus, sub : Subs \cup {None}]]
       \cup [at : {"tx"}, notice : Notice, write : Write]
       \cup [at : {"grant"}, membership : Grants]
Idle == [at |-> "idle"]

TypeOK ==
  /\ today \in 0..MaxDay /\ open \subseteq Orders
  /\ order \in [Orders -> [status : OrderStatus, sub : Subs \cup {None}]]
  /\ subs \in [Subs -> [status : SubStatus, end : Nat]]
  /\ until \in [Orders -> Nat]
  /\ granted \in Nat
  /\ membership \in Membership
  /\ processed \subseteq Notices
  /\ booked \in [Payments -> BookStatus]
  /\ run \in [Handlers -> Run]
  /\ times \in [Orders -> 0..2]
  /\ regular \in [Orders -> BOOLEAN]
  /\ calm \in BOOLEAN

Init ==
  /\ today = 0 /\ open = {}
  /\ order = [o \in Orders |-> [status |-> "NONE", sub |-> None]]
  /\ subs = [s \in Subs |-> [status |-> "NONE", end |-> 0]]
  /\ until = [o \in Orders |-> 0]
  /\ granted = 0
  /\ membership = [plan |-> "FREE", status |-> "ACTIVE", end |-> 0]
  /\ processed = {}
  /\ booked = [p \in Payments |-> "NONE"]
  /\ run = [h \in Handlers |-> Idle]
  /\ times = [o \in Orders |-> 0]
  /\ regular = [o \in Orders |-> TRUE]
  /\ calm = TRUE
-----------------------------------------------------------------------------
InTx(h) == run[h].at \in {"tx", "grant"}
Busy(h, o) == run[h].at \in {"read", "tx"} /\ run[h].notice.order = o

\* A day passes.
Tick ==
  /\ today < MaxDay
  /\ \A h \in Handlers : ~InTx(h)
  /\ today' = today + 1
  /\ UNCHANGED <<open, rows, run, history>>

\* The row is written before the provider is asked for a checkout; if that fails, the
\* order stays PENDING and cannot be paid.
CreateOrder(o) ==
  /\ order[o].status = "NONE"
  /\ order' = [order EXCEPT ![o] = [status |-> "PENDING", sub |-> None]]
  /\ UNCHANGED <<today, open, subs, until, granted, membership, processed, booked, run, history>>

\* createCheckout: what the provider's answer must have.
StripeAddress(answer) == "url" \in answer
WechatAddress(answer) == (IF TradeType = "NATIVE" THEN "code_url" ELSE "prepay_id") \in answer

CreateCheckout(o) ==
  /\ order[o].status = "PENDING" /\ o \notin open
  /\ \E answer \in SUBSET {"url", "code_url", "prepay_id"} :
       CASE ProviderOf[o] = "STRIPE" -> StripeAddress(answer)
         [] ProviderOf[o] = "WECHAT_PAY" -> WechatAddress(answer)
         [] OTHER -> TRUE
  /\ open' = open \cup {o}
  /\ UNCHANGED <<today, rows, run, history>>

\* processWebhook and adminRefundOrder, up to the transaction: an event that is
\* recorded already is left alone, and the order is read.
Receive(h, n) ==
  /\ run[h] = Idle
  /\ n \notin processed
  /\ n.order \in open /\ n.provider = ProviderOf[n.order] /\ AmountAgrees(n)
  /\ run' = [run EXCEPT ![h] = [at |-> "read", notice |-> n, seen |-> order[n.order]]]
  /\ regular' = [regular EXCEPT ![n.order] =
       @ /\ \A g \in Handlers \ {h} : Busy(g, n.order) => run[g].notice = n]
  /\ UNCHANGED <<today, open, rows, times, calm>>
-----------------------------------------------------------------------------
(* The transaction: what it reads.                                          *)

Current == {s \in Subs : subs[s].status = "ACTIVE" /\ subs[s].end > today}
Latest(S) == {s \in S : \A t \in S : subs[t].end <= subs[s].end}

\* Mutant of Extended: the days count from today.
ExtendedToday(o) ==
  IF Current = {} THEN {[do |-> "activate", sub |-> None, end |-> today + Days[o]]}
  ELSE {[do |-> "activate", sub |-> s, end |-> today + Days[o]] : s \in Latest(Current)}

\* The days are added to the latest subscription that still runs.
Extended(o) ==
  IF Current = {} THEN {[do |-> "activate", sub |-> None, end |-> today + Days[o]]}
  ELSE {[do |-> "activate", sub |-> s, end |-> subs[s].end + Days[o]] : s \in Latest(Current)}

\* activateOrder: an order that is paid, or was, is not activated again.
Activations(n, seen) ==
  CASE seen.status = "PAID" -> {[do |-> "book", as |-> "DUPLICATE"]}
    [] seen.status \in Revoked -> {[do |-> "book", as |-> "IGNORED"]}
    [] OTHER -> Extended(n.order)

Free == [plan |-> "FREE", status |-> "EXPIRED", end |-> today]
Shown(S) == {[plan |-> "PRO", status |-> "ACTIVE", end |-> subs[s].end] : s \in Latest(S)}

\* refreshMembershipProjection, after sub is cancelled: a manual membership
\* stays, else the latest subscription that still runs is shown.
Projections(sub) ==
  IF membership.status = "MANUAL" /\ membership.end > today THEN {membership}
  ELSE IF Current \ {sub} # {} THEN Shown(Current \ {sub}) ELSE {Free}

Writes(n, seen) ==
  CASE n.status = "FAILED" -> {[do |-> "fail"]}
    [] n.status \in Revoked ->
         {[do |-> "revoke", sub |-> seen.sub, shown |-> m] : m \in Projections(seen.sub)}
    [] n.status = "CANCELED" -> {IF seen.sub = None THEN [do |-> "nothing"]
                               ELSE [do |-> "cancel", sub |-> seen.sub]}
    [] OTHER -> Activations(n, seen)

\* The event is inserted, unless it was in the meantime, and the rows are read.
Begin(h) ==
  /\ run[h].at = "read"
  /\ LET n == run[h].notice IN
     /\ ~\E g \in Handlers \ {h} : run[g].at = "tx" /\ run[g].notice.order = n.order
     /\ IF n \in processed THEN run' = [run EXCEPT ![h] = Idle]
        ELSE \E w \in Writes(n, run[h].seen) :
               run' = [run EXCEPT ![h] = [at |-> "tx", notice |-> n, write |-> w]]
  /\ calm' = (calm /\ \A g \in Handlers \ {h} : ~InTx(g))
  /\ UNCHANGED <<today, open, rows, times, regular>>
-----------------------------------------------------------------------------
(* The transaction: what it commits.                                        *)

\* createPaymentTransaction: the first entry of a payment stays.
Book(n, as) ==
  booked' = IF n.payment \notin Payments THEN booked
            ELSE [booked EXCEPT ![n.payment] = IF @ = "NONE" THEN as ELSE @]

Record(h) ==
  /\ processed' = processed \cup ({run[h].notice} \cap Notices)
  /\ run' = [run EXCEPT ![h] = Idle]

\* grantProEntitlements, of the thirty rows the last day.
GrantProEntitlements(o, end) == [until EXCEPT ![o] = IF end > @ THEN end ELSE @]

CommitActivation(h) ==
  LET n == run[h].notice
      w == run[h].write
  IN
  /\ run[h].at = "tx" /\ w.do = "activate"
  /\ \E s \in Subs :
       /\ IF w.sub = None THEN subs[s].status = "NONE" /\ \A t \in 1..(s - 1) : subs[t].status # "NONE"
                          ELSE s = w.sub
       /\ subs' = [subs EXCEPT ![s] = [status |-> "ACTIVE", end |-> w.end]]
       /\ order' = [order EXCEPT ![n.order] = [status |-> "PAID", sub |-> s]]
  /\ until' = GrantProEntitlements(n.order, w.end)
  /\ membership' = [plan |-> "PRO", status |-> "ACTIVE", end |-> w.end]
  /\ times' = [times EXCEPT ![n.order] = IF @ = 2 THEN 2 ELSE @ + 1]
  /\ Book(n, "SUCCEEDED") /\ Record(h)
  /\ UNCHANGED <<today, open, granted, regular, calm>>

\* The order's entitlements end.
Cut(o) == [until EXCEPT ![o] = IF @ > today THEN today ELSE @]

\* Mutant of CommitRevocation: the subscription runs on.
CommitRevocationOrder(h) ==
  LET n == run[h].notice
      w == run[h].write
  IN
  /\ run[h].at = "tx" /\ w.do = "revoke"
  /\ until' = Cut(n.order)
  /\ order' = [order EXCEPT ![n.order] = [status |-> n.status, sub |-> @.sub]]
  /\ membership' = w.shown
  /\ Book(n, n.status) /\ Record(h)
  /\ UNCHANGED <<today, open, subs, granted, history>>

\* revokeOrderEntitlements: the subscription is the one the order had when it
\* was read; the order's status is not looked at.
CommitRevocation(h) ==
  LET n == run[h].notice
      w == run[h].write
  IN
  /\ run[h].at = "tx" /\ w.do = "revoke"
  /\ until' = Cut(n.order)
  /\ order' = [order EXCEPT ![n.order] = [status |-> n.status, sub |-> @.sub]]
  /\ subs' = IF w.sub = None THEN subs
             ELSE [subs EXCEPT ![w.sub] = [status |-> "CANCELED", end |-> today]]
  /\ membership' = w.shown
  /\ Book(n, n.status) /\ Record(h)
  /\ UNCHANGED <<today, open, granted, history>>

\* cancelSubscriptionAtPeriodEnd.
CommitCancellation(h) ==
  LET n == run[h].notice IN
  /\ run[h].at = "tx" /\ run[h].write.do = "cancel"
  /\ order' = [order EXCEPT ![n.order] = [status |-> "CANCELED", sub |-> @.sub]]
  /\ Book(n, "CANCELED") /\ Record(h)
  /\ regular' = [regular EXCEPT ![n.order] = FALSE]
  /\ UNCHANGED <<today, open, subs, until, granted, membership, times, calm>>

\* Mutant of CommitFailure: only a paid or canceled order is left as it is.
CommitFailureUnpaid(h) ==
  LET n == run[h].notice IN
  /\ run[h].at = "tx" /\ run[h].write.do = "fail"
  /\ order' = IF order[n.order].status \notin {"PAID", "CANCELED"}
              THEN [order EXCEPT ![n.order] = [status |-> "FAILED", sub |-> @.sub]] ELSE order
  /\ Book(n, "FAILED") /\ Record(h)
  /\ UNCHANGED <<today, open, subs, until, granted, membership, history>>

\* markOrderFailed: only an order that is still pending.
CommitFailure(h) ==
  LET n == run[h].notice IN
  /\ run[h].at = "tx" /\ run[h].write.do = "fail"
  /\ order' = IF order[n.order].status = "PENDING"
              THEN [order EXCEPT ![n.order] = [status |-> "FAILED", sub |-> @.sub]] ELSE order
  /\ Book(n, "FAILED") /\ Record(h)
  /\ UNCHANGED <<today, open, subs, until, granted, membership, history>>

\* A payment that changes nothing but the books, or not even them.
CommitNothing(h) ==
  /\ run[h].at = "tx" /\ run[h].write.do \in {"book", "nothing"}
  /\ IF run[h].write.do = "book" THEN Book(run[h].notice, run[h].write.as) ELSE UNCHANGED booked
  /\ Record(h)
  /\ UNCHANGED <<today, open, order, subs, until, granted, membership, history>>

\* A deadlock of two transactions, or the death of the process.
Abort(h) ==
  /\ run[h] # Idle
  /\ run' = [run EXCEPT ![h] = Idle]
  /\ UNCHANGED <<today, open, rows, history>>
-----------------------------------------------------------------------------
(* AdminService.updateMembership: three statements without a transaction.   *)

GrantMembership(h, m) ==
  /\ run[h] = Idle
  /\ membership' = m
  /\ run' = [run EXCEPT ![h] = [at |-> "grant", membership |-> m]]
  /\ calm' = (calm /\ \A g \in Handlers \ {h} : ~InTx(g))
  /\ UNCHANGED <<today, open, order, subs, until, granted, processed, booked, times, regular>>

GrantEntitlements(h) ==
  /\ run[h].at = "grant"
  /\ LET m == run[h].membership IN
     granted' = IF m.plan = "PRO" /\ m.status \in {"ACTIVE", "MANUAL"} /\ m.end > today
                THEN m.end ELSE IF granted > today THEN today ELSE granted
  /\ run' = [run EXCEPT ![h] = Idle]
  /\ UNCHANGED <<today, open, order, subs, until, membership, processed, booked, history>>

Next ==
  \/ Tick
  \/ \E o \in Orders : CreateOrder(o) \/ CreateCheckout(o)
  \/ \E h \in Handlers :
       \/ \E n \in Notice : Receive(h, n)
       \/ \E m \in Grants : GrantMembership(h, m)
       \/ Begin(h) \/ CommitActivation(h) \/ CommitRevocation(h) \/ CommitCancellation(h)
       \/ CommitFailure(h) \/ CommitNothing(h) \/ GrantEntitlements(h) \/ Abort(h)

Spec == Init /\ [][Next]_vars
-----------------------------------------------------------------------------
(* Properties.                                                              *)

\* Nobody is entitled by an order whose status now is not that of a paid one: a failure,
\* a refund or a dispute that is committed ends what the order entitled to, and a
\* cancellation leaves it (it ends with the period).
EntitledIsPaid ==
  \A o \in Orders : until[o] > today => order[o].status \in {"PAID", "CANCELED"}

\* A refund or a dispute is final: no later notice makes the order anything else, so with
\* EntitledIsPaid it entitles nobody again.  Not so in the code, and not claimed, once two
\* different notices of the order have overlapped (a payment notice that read the order
\* before the refund activates it after: billing.service.ts:216, 265) or a cancellation
\* has come (it writes CANCELED over REFUNDED, which can be paid: 359).
RefundIsFinal ==
  [][\A o \in Orders : regular'[o] /\ order[o].status \in Revoked => order'[o].status \in Revoked]_vars

\* Notices that come twice, under two names or late extend the membership once,
\* unless two different ones overlap or a cancellation comes between.
PaidOnce == \A o \in Orders : regular[o] => times[o] <= 1

\* What is refunded does not run on, if no two notices overlapped.
RefundEndsPeriod ==
  \A o \in Orders :
    calm /\ regular[o] /\ order[o].status \in Revoked /\ order[o].sub # None
      => subs[order[o].sub].status = "CANCELED"

\* The membership that is shown is backed by a subscription with the same end, or is
\* one that the administrator sets, if no two transactions overlapped.
ProIsBacked ==
  calm /\ membership.plan = "PRO" /\ membership.status = "ACTIVE" /\ membership.end > today
    => membership \in Grants \/ \E s \in Current : subs[s].end = membership.end

\* A subscription gets shorter only by the refund of an order that was booked on it, if
\* no two transactions overlapped.  Orders share one: the refund of any of them ends the
\* whole of it, with the days that the others added (billing.service.ts:312-318).
PeriodIsKept ==
  [][\A s \in Subs : calm' /\ subs'[s].end < subs[s].end
       => \E o \in Orders : order[o].sub = s /\ order'[o].status \in Revoked]_vars

\* The entitlements of an order get shorter only by its own refund.
RefundTakesOwn ==
  [][\A o \in Orders : until'[o] < until[o] => order'[o].status \in Revoked]_vars

\* A membership the administrator has set by hand changes, while it is valid, only by the
\* administrator or by a payment, which writes its own over it (billing.service.ts:272-276,
\* against the sources of PLAN.md:582 that do not overwrite each other): no refund,
\* failure, cancellation or repeated notice takes it, if no two transactions overlapped.
ManualYields ==
  [][calm' /\ membership.status = "MANUAL" /\ membership.end > today /\ membership' # membership
       => \E h \in Handlers :
            \/ run[h].at = "tx" /\ run[h].write.do = "activate" /\ run'[h] = Idle
            \/ run[h] = Idle /\ run'[h].at = "grant"]_vars

\* While no two transactions overlap, the order, its period and the membership that
\* is shown tell the same story.
BooksAgree == TypeOK /\ RefundEndsPeriod /\ ProIsBacked

\* What the user has gets less only so: a subscription by the refund of an order booked
\* on it, an order's entitlements by its own refund, a membership set by hand by a payment
\* or the administrator; the first and the last while no two transactions overlap.
OnlyRefundTakes == PeriodIsKept /\ RefundTakesOwn /\ ManualYields

\* Only an order that is paid now entitles.  Each payment counts once and a refund is final,
\* unless two different notices of the order overlap or a cancellation comes between.
PaidForOnce == []EntitledIsPaid /\ []PaidOnce /\ RefundIsFinal
=============================================================================
