----------------------------- MODULE MCBilling -----------------------------
(***************************************************************************)
(* Instances of Billing for TLC: two orders, one by Stripe, whose payment  *)
(* is announced by two events, and one by WeChat Pay.                      *)
(***************************************************************************)
EXTENDS Billing

CONSTANTS stripe, wechat, h1, h2

MCOrders == {stripe, wechat}
MCDays == [o \in MCOrders |-> IF o = stripe THEN 2 ELSE 1]

MCProviderOf == [o \in MCOrders |-> IF o = stripe THEN "STRIPE" ELSE "WECHAT_PAY"]
MCPrice == [o \in MCOrders |-> 3]

Callback(provider, id, type, about, amounts) ==
  [provider |-> provider, id |-> id, type |-> type, about |-> about, amounts |-> amounts,
   signed |-> TRUE, sealed |-> TRUE]
Session == [client_reference_id |-> stripe, id |-> "session", payment_intent |-> "intent"]
Intent == [metadata |-> stripe, id |-> "intent"]
Charge == [metadata |-> stripe, id |-> "charge", payment_intent |-> "intent"]
Trade(state) == [out_trade_no |-> wechat, transaction_id |-> "transaction", trade_state |-> state]
Refund == [out_trade_no |-> wechat, transaction_id |-> "transaction", refund_status |-> "SUCCESS"]

\* Half of the charge is refunded: its amount is still the price.  The last four are
\* refused: unsigned, of another amount, without an order, of an unknown type.
MCCallbacks ==
  {Callback("STRIPE", "e1", "checkout.session.completed", Session, [amount_total |-> 3]),
   Callback("STRIPE", "e2", "payment_intent.succeeded", Intent, [amount |-> 3]),
   Callback("STRIPE", "e3", "charge.refunded", Charge, [amount |-> 3, amount_refunded |-> 1]),
   Callback("STRIPE", "e4", "payment_intent.payment_failed", Intent, [amount |-> 3]),
   Callback("WECHAT_PAY", "w1", "TRANSACTION", Trade("SUCCESS"), [total |-> 3]),
   Callback("WECHAT_PAY", "w2", "TRANSACTION", Trade("REVOKED"), [total |-> 3]),
   [Callback("STRIPE", "e5", "invoice.paid", Intent, [amount_paid |-> 3]) EXCEPT !.signed = FALSE],
   Callback("WECHAT_PAY", "w3", "REFUND", Refund, [refund |-> 1, total |-> 3]),
   Callback("STRIPE", "e6", "refund.created", [id |-> "refund"], [amount |-> 3]),
   Callback("STRIPE", "e7", "customer.created", Intent, [amount |-> 3])}
Symmetry == Permutations({h1, h2})
MCGrants == {[plan |-> "PRO", status |-> "MANUAL", end |-> 2]}
=============================================================================
