SPECIFICATION Spec
CONSTANTS
  stripe = stripe
  wechat = wechat
  h1 = h1
  h2 = h2

  Orders <- MCOrders
  Days <- MCDays
  ProviderOf <- MCProviderOf
  Price <- MCPrice
  TradeType = "NATIVE"
  Callbacks <- MCCallbacks
  Grants <- MCGrants
  Refundable = {}
  Handlers = {h1, h2}
  MaxDay = 1
  MaxSubs = 3
SYMMETRY Symmetry
INVARIANTS BooksAgree
PROPERTIES PaidForOnce OnlyRefundTakes
CHECK_DEADLOCK FALSE
