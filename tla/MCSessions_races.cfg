CONSTANTS
  c1 = c1
  w1 = w1
  Users = {u1}
  Wechats = {w1}
  Clients = {c1}
  Calls = {r1, r2}
  WechatOf <- MCWechatOf
  Caller <- MCCaller
  None = None
  MaxSessions = 2
  MaxPairs = 3
  MaxMishaps = 1
SPECIFICATION SessionsSpec
INVARIANTS TokensAgree
PROPERTIES LogoutIsFinal KeepsTokens
CHECK_DEADLOCK FALSE
