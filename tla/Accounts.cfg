SPECIFICATION MCSpec
CONSTANTS
  None = None
  Users = {u1}
  Tokens = {1, 2}
  Requests = {q1, q2}
  Ttl = 2
  RenewBelow = 2
  MaxTime = 3
  Instances = {i1, i2}
  Visitors = {v1}
  Strangers = {v2}
  Proxies = {p1, p2}
  Sources = {"socket", "forwarded", "header"}
  Quota = 2
  Window = 2
  MaxForgotten = 1
  Processes = {a1, a2}
  Rows = {r1, r2, r3, r4}
  Capacity = 2
INVARIANTS
  SessionsHold
  LoginsWithinQuota
  ClientsHold
  AccountsHold
PROPERTIES
  SessionsSettle
  QuotaReturns
