SPECIFICATION Spec
CONSTANTS
  c1 = c1
  c2 = c2
  c3 = c3
  t1 = t1
  t2 = t2
  t3 = t3
  t4 = t4
  t5 = t5
  NoClient = NoClient
  RpcMayFail = TRUE
  Abandoned = {a1, a2}
  Clients = {c1, c2}
  Threads = {t1, t2, t3, t4}
  ClientOf <- TwoByTwo
INVARIANTS RetryFailureNamesClient
