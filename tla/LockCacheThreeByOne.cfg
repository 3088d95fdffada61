SPECIFICATION FairSpec
CONSTANTS
  c1 = c1
  c2 = c2
  c3 = c3
  t1 = t1
  t2 = t2
  t3 = t3
  t4 = t4
  t5 = t5
  NoClient = NoClient
  RpcMayFail = FALSE
  Abandoned = {}
  Clients = {c1, c2, c3}
  Threads = {t1, t2, t3}
  ClientOf <- ThreeByOne
INVARIANTS HolderAgreement RevokeReachesHolder RetryReachesFront ReacquireGranted QueueSound
PROPERTIES AcquireReturns
