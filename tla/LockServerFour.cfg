SPECIFICATION FairSpec
CONSTANTS
  NoCaller = NoCaller
  ProcessOf <- TwoProcesses
  Callers = {k1, k2, k3, k4}
  PoolSize = 4
INVARIANTS TypeOK EntryAgrees CountExact PoolNotExhausted
PROPERTIES LockNotLost LockSpec
CHECK_DEADLOCK FALSE
