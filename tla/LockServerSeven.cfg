SPECIFICATION Spec
CONSTANTS
  NoCaller = NoCaller
  ProcessOf <- OneProcess
  Callers = {k1, k2, k3, k4, k5, k6, k7}
  PoolSize = 6
SYMMETRY Symmetry
INVARIANTS PoolNotExhausted
CHECK_DEADLOCK FALSE
