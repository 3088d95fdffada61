SPECIFICATION Spec
CONSTANTS
  Callers = {k1, k2}
  Workers = {w1, w2}
  MaxXid = 2
  MaxChan = 2
  MaxNonce = 2
  lossytest = FALSE
SYMMETRY Symmetry
INVARIANTS OnceInv AnsweredByExecution
CHECK_DEADLOCK FALSE
