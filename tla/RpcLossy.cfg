SPECIFICATION Spec
CONSTANTS
  Callers = {k1}
  Workers = {w1, w2}
  MaxXid = 4
  MaxChan = 2
  MaxNonce = 1
  lossytest = TRUE
SYMMETRY Symmetry
INVARIANTS AtMostOnce
CHECK_DEADLOCK FALSE
