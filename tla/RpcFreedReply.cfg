SPECIFICATION Spec
CONSTANTS
  Callers = {k1}
  Workers = {w1, w2}
  MaxXid = 2
  MaxChan = 2
  MaxNonce = 1
  lossytest = FALSE
SYMMETRY Symmetry
INVARIANTS SendsLiveBuffer
CHECK_DEADLOCK FALSE
