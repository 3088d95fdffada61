SPECIFICATION Spec
CONSTANTS
  Callers = {k1, k2}
  Workers = {w1, w2}
  MaxXid = 3
  MaxChan = 2
  MaxNonce = 1
  lossytest = FALSE
SYMMETRY Symmetry
INVARIANTS TypeOK AnsweredByExecution XidRepSound RepliesKept
CHECK_DEADLOCK FALSE
