SPECIFICATION Spec
CONSTANTS
  Callers = {k1}
  Workers = {w1, w2}
  MaxXid = 1
  MaxChan = 2
  MaxNonce = 1
  lossytest = FALSE
SYMMETRY Symmetry
INVARIANTS DoneHasReply
CHECK_DEADLOCK FALSE
