CONSTANTS
  s1 = s1  s2 = s2  w1 = w1  w2 = w2
  Rows <- MCTwoRows
  Sessions <- MCSessions
  SessionOf <- MCOneSession
  Workers <- MCWorkers
  NoRun = NoRun
  Signals <- MCNoSignals
  MaxAttempts = 2
  MaxAborts = 1
  LeaseCoversTurn = FALSE
  CommitInOrder = TRUE
SPECIFICATION Spec
CHECK_DEADLOCK FALSE
INVARIANT SessionSerialized
