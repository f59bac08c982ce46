CONSTANTS
  s1 = s1  s2 = s2  w1 = w1  w2 = w2
  Rows <- MCRows
  Sessions <- MCSessions
  SessionOf <- MCSessionOf
  Workers <- MCWorkers
  NoRun = NoRun
  Signals <- MCSignals
  MaxAttempts = 2
  MaxAborts = 2
  LeaseCoversTurn = TRUE
  CommitInOrder = TRUE
SPECIFICATION FairSpec
CHECK_DEADLOCK FALSE
INVARIANT TypeOK
INVARIANT TurnOnce
INVARIANT SessionSerialized
INVARIANT ConversationIsOneChain
INVARIANT RowTellsTheRun
PROPERTY SettledIsFinal
PROPERTY EveryRowSettles
