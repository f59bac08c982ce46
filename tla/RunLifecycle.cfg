CONSTANTS
  i1 = i1  i2 = i2  i3 = i3
  k1 = k1  k2 = k2  k3 = k3
  d1 = d1  d2 = d2  d3 = d3
  u1 = u1  u2 = u2
  Invocations <- MCInvocations
  First = i1
  Calls <- MCCalls
  NoCall = NoCall
  Deciders <- MCDeciders
  Undoers <- MCUndoers
  ResumeOnce = TRUE
SPECIFICATION ControlFairSpec
CHECK_DEADLOCK FALSE
INVARIANT TypeOK
INVARIANT AtMostOnePending
INVARIANT WaitsForItsCard
INVARIANT ExecutedWereApproved
INVARIANT ResumesItsOwnCall
INVARIANT ControlTellsTheTruth
PROPERTY TerminalIsFinal
PROPERTY UndoCoversTheRun
PROPERTY RunSettles
