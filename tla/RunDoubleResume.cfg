CONSTANTS
  i1 = i1  i2 = i2  i3 = i3
  k1 = k1  k2 = k2  k3 = k3
  d1 = d1  d2 = d2  d3 = d3
  u1 = u1  u2 = u2
  Invocations <- MCInvocations
  First = i1
  Calls <- MCThreeCalls
  NoCall = NoCall
  Deciders <- MCThreeDeciders
  Undoers <- MCNoUndoers
  ResumeOnce = FALSE
SPECIFICATION ControlSpec
CHECK_DEADLOCK FALSE
INVARIANT AtMostOnePending
