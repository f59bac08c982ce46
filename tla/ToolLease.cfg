CONSTANTS
  c1 = c1  c2 = c2  c3 = c3
  create = create  delete = delete  update = update
  Callers <- MCCallers
  Requests <- MCRequests
  KindOf <- MCKindOf
  NoCaller = NoCaller
  NoRequest = NoRequest
  ResolveAttempts = 2
  PollAttempts = 1
  HolderPrompt = TRUE
  ClocksAgree = FALSE
SPECIFICATION FairSpec
CHECK_DEADLOCK FALSE
INVARIANT TypeOK
INVARIANT AtMostOnce
INVARIANT CompletedIffCommitted
INVARIANT AnsweredWithOwnRequest
INVARIANT SoleHolder
PROPERTY CompletedIsFinal
PROPERTY ImplementsToolCall
PROPERTY CallsReturn
